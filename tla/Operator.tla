------------------------------ MODULE Operator ------------------------------
(***************************************************************************)
(* The controller on a node: the API server's policies and node labels     *)
(* reach its caches late, every change queues a key, and one worker turns  *)
(* any key into the selection and the application of one policy.           *)
(*                                                                         *)
(* What the API server holds is the history of its contents; a cache is a  *)
(* position in it. A policy is its name, a number in alphabetical order,   *)
(* with its selector and the time of its creation.                         *)
(***************************************************************************)
EXTENDS Integers, Sequences, SequencesExt, PolicyInForce

CONSTANTS
    Policy,               \* names of policies
    Selector,             \* selectors: "nil", "invalid" or the label they match
    Time,                 \* creation timestamps
    Refused,              \* policies for which no request can be built, or whose request
                          \* the module refuses
    Label,                \* labels of the node
    InitialPolicies,      \* what the API server may hold at first
    InitialLabels,
    MaxEvents             \* bound on API changes and controller restarts

VARIABLES
    policies, node,       \* histories of the API server's contents
    policiesSeen,         \* what the caches hold
    nodeSeen,
    queue,
    worker,               \* the reconciliation under way
    applied,
    up,                   \* the controller runs
    at,                   \* for the properties: the contents behind the policy in force
    events

apiVars == <<policies, node>>
cacheVars == <<policiesSeen, nodeSeen>>
operatorVars == <<policies, node, policiesSeen, nodeSeen, queue, worker, applied, up, at, events>>

Absent == "absent"        \* no such node
NoEntry == [selector |-> Absent, created |-> 0]   \* no such policy
DefaultPolicy == <<0, "default">> \* "bpfima-default"
AllPolicies == 0          \* the key "reconcile-all-policies"
Idle == [pc |-> "idle"]
NotApplied == [policies |-> 0, node |-> 0]

\* What the API server may hold under a name.
Contents == [selector : Selector, created : Time] \cup {NoEntry}

Existing(content) == {p \in Policy : content[p] # NoEntry}

-----------------------------------------------------------------------------
(* Selection *)

\* Mutant: of policies of the same age the one listed last wins.
Newer_Last(p, q, content) == q = 0 \/ content[p].created >= content[q].created

\* p takes the place of the candidate q, 0 if there is none.
Newer(p, q, content) ==
    \/ q = 0
    \/ content[p].created > content[q].created
    \/ content[p].created = content[q].created /\ p < q

Consider(found, p, content, label) ==
    LET selector == content[p].selector
    IN  CASE selector = "nil" -> IF Newer(p, found.generic, content) THEN [found EXCEPT !.generic = p] ELSE found
          [] selector = "invalid" -> [found EXCEPT !.err = TRUE]
          [] OTHER -> IF selector = label /\ Newer(p, found.specific, content)
                      THEN [found EXCEPT !.specific = p] ELSE found

\* The policies in the order in which they are listed: specific before generic
\* before default, or an error.
IdentifyCorrectPolicy(order, content, label) ==
    LET found == FoldLeft(LAMBDA f, p : IF f.err THEN f ELSE Consider(f, p, content, label),
                          [generic |-> 0, specific |-> 0, err |-> FALSE], order)
    IN  CASE found.err -> NoPolicy
          [] ~found.err /\ found.specific # 0 -> <<found.specific, content[found.specific]>>
          [] ~found.err /\ found.specific = 0 /\ found.generic # 0 -> <<found.generic, content[found.generic]>>
          [] OTHER -> DefaultPolicy

-----------------------------------------------------------------------------
(* The API server and its watches *)

\* A policy is created, changed or deleted; it keeps its age as long as it exists.
SetPolicy(p, policy) ==
    /\ events < MaxEvents /\ events' = events + 1
    /\ Last(policies)[p] # policy
    /\ Last(policies)[p] # NoEntry /\ policy # NoEntry => policy.created = Last(policies)[p].created
    /\ policies' = Append(policies, [Last(policies) EXCEPT ![p] = policy])
    /\ UNCHANGED <<inForceVars, node, cacheVars, queue, worker, applied, up, at>>

SetNode(label) ==
    /\ events < MaxEvents /\ events' = events + 1
    /\ Last(node) # label
    /\ node' = Append(node, label)
    /\ UNCHANGED <<inForceVars, policies, cacheVars, queue, worker, applied, up, at>>

Enqueue(keys) ==
    /\ queue' = queue \cup keys
    /\ replaced' = (replaced /\ keys = {})

\* Creation, update and deletion of a policy queue its name.
WatchPolicies ==
    /\ up /\ policiesSeen < Len(policies)
    /\ policiesSeen' = policiesSeen + 1
    /\ Enqueue({p \in Policy : policies[policiesSeen][p] # policies[policiesSeen + 1][p]})
    /\ UNCHANGED <<bound, committed, latched, apiVars, nodeSeen, worker, applied, up, at, events>>

\* Creation and relabelling of the node queue one key; its deletion none.
WatchNode ==
    /\ up /\ nodeSeen < Len(node)
    /\ nodeSeen' = nodeSeen + 1
    /\ Enqueue(IF node[nodeSeen + 1] = Absent THEN {} ELSE {AllPolicies})
    /\ UNCHANGED <<bound, committed, latched, apiVars, policiesSeen, worker, applied, up, at, events>>

-----------------------------------------------------------------------------
(* Reconcile *)

Start(key) ==
    /\ up /\ worker = Idle /\ key \in queue
    /\ queue' = queue \ {key}
    /\ worker' = [pc |-> "label", key |-> key]
    /\ UNCHANGED <<inForceVars, apiVars, cacheVars, applied, up, at, events>>

Done == worker' = Idle /\ UNCHANGED queue

\* Mutant: a failed reconciliation is not tried again.
Failed_Dropped == worker' = Idle /\ UNCHANGED queue

\* An error queues the key again, after a delay.
Failed == worker' = Idle /\ queue' = queue \cup {worker.key}

\* Without its node the controller leaves the policy alone.
getNodeLabel ==
    /\ worker.pc = "label"
    /\ IF node[nodeSeen] = Absent THEN Done
       ELSE /\ worker' = [pc |-> "list", key |-> worker.key, node |-> nodeSeen]
            /\ UNCHANGED queue
    /\ UNCHANGED <<inForceVars, apiVars, cacheVars, applied, up, at, events>>

\* Get or List fails.
ReadFails ==
    /\ worker.pc \in {"label", "list"} /\ Failed
    /\ UNCHANGED <<inForceVars, apiVars, cacheVars, applied, up, at, events>>

\* The list comes in any order. A selector that is not valid fails the whole call.
SelectPolicy ==
    /\ worker.pc = "list"
    /\ \E order \in SetToSeqs(Existing(policies[policiesSeen])) :
          LET selected == IdentifyCorrectPolicy(order, policies[policiesSeen], node[worker.node])
          IN  IF selected = NoPolicy THEN Failed
              ELSE /\ worker' = [pc |-> "apply", key |-> worker.key, node |-> worker.node,
                                 policies |-> policiesSeen, selected |-> selected]
                   /\ UNCHANGED queue
    /\ UNCHANGED <<inForceVars, apiVars, cacheVars, applied, up, at, events>>

\* The module commits the request before it activates it.
ApplyPolicy ==
    /\ worker.pc = "apply" /\ bound /\ ~latched /\ worker.selected \notin Refused
    /\ committed' = worker.selected
    /\ at' = [policies |-> worker.policies, node |-> worker.node]
    /\ applied' = TRUE
    /\ Done
    /\ UNCHANGED <<bound, latched, replaced, apiVars, cacheVars, up, events>>

\* No request, no endpoint, no policy map, a refusal, or an error of the commit.
ApplyFails ==
    /\ worker.pc = "apply" /\ Failed
    /\ UNCHANGED <<inForceVars, apiVars, cacheVars, applied, up, at, events>>

\* The controller ends, at any point.
StopController ==
    /\ up /\ events < MaxEvents /\ events' = events + 1
    /\ up' = FALSE /\ applied' = FALSE /\ worker' = Idle /\ queue' = {}
    /\ UNCHANGED <<inForceVars, apiVars, cacheVars, at>>

\* A new controller lists everything before its worker starts, from a server that may
\* lag but never behind what the controller before it has seen.
StartController ==
    /\ ~up /\ up' = TRUE
    /\ policiesSeen' \in policiesSeen..Len(policies) /\ nodeSeen' \in nodeSeen..Len(node)
    /\ Enqueue(Existing(policies[policiesSeen']) \cup (IF node[nodeSeen'] = Absent THEN {} ELSE {AllPolicies}))
    /\ UNCHANGED <<bound, committed, latched, apiVars, worker, applied, at, events>>

OperatorInit ==
    /\ policies \in {<<content>> : content \in InitialPolicies}
    /\ node \in {<<label>> : label \in InitialLabels}
    /\ policiesSeen = 1 /\ nodeSeen = 1
    /\ queue = {} /\ worker = Idle /\ applied = FALSE /\ up = FALSE
    /\ at = NotApplied /\ events = 0

OperatorNext ==
    \/ \E p \in Policy, policy \in Contents : SetPolicy(p, policy)
    \/ \E l \in Label \cup {Absent} : SetNode(l)
    \/ WatchPolicies \/ WatchNode
    \/ \E key \in Policy \cup {AllPolicies} : Start(key)
    \/ getNodeLabel \/ ReadFails \/ SelectPolicy \/ ApplyPolicy \/ ApplyFails
    \/ StopController \/ StartController

\* Informers and the worker keep going, and the kubelet restarts the container. Reads
\* of caches that are filled fail for a time only, and a request that the module can
\* commit and does not refuse is committed when it is tried again and again.
OperatorFairness ==
    /\ WF_operatorVars(WatchPolicies \/ WatchNode \/ StartController)
    /\ WF_operatorVars(\/ \E key \in Policy \cup {AllPolicies} : Start(key)
                       \/ getNodeLabel \/ ReadFails \/ SelectPolicy \/ ApplyPolicy \/ ApplyFails)
    /\ <>[][~ReadFails]_operatorVars
    /\ SF_operatorVars(ApplyPolicy)

-----------------------------------------------------------------------------
(* Properties *)

\* The policy a node is due, stated over the set of policies: of the specific ones,
\* or else of the generic ones, the newest, and the first by name of the newest.
Best(content, label) ==
    LET specific == {p \in Existing(content) : content[p].selector = label}
        generic == {p \in Existing(content) : content[p].selector = "nil"}
        candidates == IF specific # {} THEN specific ELSE generic
        newest == {p \in candidates : \A q \in candidates : content[q].created <= content[p].created}
    IN  IF candidates = {} THEN DefaultPolicy ELSE <<Min(newest), content[Min(newest)]>>

\* Every policy the controller puts in force is the one due for contents the API
\* server has held, and never for older ones than the policy before it.
CommitsFollowApi ==
    [][at' # at => /\ at'.policies >= at.policies /\ at'.node >= at.node
                   /\ committed' = Best(policies[at'.policies], node[at'.node])]_<<at, committed>>

\* What the controller cannot do without.
Settled ==
    /\ up /\ bound /\ ~latched /\ ~replaced /\ Last(node) # Absent
    /\ \A p \in Existing(Last(policies)) : Last(policies)[p].selector # "invalid"
    /\ Best(Last(policies), Last(node)) \notin Refused

\* Once the module has its map for good, with no error latched and without having been
\* replaced since the controller's last event, the controller keeps running, the node
\* exists, all selectors are valid and the policy due is not refused, the controller
\* becomes ready and the policy in force becomes and stays the one due for what the API
\* server holds, whatever was read late, lost in a restart or failed before.
Converges == (<>[]Settled) => <>[](applied /\ committed = Best(Last(policies), Last(node)))

=============================================================================
