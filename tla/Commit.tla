------------------------------- MODULE Commit -------------------------------
(***************************************************************************)
(* The measurement transaction of bpfima: every event (a measurement of a  *)
(* container or a policy change) is hashed into the container's leaf and   *)
(* the system Merkle root, extended into a TPM PCR and only then published *)
(* to the software state, all under bpfima_commit_mutex.                   *)
(*                                                                         *)
(* Sources: src/src/merkle.c, src/src/tpm_ops.c, src/src/hash_utils.c,     *)
(* src/src/measurements.c, src/src/kfuncs_measure.c.                       *)
(*                                                                         *)
(* A SHA-256 chain H(..H(H(0 || v1) || v2).. || vn) is the sequence        *)
(* <<v1, .., vn>>: the hash is taken to be collision free, so a chain      *)
(* value and the sequence of what was extended into it determine each      *)
(* other.                                                                  *)
(***************************************************************************)
EXTENDS Integers, Sequences, FiniteSets

CONSTANTS
    Proc,           \* tasks that call into the module
    NoProc,         \* nobody: the commit mutex is free
    Container,      \* namespace identifiers, all of them non-empty
    Digest,         \* SHA-256 digests of measured data
    PolicyDigest,   \* SHA-256 digests of policy events
    HistoryMax,     \* values merkle_history_max_size takes (0: no trimming)
    HistoryScope,   \* values merkle_history_scope takes
    Fault,          \* which fallible calls may fail: "alloc", "hash", "tpm"
    MaxRoot         \* bound on the events after which no committing call begins

ASSUME ConstAssumption ==
    /\ NoProc \notin Proc
    /\ "" \notin Container
    /\ HistoryMax \subseteq Nat
    /\ HistoryScope \subseteq {"GLOBAL", "ROOT_ONLY"}
    /\ Fault \subseteq {"alloc", "hash", "tpm"}
    /\ MaxRoot \in Nat

VARIABLES
    chip,                   \* what tpm_default_chip() finds now
    pcr_index_valid,        \* module parameter tpm_pcr_index is in 0..23
    pcr,                    \* the PCR, as the roots extended this epoch
    commit_mutex,           \* the task holding bpfima_commit_mutex
    bpfima_commit_error,    \* latched error, "OK" while there is none
    hardware_anchored,
    software_committed,
    measurement_list,       \* per container: digests of its entries
    measurement_count,
    leaf_hash,
    sha256_hash_table,      \* pairs <<digest, namespace>>
    root_hash,              \* system_merkle_root.root_hash
    merkle_root_history,    \* sequence of history entries
    merkle_root_history_count,
    pc,                     \* per task: where in its call it is
    req,                    \* per task: what it was called with
    value,                  \* per task: the value being committed
    new_root,               \* per task: root_hash extended with value
    entries_to_delete,      \* per task: entries a trim has detached
    ret                     \* per task: the result of its call

tpmVars == <<chip, pcr_index_valid, pcr>>
modeVars == <<bpfima_commit_error, hardware_anchored, software_committed>>
listVars == <<measurement_list, measurement_count, leaf_hash, sha256_hash_table>>
histVars == <<merkle_root_history, merkle_root_history_count>>
taskVars == <<commit_mutex, pc, req, value, new_root, entries_to_delete, ret>>
vars == <<tpmVars, modeVars, listVars, root_hash, histVars, taskVars>>

-----------------------------------------------------------------------------

ChipState == {"none", "sha256", "other_banks"}
Errno == {"ENODEV", "EIO", "ENOMEM", "EINVAL", "EOPNOTSUPP"}

Zero == <<>>

extend_hash_fresh(old, v) == <<v>>  \* mutant: the old hash is not an input

bpfima_extend_hash(old, v) == Append(old, v)

\* Where an event comes from: bpfima_commit_root_locked is given the
\* namespace or "global_policy", a measurement its container's id.
PolicySource == Container \union {"global_policy"}

MeasureRequest == [kind: {"measure"}, source: Container, digest: Digest]
PolicyRequest == [kind: {"policy"}, source: PolicySource, digest: PolicyDigest]
ReadRequest == [kind: {"read_pcr"}, source: {""}, digest: {""}]
Request == MeasureRequest \union PolicyRequest \union ReadRequest
NoRequest == [kind |-> "read_pcr", source |-> "", digest |-> ""]

Locked == {"prepare", "extend", "publish", "trim", "aggregate", "read"}
PC == {"idle", "check", "lock", "done"} \union Locked

may_fail(f) == f \in Fault

bpfima_tpm_available == chip # "none"

hardware_always_allowed == TRUE  \* mutant: the epoch is forgotten

hardware_allowed == ~software_committed \/ hardware_anchored

\* mutant: the latched error is not looked at
commit_check_afresh ==
    IF hardware_anchored /\ ~bpfima_tpm_available THEN "ENODEV"
    ELSE IF ~hardware_allowed /\ bpfima_tpm_available THEN "EIO"
    ELSE "OK"

\* bpfima_commit_check_locked: the error it returns and latches.
commit_check ==
    IF bpfima_commit_error # "OK" THEN bpfima_commit_error
    ELSE IF hardware_anchored /\ ~bpfima_tpm_available THEN "ENODEV"
    ELSE IF ~hardware_allowed /\ bpfima_tpm_available THEN "EIO"
    ELSE "OK"

\* bpfima_commit_fail_locked: the first error stays.
commit_fail(e) ==
    IF bpfima_commit_error = "OK" THEN e ELSE bpfima_commit_error

\* mutants: no bucket is searched; the namespace is not compared
hash_exists_never(d, c) == FALSE
hash_exists_anywhere(d, c) == \E b \in Container : <<d, b>> \in sha256_hash_table

hash_exists(d, c) == <<d, c>> \in sha256_hash_table

Init ==
    /\ chip \in ChipState
    /\ pcr_index_valid \in BOOLEAN
    /\ pcr = Zero
    /\ commit_mutex = NoProc
    /\ bpfima_commit_error = "OK"
    /\ hardware_anchored = FALSE
    /\ software_committed = FALSE
    /\ measurement_list = [c \in Container |-> <<>>]
    /\ measurement_count = [c \in Container |-> 0]
    /\ leaf_hash = [c \in Container |-> Zero]
    /\ sha256_hash_table = {}
    /\ root_hash = Zero
    /\ merkle_root_history = <<>>
    /\ merkle_root_history_count = 0
    /\ pc = [p \in Proc |-> "idle"]
    /\ req = [p \in Proc |-> NoRequest]
    /\ value = [p \in Proc |-> Zero]
    /\ new_root = [p \in Proc |-> Zero]
    /\ entries_to_delete = [p \in Proc |-> <<>>]
    /\ ret = [p \in Proc |-> "OK"]

-----------------------------------------------------------------------------
(***************************************************************************)
(* The TPM chip may be bound to or unbound from its driver at any time; a  *)
(* PCR keeps its value while the chip is away.                             *)
(***************************************************************************)
ChipChange ==
    /\ chip' \in ChipState \ {chip}
    /\ UNCHANGED <<pcr_index_valid, pcr, modeVars, listVars, root_hash, histVars, taskVars>>

\* mutex_lock(&bpfima_commit_mutex) returns.
mutex_lock == commit_mutex = NoProc

\* bpfima_commit_get_error, called by status_show and policy_bind_map.
CommitGetError ==
    /\ mutex_lock
    /\ bpfima_commit_error' = commit_check
    /\ UNCHANGED <<tpmVars, hardware_anchored, software_committed, listVars,
                   root_hash, histVars, taskVars>>

Goto(p, l) == pc' = [pc EXCEPT ![p] = l]

\* bpfima_measurement_extend turns a duplicate (1) into success.
kfunc_result(e) == IF e = "DUP" THEN "OK" ELSE e

\* Release the mutex, wipe the hashes of the stack frame, return e.
Leave(p, e) ==
    /\ commit_mutex' = NoProc
    /\ value' = [value EXCEPT ![p] = Zero]
    /\ new_root' = [new_root EXCEPT ![p] = Zero]
    /\ ret' = [ret EXCEPT ![p] = kfunc_result(e)]
    /\ Goto(p, "done")

(***************************************************************************)
(* A call begins. Measurements and policy updates first look at the error  *)
(* (CheckError); reading the PCR takes the mutex at once.                  *)
(***************************************************************************)
Begin(p, r) ==
    /\ pc[p] = "idle"
    /\ r.kind # "read_pcr" => Len(root_hash) < MaxRoot
    /\ req' = [req EXCEPT ![p] = r]
    /\ Goto(p, IF r.kind = "read_pcr" THEN "lock" ELSE "check")
    /\ UNCHANGED <<tpmVars, modeVars, listVars, root_hash, histVars, commit_mutex,
                   value, new_root, entries_to_delete, ret>>

\* bpfima_commit_get_error before any work, then the container is found or
\* created, which may fail for want of memory.
CheckError(p) ==
    /\ pc[p] = "check"
    /\ mutex_lock
    /\ bpfima_commit_error' = commit_check
    /\ \E e \in IF commit_check # "OK" THEN {commit_check}
                ELSE {"OK"} \union (IF may_fail("alloc") THEN {"ENOMEM"} ELSE {}) :
         /\ Goto(p, IF e = "OK" THEN "lock" ELSE "done")
         /\ ret' = [ret EXCEPT ![p] = e]
    /\ UNCHANGED <<tpmVars, hardware_anchored, software_committed, listVars, root_hash,
                   histVars, commit_mutex, req, value, new_root, entries_to_delete>>

\* mutant: the PCR is read whatever the error says
LockOutcomeReadUnchecked(p) ==
    IF req[p].kind # "measure" THEN {"OK"}
    ELSE IF commit_check # "OK" THEN {commit_check}
    ELSE IF hash_exists(req[p].digest, req[p].source) THEN {"DUP"}
    ELSE {"OK"} \union (IF may_fail("alloc") THEN {"ENOMEM"} ELSE {})

\* What the caller meets between taking the mutex and commit_event_locked
\* (add_container_measurement; the policy manager goes straight on).
LockOutcome(p) ==
    IF req[p].kind = "policy" THEN {"OK"}
    ELSE IF commit_check # "OK" THEN {commit_check}
    ELSE IF req[p].kind = "read_pcr" THEN {"OK"}
    ELSE IF hash_exists(req[p].digest, req[p].source) THEN {"DUP"}
    ELSE {"OK"} \union (IF may_fail("alloc") THEN {"ENOMEM"} ELSE {})

LockCommit(p) ==
    /\ pc[p] = "lock"
    /\ mutex_lock
    /\ bpfima_commit_error' = IF req[p].kind = "policy" THEN bpfima_commit_error
                              ELSE commit_check
    /\ \E e \in LockOutcome(p) :
         IF e = "OK"
         THEN /\ commit_mutex' = p
              /\ Goto(p, IF req[p].kind = "read_pcr" THEN "read" ELSE "prepare")
              /\ UNCHANGED <<value, new_root, ret>>
         ELSE Leave(p, e)
    /\ UNCHANGED <<tpmVars, hardware_anchored, software_committed, listVars,
                   root_hash, histVars, req, entries_to_delete>>

(***************************************************************************)
(* commit_event_locked: check again (the chip may have gone since), look   *)
(* for the digest, allocate, hash. Nothing is visible outside the caller.  *)
(***************************************************************************)
PrepareOutcome(p) ==
    IF commit_check # "OK" THEN {commit_check}
    ELSE IF req[p].kind = "measure" /\ hash_exists(req[p].digest, req[p].source)
         THEN {"DUP"}
    ELSE {"OK"} \union (IF may_fail("alloc") THEN {"ENOMEM"} ELSE {})
                \union (IF may_fail("hash") THEN {"EIO"} ELSE {})

EventValue(p) ==
    IF req[p].kind = "measure"
    THEN bpfima_extend_hash(leaf_hash[req[p].source], req[p].digest)
    ELSE req[p].digest

PrepareEvent(p) ==
    /\ pc[p] = "prepare"
    /\ bpfima_commit_error' = commit_check
    /\ \E e \in PrepareOutcome(p) :
         IF e = "OK"
         THEN /\ value' = [value EXCEPT ![p] = EventValue(p)]
              /\ new_root' = [new_root EXCEPT ![p] = bpfima_extend_hash(root_hash, EventValue(p))]
              /\ Goto(p, "extend")
              /\ UNCHANGED <<commit_mutex, ret>>
         ELSE Leave(p, e)
    /\ UNCHANGED <<tpmVars, hardware_anchored, software_committed, listVars,
                   root_hash, histVars, req, entries_to_delete>>

(***************************************************************************)
(* extend_tpm_pcr: the result, whether the command was handed to the TPM,  *)
(* and whether the PCR took the new root. A command that reports an error  *)
(* may have been executed by the chip or not.                              *)
(***************************************************************************)
Outcome(e, started, extended) == [ret |-> e, started |-> started, extended |-> extended]

extend_tpm_pcr ==
    IF ~pcr_index_valid THEN {Outcome("EINVAL", FALSE, FALSE)}
    ELSE IF ~bpfima_tpm_available THEN {Outcome("ENODEV", FALSE, FALSE)}
    ELSE IF ~hardware_allowed THEN {Outcome("EIO", FALSE, FALSE)}
    ELSE IF chip # "sha256" THEN {Outcome("EOPNOTSUPP", FALSE, FALSE)}
    ELSE {Outcome("OK", TRUE, TRUE)}
         \union (IF may_fail("alloc") THEN {Outcome("ENOMEM", FALSE, FALSE)} ELSE {})
         \union (IF may_fail("tpm")
                 THEN {Outcome(e, TRUE, x) : e \in {"EIO", "ENODEV", "ENOMEM"}, x \in BOOLEAN}
                 ELSE {})

\* mutants: ENODEV of a submitted command taken for "no chip"; a hardware
\* epoch that goes on in software
GivesUpUnlessNodev(o) == o.ret # "OK" /\ (o.ret # "ENODEV" \/ hardware_anchored)
GivesUpUnlessAway(o) == o.ret # "OK" /\ (o.started \/ o.ret # "ENODEV")

\* The event is given up: no TPM failure but "no chip in an epoch that never
\* had one" lets the software commit go on.
GivesUp(o) == o.ret # "OK" /\ (o.started \/ o.ret # "ENODEV" \/ hardware_anchored)

LatchesUnlessNomem(o) == o.ret # "ENOMEM"  \* mutant: submitted or not

\* ... and the error is latched, unless the command was never submitted for
\* want of memory.
Latches(o) == o.started \/ o.ret # "ENOMEM"

ExtendTpm(p) ==
    /\ pc[p] = "extend"
    /\ \E o \in extend_tpm_pcr :
         /\ pcr' = IF o.extended THEN Append(pcr, new_root[p]) ELSE pcr
         /\ IF GivesUp(o)
            THEN /\ bpfima_commit_error' =
                        IF Latches(o) THEN commit_fail(o.ret) ELSE bpfima_commit_error
                 /\ Leave(p, IF Latches(o) THEN commit_fail(o.ret) ELSE o.ret)
                 /\ UNCHANGED hardware_anchored
            ELSE /\ hardware_anchored' = (hardware_anchored \/ o.ret = "OK")
                 /\ Goto(p, "publish")
                 /\ UNCHANGED <<bpfima_commit_error, commit_mutex, value, new_root, ret>>
    /\ UNCHANGED <<chip, pcr_index_valid, software_committed, listVars, root_hash,
                   histVars, req, entries_to_delete>>

HistoryEntry(v, src) ==
    [value |-> v, source |-> src, is_aggregate |-> FALSE, aggregated_count |-> 0]

\* Under root.lock, the container's measurement_lock and the history lock;
\* then the digest joins the hash table and the epoch has a commit.
Publish(p) ==
    /\ pc[p] = "publish"
    /\ IF req[p].kind = "measure"
       THEN LET c == req[p].source
                d == req[p].digest
            IN  /\ measurement_list' = [measurement_list EXCEPT ![c] = Append(@, d)]
                /\ measurement_count' = [measurement_count EXCEPT ![c] = @ + 1]
                /\ leaf_hash' = [leaf_hash EXCEPT ![c] = value[p]]
                /\ sha256_hash_table' = sha256_hash_table \union {<<d, c>>}
       ELSE UNCHANGED listVars
    /\ merkle_root_history' = Append(merkle_root_history, HistoryEntry(value[p], req[p].source))
    /\ merkle_root_history_count' = merkle_root_history_count + 1
    /\ root_hash' = new_root[p]
    /\ software_committed' = TRUE
    /\ Goto(p, "trim")
    /\ UNCHANGED <<tpmVars, bpfima_commit_error, hardware_anchored, commit_mutex, req,
                   value, new_root, entries_to_delete, ret>>

(***************************************************************************)
(* bpfima_trim_history_locked reads the policy in force at that moment;    *)
(* trim_merkle_root_history_locked detaches the oldest half, hashes it     *)
(* without the history lock, and puts one aggregate in its place.          *)
(***************************************************************************)
TrimWanted(p, max, scope) ==
    /\ ~(scope = "ROOT_ONLY" /\ req[p].source # "")
    /\ max # 0
    /\ merkle_root_history_count > max

TrimAll == merkle_root_history_count  \* mutant: nothing is spared

TrimSize == IF merkle_root_history_count \div 2 = 0 THEN 1 ELSE merkle_root_history_count \div 2

TrimHistory(p) ==
    /\ pc[p] = "trim"
    /\ \E max \in HistoryMax, scope \in HistoryScope :
         \/ /\ ~TrimWanted(p, max, scope) \/ may_fail("alloc")
            /\ Leave(p, "OK")
            /\ UNCHANGED <<merkle_root_history, entries_to_delete>>
         \/ /\ TrimWanted(p, max, scope)
            /\ entries_to_delete' =
                   [entries_to_delete EXCEPT ![p] = SubSeq(merkle_root_history, 1, TrimSize)]
            /\ merkle_root_history' =
                   SubSeq(merkle_root_history, TrimSize + 1, Len(merkle_root_history))
            /\ Goto(p, "aggregate")
            /\ UNCHANGED <<commit_mutex, value, new_root, ret>>
    /\ UNCHANGED <<tpmVars, modeVars, listVars, root_hash, merkle_root_history_count, req>>

\* mutant: newest first
aggregate_backwards(entries) ==
    [i \in 1..Len(entries) |-> entries[Len(entries) + 1 - i].value]

\* aggregate_merkle_entries: the values of the entries, chained from zero.
aggregate_merkle_entries(entries) == [i \in 1..Len(entries) |-> entries[i].value]

AggregateEntry(entries) ==
    [value |-> aggregate_merkle_entries(entries), source |-> "[AGGREGATE]",
     is_aggregate |-> TRUE, aggregated_count |-> Len(entries)]

\* list_add and list_splice put entries at the head of the list.
list_splice(front, list) == front \o list

count_without_aggregate(n) == merkle_root_history_count - n  \* mutant

\* n entries are gone, the aggregate is there.
count_after_trim(n) == merkle_root_history_count - n + 1

Aggregate(p) ==
    /\ pc[p] = "aggregate"
    /\ \/ /\ merkle_root_history' =
                 list_splice(<<AggregateEntry(entries_to_delete[p])>>, merkle_root_history)
          /\ merkle_root_history_count' = count_after_trim(Len(entries_to_delete[p]))
       \/ /\ may_fail("alloc") \/ may_fail("hash")
          /\ merkle_root_history' = list_splice(entries_to_delete[p], merkle_root_history)
          /\ UNCHANGED merkle_root_history_count
    /\ entries_to_delete' = [entries_to_delete EXCEPT ![p] = <<>>]
    /\ Leave(p, "OK")
    /\ UNCHANGED <<tpmVars, modeVars, listVars, root_hash, req>>

\* bpfima_tpm_get_pcr_value after its check: the chip is looked up again.
ReadPcr(p) ==
    /\ pc[p] = "read"
    /\ \E e \in IF ~bpfima_tpm_available
                THEN IF hardware_anchored THEN {"ENODEV"} ELSE {"OK"}
                ELSE IF ~hardware_allowed THEN {"EIO"}
                ELSE {"OK"} \union (IF may_fail("tpm") THEN {"EIO"} ELSE {}) :
         Leave(p, e)
    /\ bpfima_commit_error' =
           IF ~bpfima_tpm_available
           THEN IF hardware_anchored THEN commit_fail("ENODEV") ELSE bpfima_commit_error
           ELSE IF hardware_allowed THEN bpfima_commit_error ELSE commit_fail("EIO")
    /\ UNCHANGED <<tpmVars, hardware_anchored, software_committed, listVars,
                   root_hash, histVars, req, entries_to_delete>>

Return(p) ==
    /\ pc[p] = "done"
    /\ Goto(p, "idle")
    /\ req' = [req EXCEPT ![p] = NoRequest]
    /\ ret' = [ret EXCEPT ![p] = "OK"]
    /\ UNCHANGED <<tpmVars, modeVars, listVars, root_hash, histVars, commit_mutex,
                   value, new_root, entries_to_delete>>

Step(p) ==
    \/ CheckError(p) \/ LockCommit(p) \/ PrepareEvent(p) \/ ExtendTpm(p) \/ Publish(p)
    \/ TrimHistory(p) \/ Aggregate(p) \/ ReadPcr(p) \/ Return(p)

Next ==
    \/ ChipChange
    \/ CommitGetError
    \/ \E p \in Proc : Step(p) \/ \E r \in Request : Begin(p, r)

Spec == Init /\ [][Next]_vars

-----------------------------------------------------------------------------
Value == Seq(Digest) \union PolicyDigest
Chain == Seq(Value)

\* Every variable holds a value of its kind (the history, whose entries nest
\* without bound, and its counter are described by the history invariants).
TypeOK ==
    /\ chip \in ChipState
    /\ pcr_index_valid \in BOOLEAN
    /\ pcr \in Seq(Chain)
    /\ commit_mutex \in Proc \union {NoProc}
    /\ bpfima_commit_error \in Errno \union {"OK"}
    /\ hardware_anchored \in BOOLEAN
    /\ software_committed \in BOOLEAN
    /\ measurement_list \in [Container -> Seq(Digest)]
    /\ measurement_count \in [Container -> Nat]
    /\ leaf_hash \in [Container -> Seq(Digest)]
    /\ sha256_hash_table \subseteq Digest \X Container
    /\ root_hash \in Chain
    /\ pc \in [Proc -> PC]
    /\ req \in [Proc -> Request]
    /\ value \in [Proc -> Value]
    /\ new_root \in [Proc -> Chain]
    /\ ret \in [Proc -> Errno \union {"OK"}]

\* The roots a chain has gone through: what a verifier extends into its own
\* register while it replays the chain.
Roots(chain) == [i \in 1..Len(chain) |-> SubSeq(chain, 1, i)]

Recorded(s, v) == \E i \in 1..Len(s) : s[i] = v
NoRepeats(s) == \A i, j \in 1..Len(s) : s[i] = s[j] => i = j
OneMore(old, new) == new # Zero /\ new = Append(old, new[Len(new)])

\* The PCR an auditor computes from the published root chain.
ReplayedPcr == IF hardware_anchored THEN Roots(root_hash) ELSE Zero

\* The hardware holds exactly the replay of what software has published; the
\* only exceptions are the one commit that is between its TPM command and its
\* publication, and one ambiguous command after which the error is latched
\* (commit_event_locked: hardware first, publication cannot fail).
PcrTracksRoot ==
    \/ pcr = ReplayedPcr
    \/ \E p \in Proc : /\ pc[p] = "publish"
                       /\ hardware_anchored
                       /\ pcr = Append(Roots(root_hash), new_root[p])
    \/ /\ bpfima_commit_error # "OK"
       /\ OneMore(ReplayedPcr, pcr)
       /\ OneMore(root_hash, pcr[Len(pcr)])

\* A PCR read through bpfima_tpm_get_pcr_value never observes a commit in
\* flight or an ambiguous extension: it holds the same mutex and refuses
\* after a latched error.
PcrReadIsSettled == \A p \in Proc : pc[p] = "read" => pcr = ReplayedPcr

\* The transaction from preparation to trimming is exclusive: the task inside
\* it holds bpfima_commit_mutex, so its stale copies of root and leaf cannot
\* be overtaken.
MutexHeld == \A p \in Proc : pc[p] \in Locked <=> commit_mutex = p

\* Each container's leaf hash is the replay of its measurement list and its
\* counter the list's length, whatever failed on the way.
LeafReplaysList ==
    \A c \in Container : /\ leaf_hash[c] = measurement_list[c]
                         /\ measurement_count[c] = Len(measurement_list[c])

\* The duplicate table holds exactly the committed (digest, namespace) pairs,
\* and a container lists a digest once: concurrent submissions of one digest
\* commit exactly once, and a failed one does not poison it.
DedupExact ==
    /\ \A c \in Container, d \in Digest :
           hash_exists(d, c) <=> Recorded(measurement_list[c], d)
    /\ \A c \in Container : NoRepeats(measurement_list[c])

\* The root chain records every leaf value a container went through exactly
\* once (two containers with equal lists produce equal leaf values, hence the
\* count), and nothing else but policy digests.
RootRecordsEachLeafOnce ==
    LET leafPrefixes == UNION {{SubSeq(leaf_hash[c], 1, n) : n \in 1..Len(leaf_hash[c])} :
                                   c \in Container}
        goneThrough(v) == {c \in Container : /\ Len(v) <= Len(leaf_hash[c])
                                             /\ SubSeq(leaf_hash[c], 1, Len(v)) = v}
        recorded == {i \in 1..Len(root_hash) : root_hash[i] \notin PolicyDigest}
    IN  /\ {root_hash[i] : i \in recorded} = leafPrefixes
        /\ \A v \in leafPrefixes :
               Cardinality({i \in recorded : root_hash[i] = v}) = Cardinality(goneThrough(v))

\* A hook whose measurement call succeeded (also as a duplicate) lets the
\* operation go on: by then the digest is in the container's list, its leaf
\* value is in the root chain, and in a hardware epoch the PCR has it.
SuccessMeansMeasured ==
    \A p \in Proc : pc[p] = "done" /\ req[p].kind = "measure" /\ ret[p] = "OK" =>
        \E i \in 1..Len(root_hash), n \in 1..Len(leaf_hash[req[p].source]) :
            /\ leaf_hash[req[p].source][n] = req[p].digest
            /\ root_hash[i] = SubSeq(leaf_hash[req[p].source], 1, n)
            /\ hardware_anchored => i <= Len(pcr) /\ pcr[i] = SubSeq(root_hash, 1, i)

\* Once an error is latched it stays, and from then on nothing is committed,
\* extended or published, by any task, until the module is reloaded.
LatchIsFinal ==
    [][bpfima_commit_error # "OK" =>
          UNCHANGED <<modeVars, pcr, listVars, root_hash>>]_vars

\* An epoch that has committed without a TPM never extends the PCR and never
\* becomes a hardware epoch; a hardware epoch stays one.
EpochKeepsMode ==
    [][/\ software_committed /\ ~hardware_anchored => UNCHANGED <<pcr, hardware_anchored>>
       /\ hardware_anchored => hardware_anchored']_vars

(***************************************************************************)
(* The inductive invariant. A task between preparation and publication     *)
(* works on copies that are still current, and no error is latched; the    *)
(* PCR is behind no published event and ahead of at most one.              *)
(***************************************************************************)
WorkInv ==
    \A p \in Proc :
        /\ pc[p] \in {"check", "prepare", "extend", "publish"} => req[p].kind # "read_pcr"
        /\ pc[p] = "read" => req[p].kind = "read_pcr"
        /\ pc[p] \in {"extend", "publish", "read"} => bpfima_commit_error = "OK"
        /\ pc[p] \in {"extend", "publish"} =>
               /\ value[p] = EventValue(p)
               /\ new_root[p] = bpfima_extend_hash(root_hash, value[p])
               /\ req[p].kind = "measure" => ~hash_exists(req[p].digest, req[p].source)

InFlight(p) == pc[p] = "publish" /\ hardware_anchored

PcrInv ==
    /\ ~software_committed => root_hash = Zero
    /\ \A p \in Proc : InFlight(p) => pcr = Append(ReplayedPcr, new_root[p])
    /\ (\A p \in Proc : ~InFlight(p)) =>
           \/ pcr = ReplayedPcr
           \/ /\ bpfima_commit_error # "OK"
              /\ OneMore(ReplayedPcr, pcr)
              /\ OneMore(root_hash, pcr[Len(pcr)])

LeafInRoot ==
    \A c \in Container : \A n \in 1..Len(leaf_hash[c]) :
        Recorded(root_hash, Roots(leaf_hash[c])[n])

ResultInv ==
    \A p \in Proc : req[p].kind = "measure" /\ (\/ pc[p] \in {"trim", "aggregate"}
                                                \/ pc[p] = "done" /\ ret[p] = "OK")
                    => hash_exists(req[p].digest, req[p].source)

\* Inductive; with it every other safety property of the transaction follows.
TransactionInv ==
    /\ TypeOK /\ MutexHeld /\ WorkInv /\ PcrInv
    /\ LeafReplaysList /\ DedupExact /\ LeafInRoot /\ ResultInv

=============================================================================
