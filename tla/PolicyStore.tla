----------------------------- MODULE PolicyStore -----------------------------
(***************************************************************************)
(* The policy map and its updates: binding a map, full requests and field  *)
(* edits under bpfima_policy_namespace_mutex, staging in the inactive      *)
(* buffer, the commit of the policy event, the audit lists and the release *)
(* of the generation (policy_manager.c, policy_namespace.c).               *)
(*                                                                         *)
(* Every wait for a lock, every step another task or user space can see    *)
(* and every call that can fail is a step of its own.  The commit of a     *)
(* policy event is taken from Commit by its outcomes.  Digests are taken   *)
(* to be collision free: an event's digest is the event.                   *)
(***************************************************************************)
EXTENDS PolicyRules, FiniteSets, TLC

CONSTANTS
  Tasks, NoTask,            \* tasks that bind maps or write policies
  Maps, NoMap,              \* BPF maps of the right shape
  Namespaces, Root,         \* namespace identifiers; the root's empty identifier
  BPFIMA_POLICY_NAMESPACES, \* how many records beside the root's fit in a state
  GenMax,                   \* the greatest generation, U64_MAX in the code
  Requests, Edits,          \* what callers submit
  Reloading,                \* whether the module is unloaded and loaded again
  ReaderMaps,               \* maps that are read from outside the module
  UserMaps,                 \* maps that other processes freeze and write
  NoMetadata,               \* no entry in policy_namespace_list
  Junk                      \* content of a buffer that is being written, or foreign content

VARIABLES
  policy_map,        \* the bound map
  generation,        \* map -> control->generation, the value at key 0
  buffer,            \* map -> key 1 or 2 -> policy state
  frozen, writer,    \* map -> progress of bpf_map_freeze; of a writing syscall
  policy_mutex,      \* bpfima_policy_namespace_mutex
  snapshot_lock,     \* policy_snapshot_lock
  commit_mutex,      \* bpfima_commit_mutex
  commit_error,      \* an error is latched
  events,            \* the policy events committed in this epoch
  global_history,    \* global_policy_change_history
  metadata,          \* namespace -> [history, changes_hash], or NoMetadata
  pc, call,          \* task -> where it is, what it was asked to do
  work,              \* task -> candidate, event and next_hash it prepared
  ret,               \* task -> return value
  reader             \* a reader of the map outside the module

mapVars == <<policy_map, generation, buffer, frozen, writer>>
commitVars == <<commit_error, events>>
auditVars == <<global_history, metadata>>
lockVars == <<policy_mutex, snapshot_lock, commit_mutex>>
taskVars == <<pc, call, work, ret>>
vars == <<mapVars, commitVars, auditVars, lockVars, taskVars, reader>>

Ids == Namespaces \cup {Root}

\* A policy state: its generation and its records.  A zeroed buffer has no record.
Zero == [generation |-> 0, records |-> <<>>]
NoCall == [op |-> "none"]
NoWork == [candidate |-> Zero, event |-> <<>>, next_hash |-> <<>>]

ActiveKey(g) == 1 + (g % 2)

\* active_state
active_state(m) == buffer[m][ActiveKey(generation[m])]

bpfima_policy_generation == IF policy_map = NoMap THEN 0 ELSE generation[policy_map]

namespace_count(state) == Cardinality(DOMAIN state.records \ {Root})

Init ==
  /\ policy_map = NoMap
  /\ generation = [m \in Maps |-> 0]
  /\ buffer = [m \in Maps |-> [k \in 1..2 |-> Zero]]
  /\ frozen = [m \in Maps |-> IF m \in UserMaps THEN "no" ELSE "yes"]
  /\ writer = [m \in Maps |-> "none"]
  /\ policy_mutex = NoTask /\ snapshot_lock = NoTask /\ commit_mutex = NoTask
  /\ commit_error = FALSE /\ events = <<>>
  /\ global_history = <<>> /\ metadata = [n \in Namespaces |-> NoMetadata]
  /\ pc = [t \in Tasks |-> "idle"]
  /\ call = [t \in Tasks |-> NoCall]
  /\ work = [t \in Tasks |-> NoWork]
  /\ ret = [t \in Tasks |-> "OK"]
  /\ reader = [stage |-> "idle"]

(***************************************************************************)
(* User space and the BPF syscalls (external): bpf_map_freeze looks for    *)
(* writers and then sets the flag; a map update counts itself in writecnt  *)
(* and then looks at the flag.  An update may slip in between.             *)
(***************************************************************************)
FreezeChecks(m) ==
  /\ frozen[m] = "no" /\ writer[m] = "none"
  /\ frozen' = [frozen EXCEPT ![m] = "checked"]
  /\ UNCHANGED <<policy_map, generation, buffer, writer, commitVars, auditVars, lockVars, taskVars, reader>>

FreezeSets(m) ==
  /\ frozen[m] = "checked"
  /\ frozen' = [frozen EXCEPT ![m] = "yes"]
  /\ UNCHANGED <<policy_map, generation, buffer, writer, commitVars, auditVars, lockVars, taskVars, reader>>

WriterCounts(m) ==
  /\ writer[m] = "none"
  /\ writer' = [writer EXCEPT ![m] = "counted"]
  /\ UNCHANGED <<policy_map, generation, buffer, frozen, commitVars, auditVars, lockVars, taskVars, reader>>

WriterChecks(m) ==
  /\ writer[m] = "counted"
  /\ writer' = [writer EXCEPT ![m] = IF frozen[m] = "yes" THEN "none" ELSE "writing"]
  /\ UNCHANGED <<policy_map, generation, buffer, frozen, commitVars, auditVars, lockVars, taskVars, reader>>

WriterWrites(m) ==
  /\ writer[m] = "writing"
  /\ writer' = [writer EXCEPT ![m] = "none"]
  /\ buffer' = [buffer EXCEPT ![m] = [k \in 1..2 |-> Junk]]
  /\ UNCHANGED <<policy_map, generation, frozen, commitVars, auditVars, lockVars, taskVars, reader>>

(***************************************************************************)
(* Calls.                                                                  *)
(***************************************************************************)
\* A full request carries no expected generation or the one its caller has just read.
Calls ==
  [op : {"bind"}, map : Maps]
    \cup [op : {"apply"}, id : Ids, request : Requests, expected : {0, bpfima_policy_generation}]
    \cup [op : {"edit"}, id : Ids, edit : Edits]
    \cup [op : {"trim"}]

Goto(t, label) == pc' = [pc EXCEPT ![t] = label]
Fail(t, label, error) == Goto(t, label) /\ ret' = [ret EXCEPT ![t] = error]

\* A write to policy_map, policy_apply or a policy file, a kfunc that updates a field,
\* or a measurement: of its transaction only the look at the root policy matters here.
Begin(t) ==
  /\ pc[t] = "idle"
  /\ \E c \in Calls :
       /\ call' = [call EXCEPT ![t] = c]
       /\ Goto(t, CASE c.op = "bind" -> "frozen" [] c.op = "trim" -> "commit_lock" [] OTHER -> "lock")
  /\ ret' = [ret EXCEPT ![t] = "OK"]
  /\ UNCHANGED <<mapVars, commitVars, auditVars, lockVars, work, reader>>

\* bpfima_policy_bind_map: the map must be frozen ...
BindChecksFrozen(t) ==
  /\ pc[t] = "frozen"
  /\ \/ frozen[call[t].map] # "yes" /\ Fail(t, "return", "EPERM")
     \/ frozen[call[t].map] = "yes" /\ Goto(t, "writers") /\ UNCHANGED ret
  /\ UNCHANGED <<mapVars, commitVars, auditVars, lockVars, call, work, reader>>

(* Binding that takes the flag for the end of all writes. *)
BindChecksWriters_Trusting(t) ==
  /\ pc[t] = "writers"
  /\ Goto(t, "lock") /\ UNCHANGED ret
  /\ UNCHANGED <<mapVars, commitVars, auditVars, lockVars, call, work, reader>>

\* ... and no syscall that was authorised before may still be writing; then the allocation.
BindChecksWriters(t) ==
  /\ pc[t] = "writers"
  /\ \/ writer[call[t].map] # "none" /\ Fail(t, "return", "EBUSY")
     \/ writer[call[t].map] = "none" /\ Fail(t, "return", "ENOMEM")
     \/ writer[call[t].map] = "none" /\ Goto(t, "lock") /\ UNCHANGED ret
  /\ UNCHANGED <<mapVars, commitVars, auditVars, lockVars, call, work, reader>>

LockPolicy(t) ==
  /\ pc[t] = "lock" /\ policy_mutex = NoTask
  /\ policy_mutex' = t
  /\ Goto(t, "prepare")
  /\ UNCHANGED <<mapVars, commitVars, auditVars, snapshot_lock, commit_mutex, call, work, ret, reader>>

(***************************************************************************)
(* Preparation, all of it under the policy mutex.                          *)
(***************************************************************************)
\* publish_policy_locked up to the staging: allocations and hashes may fail.
PrepareEvent(t, m, state, id, snapshot) ==
  LET g == generation[m] + 1
      event == [generation |-> g, id |-> id, snapshot |-> snapshot]
      exit == IF call[t].op = "bind" THEN "bound" ELSE "unlock"
  IN  \/ /\ generation[m] = GenMax
         /\ Fail(t, exit, "EOVERFLOW") /\ UNCHANGED work
      \/ /\ generation[m] < GenMax
         /\ Fail(t, exit, "ENOMEM") /\ UNCHANGED work
      \/ /\ generation[m] < GenMax
         /\ work' = [work EXCEPT ![t] =
                       [candidate |-> [generation |-> g, records |-> (id :> snapshot) @@ state.records],
                        event |-> event,
                        next_hash |-> IF id = Root THEN <<>>
                                      ELSE Append(metadata'[id].changes_hash, event)]]
         /\ Goto(t, "stage") /\ UNCHANGED ret

(* Binding that does not look at what the map holds. *)
PrepareBind_AnyContent(t) ==
  LET m == call[t].map
      blank == TRUE
  IN  /\ pc[t] = "prepare" /\ call[t].op = "bind"
      /\ \/ /\ policy_map = m /\ commit_mutex = NoTask
            /\ Fail(t, "unlock", IF commit_error THEN "EIO" ELSE "OK") /\ UNCHANGED work
         \/ /\ policy_map \notin {m, NoMap}
            /\ Fail(t, "unlock", "EBUSY") /\ UNCHANGED work
         \/ /\ policy_map = NoMap /\ ~blank
            /\ Fail(t, "unlock", "ESTALE") /\ UNCHANGED work
         \/ /\ policy_map = NoMap /\ blank
            /\ PrepareEvent(t, m, Zero, Root, DefaultSnapshot)
      /\ UNCHANGED <<mapVars, commitVars, auditVars, lockVars, call, reader>>

\* bpfima_policy_bind_map under the mutex.
PrepareBind(t) ==
  LET m == call[t].map
      blank == generation[m] = 0 /\ \A k \in 1..2 : buffer[m][k] = Zero
  IN  /\ pc[t] = "prepare" /\ call[t].op = "bind"
      /\ \/ /\ policy_map = m /\ commit_mutex = NoTask
            /\ Fail(t, "unlock", IF commit_error THEN "EIO" ELSE "OK") /\ UNCHANGED work
         \/ /\ policy_map \notin {m, NoMap}
            /\ Fail(t, "unlock", "EBUSY") /\ UNCHANGED work
         \/ /\ policy_map = NoMap /\ ~blank
            /\ Fail(t, "unlock", "ESTALE") /\ UNCHANGED work
         \/ /\ policy_map = NoMap /\ blank
            /\ PrepareEvent(t, m, Zero, Root, DefaultSnapshot)
      /\ UNCHANGED <<mapVars, commitVars, auditVars, lockVars, call, reader>>

EmptyMetadata == [history |-> <<>>, changes_hash |-> <<>>]

\* bpfima_policy_namespace_get_locked
GetMetadata(id) ==
  metadata' = IF id \in Namespaces /\ metadata[id] = NoMetadata
              THEN [metadata EXCEPT ![id] = EmptyMetadata] ELSE metadata

\* The request of a call; a field edit builds its own from the active state.
RequestOf(c, state) ==
  IF c.op = "apply" THEN c.request
  ELSE SetField(IF c.id \in DOMAIN state.records \ {Root}
                THEN rebase_extension(state.records[Root], state.records[c.id])
                ELSE state.records[Root],
                c.edit.field, c.edit.value)

NoRoom(state, id) ==
  id \notin DOMAIN state.records /\ namespace_count(state) = BPFIMA_POLICY_NAMESPACES

(* A store that takes any expected generation that is not newer. *)
Stale_Newer(c, state) == c.op = "apply" /\ c.expected > state.generation

Stale(c, state) == c.op = "apply" /\ c.expected \notin {0, state.generation}

\* The checks of apply_locked against the active state, in order.
Refusal(c, state) ==
  LET request == RequestOf(c, state)
  IN  CASE Stale(c, state) -> "EAGAIN"
        [] ~Stale(c, state) /\ NoRoom(state, c.id) -> "ENOSPC"
        [] OTHER -> IF normalize_error(request) # "OK" THEN normalize_error(request)
                    ELSE IF c.id = Root \/ validate_extension(state.records[Root], normalize_snapshot(request))
                         THEN "OK" ELSE "EPERM"

(* A test for identity that looks at the root's record. *)
Identical_Root(state, id, snapshot) == state.records[Root] = snapshot

Identical(state, id, snapshot) == id \in DOMAIN state.records /\ state.records[id] = snapshot

\* bpfima_policy_update_field and apply_locked; an update that changes nothing succeeds here.
PrepareApply(t) ==
  LET c == call[t]
      state == active_state(policy_map)
      snapshot == normalize_snapshot(RequestOf(c, state))
      rejected == c.op = "edit" /\ EditRejected(c.edit)
  IN  /\ pc[t] = "prepare" /\ c.op \in {"apply", "edit"}
      /\ \/ /\ policy_map = NoMap
            /\ Fail(t, "unlock", "ENXIO") /\ UNCHANGED <<work, metadata>>
         \/ /\ policy_map # NoMap /\ rejected
            /\ Fail(t, "unlock", "EINVAL") /\ UNCHANGED <<work, metadata>>
         \/ /\ policy_map # NoMap /\ ~rejected /\ commit_mutex = NoTask /\ commit_error
            /\ Fail(t, "unlock", "EIO") /\ UNCHANGED <<work, metadata>>
         \/ /\ policy_map # NoMap /\ ~rejected /\ commit_mutex = NoTask /\ ~commit_error
            /\ \/ ~Stale(c, state) /\ Fail(t, "unlock", "ENOMEM")
               \/ Refusal(c, state) # "OK" /\ Fail(t, "unlock", Refusal(c, state))
            /\ UNCHANGED <<work, metadata>>
         \/ /\ policy_map # NoMap /\ ~rejected /\ commit_mutex = NoTask /\ ~commit_error
            /\ Refusal(c, state) = "OK"
            /\ GetMetadata(c.id)
            /\ \/ /\ Identical(state, c.id, snapshot)
                  /\ Goto(t, "unlock") /\ UNCHANGED <<ret, work>>
               \/ /\ ~Identical(state, c.id, snapshot)
                  /\ PrepareEvent(t, policy_map, state, c.id, snapshot)
      /\ UNCHANGED <<mapVars, commitVars, global_history, lockVars, call, reader>>

(***************************************************************************)
(* publish_policy_locked from the staging on.                              *)
(***************************************************************************)
Target(t) == IF call[t].op = "bind" THEN call[t].map ELSE policy_map

StagedKey(t) == ActiveKey(work[t].candidate.generation)

(* Releases the generation before the state is copied. *)
StageBegins_Released(t) ==
  /\ pc[t] = "stage" /\ snapshot_lock = NoTask
  /\ snapshot_lock' = t
  /\ buffer' = [buffer EXCEPT ![Target(t)][StagedKey(t)] = Junk]
  /\ generation' = [generation EXCEPT ![Target(t)] = work[t].candidate.generation]
  /\ Goto(t, "staging")
  /\ UNCHANGED <<policy_map, frozen, writer, commitVars, auditVars, policy_mutex, commit_mutex,
                 call, work, ret, reader>>

\* memcpy(staged, candidate) under the snapshot lock: started ...
StageBegins(t) ==
  /\ pc[t] = "stage" /\ snapshot_lock = NoTask
  /\ snapshot_lock' = t
  /\ buffer' = [buffer EXCEPT ![Target(t)][StagedKey(t)] = Junk]
  /\ Goto(t, "staging")
  /\ UNCHANGED <<policy_map, generation, frozen, writer, commitVars, auditVars, policy_mutex, commit_mutex,
                 call, work, ret, reader>>

\* ... and done.
StageEnds(t) ==
  /\ pc[t] = "staging"
  /\ snapshot_lock' = NoTask
  /\ buffer' = [buffer EXCEPT ![Target(t)][StagedKey(t)] = work[t].candidate]
  /\ Goto(t, "commit_lock")
  /\ UNCHANGED <<policy_map, generation, frozen, writer, commitVars, auditVars, policy_mutex, commit_mutex,
                 call, work, ret, reader>>

LockCommit(t) ==
  /\ pc[t] = "commit_lock" /\ commit_mutex = NoTask
  /\ commit_mutex' = t
  /\ Goto(t, IF call[t].op = "trim" THEN "trim" ELSE "commit")
  /\ UNCHANGED <<mapVars, commitVars, auditVars, policy_mutex, snapshot_lock, call, work, ret, reader>>

\* bpfima_commit_root_locked: the event is committed, or refused with or without a latch.
CommitRoot(t) ==
  /\ pc[t] = "commit"
  /\ \/ /\ ~commit_error
        /\ events' = Append(events, work[t].event)
        /\ Goto(t, "audit") /\ UNCHANGED <<commit_error, ret>>
     \/ /\ commit_error' \in {commit_error, TRUE}
        /\ Fail(t, "commit_unlock", "EIO") /\ UNCHANGED events
  /\ UNCHANGED <<mapVars, auditVars, lockVars, call, work, reader>>

(* The generation is released after the commit mutex. *)
PublishAudit_Unlocks(t) ==
  LET event == work[t].event
  IN  /\ pc[t] = "audit"
      /\ IF event.id = Root
         THEN /\ global_history' = Append(global_history, event)
              /\ UNCHANGED metadata
         ELSE /\ metadata' = [metadata EXCEPT
                                ![event.id] = [history |-> Append(@.history, event),
                                               changes_hash |-> work[t].next_hash]]
              /\ UNCHANGED global_history
      /\ commit_mutex' = NoTask
      /\ Goto(t, "publish")
      /\ UNCHANGED <<mapVars, commitVars, policy_mutex, snapshot_lock, call, work, ret, reader>>

(* The history grows and its hash is left behind. *)
PublishAudit_NoHash(t) ==
  LET event == work[t].event
  IN  /\ pc[t] = "audit"
      /\ IF event.id = Root
         THEN /\ global_history' = Append(global_history, event)
              /\ UNCHANGED metadata
         ELSE /\ metadata' = [metadata EXCEPT ![event.id].history = Append(@, event)]
              /\ UNCHANGED global_history
      /\ Goto(t, "publish")
      /\ UNCHANGED <<mapVars, commitVars, lockVars, call, work, ret, reader>>

\* The entry joins the namespace's or the global audit list.
PublishAudit(t) ==
  LET event == work[t].event
  IN  /\ pc[t] = "audit"
      /\ IF event.id = Root
         THEN /\ global_history' = Append(global_history, event)
              /\ UNCHANGED metadata
         ELSE /\ metadata' = [metadata EXCEPT
                                ![event.id] = [history |-> Append(@.history, event),
                                               changes_hash |-> work[t].next_hash]]
              /\ UNCHANGED global_history
      /\ Goto(t, "publish")
      /\ UNCHANGED <<mapVars, commitVars, lockVars, call, work, ret, reader>>

\* smp_store_release of the generation, under the snapshot lock.
PublishGeneration(t) ==
  /\ pc[t] = "publish" /\ snapshot_lock = NoTask
  /\ generation' = [generation EXCEPT ![Target(t)] = work[t].candidate.generation]
  /\ Goto(t, "commit_unlock")
  /\ UNCHANGED <<policy_map, buffer, frozen, writer, commitVars, auditVars, lockVars, call, work, ret, reader>>

UnlockCommit(t) ==
  /\ pc[t] = "commit_unlock"
  /\ commit_mutex' = NoTask
  /\ Goto(t, CASE call[t].op = "bind" -> "bound" [] call[t].op = "trim" -> "return" [] OTHER -> "unlock")
  /\ UNCHANGED <<mapVars, commitVars, auditVars, policy_mutex, snapshot_lock, call, work, ret, reader>>

\* The end of bpfima_policy_bind_map: keep the map, or wipe it for another attempt.
BindEnds(t) ==
  LET m == call[t].map
  IN  /\ pc[t] = "bound"
      /\ IF ret[t] = "OK"
         THEN policy_map' = m /\ UNCHANGED <<generation, buffer>>
         ELSE /\ generation' = [generation EXCEPT ![m] = 0]
              /\ buffer' = [buffer EXCEPT ![m] = [k \in 1..2 |-> Zero]]
              /\ UNCHANGED policy_map
      /\ Goto(t, "unlock")
      /\ UNCHANGED <<frozen, writer, commitVars, auditVars, lockVars, call, work, ret, reader>>

UnlockPolicy(t) ==
  /\ pc[t] = "unlock"
  /\ policy_mutex' = NoTask
  /\ Goto(t, "return")
  /\ UNCHANGED <<mapVars, commitVars, auditVars, snapshot_lock, commit_mutex, call, work, ret, reader>>

Return(t) ==
  /\ pc[t] = "return"
  /\ Goto(t, "idle")
  /\ call' = [call EXCEPT ![t] = NoCall]
  /\ work' = [work EXCEPT ![t] = NoWork]
  /\ ret' = [ret EXCEPT ![t] = "OK"]
  /\ UNCHANGED <<mapVars, commitVars, auditVars, lockVars, reader>>

(***************************************************************************)
(* Readers.                                                                *)
(***************************************************************************)
\* bpfima_policy_get_config: the default until a map is bound.
get_config == IF policy_map = NoMap THEN DefaultConfig ELSE active_state(policy_map).records[Root].config

\* bpfima_policy_get_config from bpfima_trim_history_locked, under the commit mutex.
ReadConfig(t) ==
  /\ pc[t] = "trim" /\ snapshot_lock = NoTask
  /\ work' = [work EXCEPT ![t].event = get_config]
  /\ Goto(t, "commit_unlock")
  /\ UNCHANGED <<mapVars, commitVars, auditVars, lockVars, call, ret, reader>>

\* A reader outside the module (external): generation, state in two halves, generation.
ReadGeneration(m) ==
  /\ reader.stage \in {"idle", "accepted"}
  /\ generation[m] # 0
  /\ reader' = [stage |-> "first", map |-> m, generation |-> generation[m]]
  /\ UNCHANGED <<mapVars, commitVars, auditVars, lockVars, taskVars>>

ReadFirst ==
  /\ reader.stage = "first"
  /\ reader' = [stage |-> "second", map |-> reader.map, generation |-> reader.generation,
                first |-> buffer[reader.map][ActiveKey(reader.generation)]]
  /\ UNCHANGED <<mapVars, commitVars, auditVars, lockVars, taskVars>>

ReadSecond ==
  /\ reader.stage = "second"
  /\ reader' = [stage |-> "check", map |-> reader.map, generation |-> reader.generation,
                first |-> reader.first,
                second |-> buffer[reader.map][ActiveKey(reader.generation)]]
  /\ UNCHANGED <<mapVars, commitVars, auditVars, lockVars, taskVars>>

ReadAgain ==
  /\ reader.stage = "check"
  /\ reader' = IF generation[reader.map] = reader.generation
               THEN [stage |-> "accepted", generation |-> reader.generation, first |-> reader.first, second |-> reader.second]
               ELSE [stage |-> "idle"]
  /\ UNCHANGED <<mapVars, commitVars, auditVars, lockVars, taskVars>>

(***************************************************************************)
(* The rest of the module.                                                 *)
(***************************************************************************)
\* Another transaction latches an error (bpfima_commit_fail_locked).
LatchElsewhere ==
  /\ commit_mutex = NoTask /\ ~commit_error
  /\ commit_error' = TRUE
  /\ UNCHANGED <<mapVars, events, auditVars, lockVars, taskVars, reader>>

\* bpfima_policy_namespace_get_or_create, when a container is created.
GetOrCreate(id) ==
  /\ policy_mutex = NoTask /\ metadata[id] = NoMetadata
  /\ GetMetadata(id)
  /\ UNCHANGED <<mapVars, commitVars, global_history, lockVars, taskVars, reader>>

\* The module is unloaded and loaded again: bpfima_policy_namespace_cleanup,
\* bpfima_policy_cleanup and a new epoch.  A pinned map keeps its content.
Reload ==
  /\ Reloading /\ \A t \in Tasks : pc[t] = "idle"
  /\ policy_map' = NoMap
  /\ commit_error' = FALSE /\ events' = <<>>
  /\ global_history' = <<>> /\ metadata' = [n \in Namespaces |-> NoMetadata]
  /\ UNCHANGED <<generation, buffer, frozen, writer, lockVars, taskVars, reader>>

TaskStep(t) ==
  \/ BindChecksFrozen(t) \/ BindChecksWriters(t)
  \/ LockPolicy(t) \/ PrepareBind(t) \/ PrepareApply(t)
  \/ StageBegins(t) \/ StageEnds(t)
  \/ LockCommit(t) \/ CommitRoot(t) \/ PublishAudit(t) \/ PublishGeneration(t) \/ UnlockCommit(t)
  \/ ReadConfig(t)
  \/ BindEnds(t) \/ UnlockPolicy(t) \/ Return(t)

Next ==
  \/ \E t \in Tasks : Begin(t) \/ TaskStep(t)
  \/ \E m \in UserMaps : FreezeChecks(m) \/ FreezeSets(m)
                        \/ WriterCounts(m) \/ WriterChecks(m) \/ WriterWrites(m)
  \/ \E m \in ReaderMaps : ReadGeneration(m)
  \/ ReadFirst \/ ReadSecond \/ ReadAgain
  \/ LatchElsewhere
  \/ \E id \in Namespaces : GetOrCreate(id)
  \/ Reload

Spec == Init /\ [][Next]_vars

(***************************************************************************)
(* Properties.                                                             *)
(***************************************************************************)
InFlight(labels) == \E t \in Tasks : pc[t] \in labels

\* The events without the one whose task is at one of the labels.
EventsBefore(labels) == IF InFlight(labels) THEN SubSeq(events, 1, Len(events) - 1) ELSE events

LastOf(evs, id) == CHOOSE i \in DOMAIN evs : evs[i].id = id /\ \A j \in DOMAIN evs : evs[j].id = id => j <= i

\* The state a sequence of events describes: for every identifier its last snapshot.
PolicyOf(evs) ==
  [generation |-> Len(evs),
   records |-> [id \in {evs[i].id : i \in DOMAIN evs} |-> evs[LastOf(evs, id)].snapshot]]

(* The active policy is what the committed events say, no more and no less, apart from the  *)
(* event whose generation is not released yet: nothing is applied without a committed       *)
(* event, no record is lost when another is updated, no buffer is read while it is written. *)
ActiveIsCommitted ==
  policy_map # NoMap =>
    /\ active_state(policy_map) = PolicyOf(EventsBefore({"audit", "publish"}))
    /\ generation[policy_map] = Len(EventsBefore({"audit", "publish"}))

(* A reader that found the same generation before and after its copy holds one committed    *)
(* state, not parts of two (the protocol for external map readers).                         *)
AcceptedCopyIsWhole ==
  reader.stage = "accepted" =>
    reader.first = reader.second /\ reader.first # Junk /\ reader.first.generation = reader.generation

(* A transaction that trims the history after a policy event was committed uses that        *)
(* policy, also between the commit of the first policy and the assignment of policy_map.    *)
TrimSeesCommitted ==
  \A t \in Tasks :
    pc[t] = "commit_unlock" /\ call[t].op = "trim" =>
      work[t].event = IF events = <<>> THEN DefaultConfig ELSE PolicyOf(events).records[Root].config

Of(evs, id) == SelectSeq(evs, LAMBDA e : e.id = id)

(* Each audit list holds exactly the committed events of its namespace in order, and        *)
(* changes_hash is the chain over the list, whenever the metadata was created.              *)
AuditExact ==
  LET audited == EventsBefore({"audit"})
  IN  /\ global_history = Of(audited, Root)
      /\ \A n \in Namespaces :
           IF metadata[n] = NoMetadata THEN Of(audited, n) = <<>>
           ELSE metadata[n].history = Of(audited, n) /\ metadata[n].changes_hash = Of(audited, n)

(* A call that reports success leaves the requested snapshot active, one that reports an    *)
(* error has committed nothing (apply_locked, bpfima_policy_bind_map).                      *)
ResultIsTrue ==
  \A t \in Tasks :
    pc[t] = "unlock" =>
      LET c == call[t]
          records == active_state(policy_map).records
      IN  IF ret[t] # "OK" THEN \A i \in DOMAIN events : events[i] # work[t].event
          ELSE /\ policy_map # NoMap
               /\ c.op = "bind" => policy_map = c.map
               /\ c.op # "bind" => c.id \in DOMAIN records
               /\ c.op = "apply" => records[c.id] = normalize_snapshot(c.request)
               /\ c.op = "edit" => records[c.id] = SetField(records[c.id], c.edit.field, c.edit.value)

(* A full request with an expected generation is committed as the very next event after     *)
(* that generation: what the caller had read is what it replaces.                           *)
NoLostUpdate ==
  \A t \in Tasks :
    pc[t] \in {"audit", "publish"} /\ call[t].op = "apply" /\ call[t].expected # 0 =>
      Len(events) = call[t].expected + 1

(* From the checks of bpfima_policy_bind_map on no writing syscall touches the map, however *)
(* freezing, writing and binding interleave.                                                *)
NoForeignWrite ==
  \A m \in Maps :
    (\/ m = policy_map
     \/ \E t \in Tasks : call[t].op = "bind" /\ call[t].map = m
                         /\ pc[t] \notin {"frozen", "writers", "return"})
      => writer[m] # "writing"

=============================================================================
