---------------------------- MODULE CommitProofs ----------------------------
(***************************************************************************)
(* Proofs about Commit for any number of tasks, containers and digests and *)
(* any bound.                                                              *)
(***************************************************************************)
EXTENDS CommitPublishProofs

USE SMTT(30), ZenonT(30)

(***************************************************************************)
(* Every action keeps the invariant.                                       *)
(***************************************************************************)

\* Binding or unbinding the chip changes nothing the module holds.
LEMMA ChipChangeInv ==
    ASSUME TransactionInv, ChipChange
    PROVE  TransactionInv'
<1> USE DEF TransactionInv
<1>1. TypeOK'
    BY Zenon DEF ChipChange, TypeOK, modeVars, listVars, taskVars, histVars
<1>2. UNCHANGED <<pcr_index_valid, pcr, modeVars, listVars, root_hash, histVars, taskVars>>
    BY DEF ChipChange
<1>3. LeafReplaysList' /\ DedupExact' /\ LeafInRoot'
    BY <1>2, ListsKept
<1>4. PcrInv'
    BY <1>2, PcrKept DEF modeVars, taskVars
<1>5. MutexHeld'
    BY <1>2 DEF MutexHeld, taskVars
<1>6. WorkInv' /\ ResultInv'
    BY <1>2 DEF WorkInv, ResultInv, EventValue, hash_exists, modeVars, listVars, taskVars
<1>7. QED
    BY <1>1, <1>3, <1>4, <1>5, <1>6

\* Reading the status may latch an error, with nobody in the transaction.
LEMMA CommitGetErrorInv ==
    ASSUME TransactionInv, CommitGetError
    PROVE  TransactionInv'
<1> USE DEF TransactionInv
<1>1. /\ UNCHANGED <<tpmVars, hardware_anchored, software_committed, listVars, root_hash,
                     histVars, taskVars>>
      /\ bpfima_commit_error' = commit_check
    BY DEF CommitGetError
<1>2. TypeOK'
    <2>1. TaskTypes'
        BY <1>1, Zenon DEF TypeOK, TaskTypes, taskVars
    <2>2. QED
        BY <1>1, <2>1, CheckResult, TypeKept, Zenon DEF TypeOK, tpmVars, histVars
<1>3. LeafReplaysList' /\ DedupExact' /\ LeafInRoot'
    BY <1>1, ListsKept
<1>4. PcrInv'
    BY <1>1, CheckResult, PcrKept DEF tpmVars, taskVars
<1>5. MutexHeld'
    BY <1>1 DEF MutexHeld, taskVars
<1>6. \A q \in Proc : pc[q] \notin Locked
    BY ConstAssumption DEF CommitGetError, MutexHeld, mutex_lock
<1>7. WorkInv' /\ ResultInv'
    BY <1>1, <1>6 DEF WorkInv, ResultInv, hash_exists, listVars, taskVars, Locked
<1>8. QED
    BY <1>2, <1>3, <1>4, <1>5, <1>7

\* A call begins outside the transaction.
LEMMA BeginInv ==
    ASSUME TransactionInv, NEW p \in Proc, NEW r \in Request, Begin(p, r)
    PROVE  TransactionInv'
<1> USE DEF TransactionInv
<1>1. /\ UNCHANGED <<tpmVars, modeVars, listVars, root_hash, histVars, commit_mutex,
                     value, new_root, entries_to_delete, ret>>
      /\ pc[p] = "idle"
      /\ req' = [req EXCEPT ![p] = r]
      /\ pc' = [pc EXCEPT ![p] = IF r.kind = "read_pcr" THEN "lock" ELSE "check"]
    BY DEF Begin, Goto
<1>2. TypeOK'
    <2>1. TaskTypes'
        BY <1>1 DEF TypeOK, TaskTypes, PC
    <2>2. QED
        BY <1>1, <2>1, TypeKept, Zenon DEF TypeOK, tpmVars, modeVars, histVars
<1>3. LeafReplaysList' /\ DedupExact' /\ LeafInRoot'
    BY <1>1, ListsKept
<1>4. PcrInv'
    BY <1>1, PcrKept DEF tpmVars, modeVars, TypeOK
<1>5. MutexHeld'
    BY <1>1 DEF MutexHeld, TypeOK, Locked
<1>6. WorkInv' /\ ResultInv'
    BY <1>1 DEF WorkInv, ResultInv, EventValue, hash_exists, modeVars, listVars, TypeOK
<1>7. QED
    BY <1>2, <1>3, <1>4, <1>5, <1>6

\* The early look at the error, with nobody in the transaction.
LEMMA CheckErrorInv ==
    ASSUME TransactionInv, NEW p \in Proc, CheckError(p)
    PROVE  TransactionInv'
<1> USE DEF TransactionInv
<1>1. /\ UNCHANGED <<tpmVars, hardware_anchored, software_committed, listVars, root_hash,
                     histVars, commit_mutex, req, value, new_root, entries_to_delete>>
      /\ pc[p] = "check"
      /\ commit_mutex = NoProc
      /\ bpfima_commit_error' = commit_check
    BY DEF CheckError, mutex_lock
<1>2. PICK e \in Errno \union {"OK"} :
          /\ pc' = [pc EXCEPT ![p] = IF e = "OK" THEN "lock" ELSE "done"]
          /\ ret' = [ret EXCEPT ![p] = e]
    BY CheckResult, Zenon DEF CheckError, Goto, Errno
<1>3. TypeOK'
    <2>1. TaskTypes'
        BY <1>1, <1>2 DEF TypeOK, TaskTypes, PC
    <2>2. QED
        BY <1>1, <2>1, CheckResult, TypeKept, Zenon DEF TypeOK, tpmVars, histVars
<1>4. LeafReplaysList' /\ DedupExact' /\ LeafInRoot'
    BY <1>1, ListsKept
<1>5. PcrInv'
    BY <1>1, <1>2, CheckResult, PcrKept, PcType DEF tpmVars
<1>6. MutexHeld'
    BY <1>1, <1>2 DEF MutexHeld, TypeOK, Locked
<1>7. \A q \in Proc \ {p} : pc[q] \notin Locked
    BY <1>1, AloneInside
<1>8. /\ \A q \in Proc \ {p} : pc'[q] = pc[q] /\ req'[q] = req[q] /\ ret'[q] = ret[q]
      /\ pc'[p] \in {"lock", "done"}
      /\ pc'[p] = "done" => ret'[p] # "OK"
    BY <1>1, <1>2 DEF TypeOK
<1>9. WorkInv' /\ ResultInv'
    BY <1>1, <1>7, <1>8, OthersKept DEF WorkInv, ResultInv
<1>10. QED
    BY <1>3, <1>4, <1>5, <1>6, <1>9

\* Taking the mutex: the look at the error and at the duplicate table.
LEMMA LockCommitInv ==
    ASSUME TransactionInv, NEW p \in Proc, LockCommit(p)
    PROVE  TransactionInv'
<1> USE DEF TransactionInv
<1>1. /\ UNCHANGED <<tpmVars, hardware_anchored, software_committed, listVars, root_hash,
                     histVars, req, entries_to_delete>>
      /\ pc[p] = "lock"
      /\ commit_mutex = NoProc
      /\ bpfima_commit_error' = IF req[p].kind = "policy" THEN bpfima_commit_error
                                ELSE commit_check
    BY DEF LockCommit, mutex_lock
<1>2. /\ bpfima_commit_error' \in Errno \union {"OK"}
      /\ bpfima_commit_error # "OK" => bpfima_commit_error' # "OK"
    BY <1>1, CheckResult DEF TypeOK
<1>3. PICK e \in LockOutcome(p) :
          IF e = "OK"
          THEN /\ commit_mutex' = p
               /\ pc' = [pc EXCEPT ![p] = IF req[p].kind = "read_pcr" THEN "read" ELSE "prepare"]
               /\ UNCHANGED <<value, new_root, ret>>
          ELSE Leave(p, e)
    BY DEF LockCommit, Goto
<1>4. /\ e \in Errno \union {"OK", "DUP"}
      /\ e = "DUP" => hash_exists(req[p].digest, req[p].source)
      /\ e = "OK" /\ req[p].kind # "policy" => commit_check = "OK"
    BY CheckResult DEF LockOutcome, Errno
<1>5. CASE e # "OK"
    <2>1. Leave(p, e)
        BY <1>3, <1>5
    <2>2. PcrInv' /\ pcr' \in Seq(Chain)
        BY <1>1, <1>2, <2>1, LeavingPcr DEF tpmVars
    <2>4. kfunc_result(e) = "OK" => hash_exists(req[p].digest, req[p].source)
        BY <1>4, <1>5 DEF kfunc_result
    <2>5. QED
        BY <1>1, <1>2, <1>4, <2>1, <2>2, <2>4, LeavingInv DEF tpmVars
<1>6. CASE e = "OK"
    <2>1. /\ commit_mutex' = p
          /\ pc' = [pc EXCEPT ![p] = IF req[p].kind = "read_pcr" THEN "read" ELSE "prepare"]
          /\ UNCHANGED <<value, new_root, ret>>
        BY <1>3, <1>6
    <2>2. TypeOK'
        <3>1. TaskTypes'
            BY <1>1, <2>1 DEF TypeOK, TaskTypes, PC, Locked
        <3>2. QED
            BY <1>1, <1>2, <3>1, TypeKept, Zenon DEF TypeOK, tpmVars, histVars
    <2>3. LeafReplaysList' /\ DedupExact' /\ LeafInRoot'
        BY <1>1, ListsKept
    <2>4. PcrInv'
        BY <1>1, <1>2, <2>1, PcrKept, PcType DEF tpmVars
    <2>5. \A q \in Proc \ {p} : pc[q] \notin Locked
        BY <1>1, AloneInside
    <2>6. MutexHeld'
        BY <1>1, <2>1, <2>5 DEF MutexHeld, TypeOK, Locked
    <2>7. /\ \A q \in Proc \ {p} : pc'[q] = pc[q] /\ req'[q] = req[q] /\ ret'[q] = ret[q]
          /\ pc'[p] = IF req[p].kind = "read_pcr" THEN "read" ELSE "prepare"
        BY <1>1, <2>1 DEF TypeOK
    <2>8. WorkInv'
        BY <1>1, <1>4, <1>6, <2>5, <2>7, OthersKept DEF WorkInv
    <2>9. ResultInv'
        BY <1>1, <2>5, <2>7, OthersKept DEF ResultInv
    <2>10. QED
        BY <2>2, <2>3, <2>4, <2>6, <2>8, <2>9
<1>7. QED
    BY <1>5, <1>6

\* Preparing works on the current root and leaf and ends before the TPM.
LEMMA PrepareEventInv ==
    ASSUME TransactionInv, NEW p \in Proc, PrepareEvent(p)
    PROVE  TransactionInv'
<1> USE DEF TransactionInv
<1>1. /\ UNCHANGED <<tpmVars, hardware_anchored, software_committed, listVars, root_hash,
                     histVars, req, entries_to_delete>>
      /\ pc[p] = "prepare"
      /\ bpfima_commit_error' = commit_check
    BY DEF PrepareEvent
<1>2. /\ bpfima_commit_error' \in Errno \union {"OK"}
      /\ bpfima_commit_error # "OK" => bpfima_commit_error' # "OK"
      /\ commit_mutex = p
    BY <1>1, CheckResult DEF TypeOK, MutexHeld, Locked
<1>3. PICK e \in PrepareOutcome(p) :
          IF e = "OK"
          THEN /\ value' = [value EXCEPT ![p] = EventValue(p)]
               /\ new_root' = [new_root EXCEPT ![p] = Append(root_hash, EventValue(p))]
               /\ pc' = [pc EXCEPT ![p] = "extend"]
               /\ UNCHANGED <<commit_mutex, ret>>
          ELSE Leave(p, e)
    BY DEF PrepareEvent, Goto, bpfima_extend_hash
<1>4. /\ e \in Errno \union {"OK", "DUP"}
      /\ e = "DUP" => hash_exists(req[p].digest, req[p].source)
      /\ e = "OK" => /\ commit_check = "OK"
                     /\ req[p].kind = "measure" => ~hash_exists(req[p].digest, req[p].source)
    BY CheckResult DEF PrepareOutcome, Errno
<1>5. CASE e # "OK"
    <2>1. Leave(p, e)
        BY <1>3, <1>5
    <2>2. PcrInv' /\ pcr' \in Seq(Chain)
        BY <1>1, <1>2, <2>1, LeavingPcr DEF tpmVars
    <2>4. kfunc_result(e) = "OK" => hash_exists(req[p].digest, req[p].source)
        BY <1>4, <1>5 DEF kfunc_result
    <2>5. QED
        BY <1>1, <1>2, <1>4, <2>1, <2>2, <2>4, LeavingInv DEF tpmVars
<1>6. CASE e = "OK"
    <2>1. /\ value' = [value EXCEPT ![p] = EventValue(p)]
          /\ new_root' = [new_root EXCEPT ![p] = Append(root_hash, EventValue(p))]
          /\ pc' = [pc EXCEPT ![p] = "extend"]
          /\ UNCHANGED <<commit_mutex, ret>>
        BY <1>3, <1>6
    <2>2. req[p].kind # "read_pcr"
        BY <1>1 DEF WorkInv
    <2>3. TypeOK'
        <3>1. TaskTypes'
            BY <1>1, <2>1, <2>2, EventTypes DEF TypeOK, TaskTypes, PC, Locked
        <3>2. QED
            BY <1>1, <1>2, <3>1, TypeKept, Zenon DEF TypeOK, tpmVars, histVars
    <2>4. LeafReplaysList' /\ DedupExact' /\ LeafInRoot'
        BY <1>1, ListsKept
    <2>5. PcrInv'
        BY <1>1, <1>2, <2>1, PcrKept, PcType DEF tpmVars
    <2>6. \A q \in Proc \ {p} : pc[q] \notin Locked
        BY <1>2, AloneInside
    <2>7. MutexHeld'
        BY <1>1, <2>1, PcType DEF MutexHeld, Locked
    <2>8. /\ \A q \in Proc \ {p} : pc'[q] = pc[q] /\ req'[q] = req[q] /\ ret'[q] = ret[q]
          /\ pc'[p] = "extend"
          /\ value'[p] = EventValue(p)
          /\ new_root'[p] = Append(root_hash, value'[p])
          /\ EventValue(p)' = EventValue(p)
        BY <1>1, <2>1 DEF TypeOK, EventValue, listVars
    <2>9. WorkInv'
        BY <1>1, <1>4, <1>6, <2>2, <2>6, <2>8, OthersKept, Zenon
           DEF WorkInv, bpfima_extend_hash, hash_exists, listVars
    <2>10. ResultInv'
        BY <1>1, <2>6, <2>8, OthersKept DEF ResultInv
    <2>11. QED
        BY <2>3, <2>4, <2>5, <2>7, <2>9, <2>10
<1>7. QED
    BY <1>5, <1>6

\* Trimming concerns the history only.
LEMMA TrimHistoryInv ==
    ASSUME TransactionInv, NEW p \in Proc, TrimHistory(p)
    PROVE  TransactionInv'
<1> USE DEF TransactionInv
<1>1. /\ UNCHANGED <<tpmVars, modeVars, listVars, root_hash, merkle_root_history_count, req>>
      /\ pc[p] = "trim"
    BY DEF TrimHistory
<1>2. commit_mutex = p
    BY <1>1 DEF MutexHeld, Locked
<1>3. req[p].kind = "measure" => hash_exists(req[p].digest, req[p].source)
    BY <1>1 DEF ResultInv
<1>4. CASE Leave(p, "OK")
    <2>1. PcrInv' /\ pcr' \in Seq(Chain)
        BY <1>1, <1>4, LeavingPcr DEF tpmVars, modeVars
    <2>2. QED
        BY <1>1, <1>2, <1>3, <1>4, <2>1, LeavingInv, GlobalTypes DEF tpmVars, modeVars
<1>5. CASE Goto(p, "aggregate") /\ UNCHANGED <<commit_mutex, value, new_root, ret>>
    <2>1. pc' = [pc EXCEPT ![p] = "aggregate"]
        BY <1>5 DEF Goto
    <2>2. TypeOK'
        <3>1. TaskTypes'
            BY <1>1, <1>5, <2>1 DEF TypeOK, TaskTypes, PC, Locked
        <3>2. QED
            BY <1>1, <3>1, TypeKept, Zenon DEF TypeOK, tpmVars, modeVars
    <2>3. LeafReplaysList' /\ DedupExact' /\ LeafInRoot'
        BY <1>1, ListsKept
    <2>4. PcrInv'
        BY <1>1, <1>5, <2>1, PcrKept, PcType DEF tpmVars, modeVars
    <2>5. MutexHeld'
        BY <1>1, <1>5, <2>1, PcType DEF MutexHeld, Locked
    <2>6. \A q \in Proc \ {p} : pc[q] \notin Locked
        BY <1>2, AloneInside
    <2>7. /\ \A q \in Proc \ {p} : pc'[q] = pc[q] /\ req'[q] = req[q] /\ ret'[q] = ret[q]
          /\ pc'[p] = "aggregate"
        BY <1>1, <1>5, <2>1, PcType
    <2>8. WorkInv'
        BY <1>1, <2>6, <2>7, OthersKept DEF WorkInv
    <2>9. ResultInv'
        BY <1>1, <1>3, <2>6, <2>7, OthersKept DEF ResultInv, hash_exists, listVars
    <2>10. QED
        BY <2>2, <2>3, <2>4, <2>5, <2>8, <2>9
<1>6. QED
    BY <1>4, <1>5 DEF TrimHistory

\* So does putting the aggregate, or the old entries, back.
LEMMA AggregateInv ==
    ASSUME TransactionInv, NEW p \in Proc, Aggregate(p)
    PROVE  TransactionInv'
<1> USE DEF TransactionInv
<1>1. /\ UNCHANGED <<tpmVars, modeVars, listVars, root_hash, req>>
      /\ pc[p] = "aggregate"
      /\ Leave(p, "OK")
    BY Zenon DEF Aggregate
<1>2. commit_mutex = p
    BY <1>1 DEF MutexHeld, Locked
<1>3. PcrInv' /\ pcr' \in Seq(Chain)
    BY <1>1, LeavingPcr DEF tpmVars, modeVars
<1>4. req[p].kind = "measure" => hash_exists(req[p].digest, req[p].source)
    BY <1>1 DEF ResultInv
<1>5. /\ UNCHANGED <<chip, pcr_index_valid, hardware_anchored, software_committed, listVars,
                     root_hash, req>>
      /\ bpfima_commit_error' \in Errno \union {"OK"}
    BY <1>1, GlobalTypes DEF tpmVars, modeVars
<1>6. QED
    BY <1>1, <1>2, <1>3, <1>4, <1>5, LeavingInv, Zenon

\* Reading the PCR may latch an error and leaves everything else alone.
LEMMA ReadPcrInv ==
    ASSUME TransactionInv, NEW p \in Proc, ReadPcr(p)
    PROVE  TransactionInv'
<1> USE DEF TransactionInv
<1>1. /\ UNCHANGED <<tpmVars, hardware_anchored, software_committed, listVars,
                     root_hash, histVars, req, entries_to_delete>>
      /\ pc[p] = "read"
    BY DEF ReadPcr
<1>2. PICK e \in Errno \union {"OK"} : Leave(p, e)
    BY DEF ReadPcr, Errno
<1>3. /\ bpfima_commit_error' \in Errno \union {"OK"}
      /\ bpfima_commit_error # "OK" => bpfima_commit_error' # "OK"
    BY DEF ReadPcr, commit_fail, TypeOK, Errno
<1>4. commit_mutex = p
    BY <1>1 DEF MutexHeld, Locked
<1>5. req[p].kind # "measure"
    BY <1>1 DEF WorkInv
<1>6. PcrInv' /\ pcr' \in Seq(Chain)
    BY <1>1, <1>2, <1>3, LeavingPcr DEF tpmVars
<1>7. QED
    BY <1>1, <1>2, <1>3, <1>4, <1>5, <1>6, LeavingInv DEF tpmVars

\* Returning to the caller.
LEMMA ReturnInv ==
    ASSUME TransactionInv, NEW p \in Proc, Return(p)
    PROVE  TransactionInv'
<1> USE DEF TransactionInv
<1>1. /\ UNCHANGED <<tpmVars, modeVars, listVars, root_hash, histVars, commit_mutex,
                     value, new_root, entries_to_delete>>
      /\ pc[p] = "done"
      /\ pc' = [pc EXCEPT ![p] = "idle"]
      /\ req' = [req EXCEPT ![p] = NoRequest]
      /\ ret' = [ret EXCEPT ![p] = "OK"]
    BY DEF Return, Goto
<1>2. TypeOK'
    <2>1. NoRequest \in Request
        BY DEF NoRequest, Request, ReadRequest
    <2>2. TaskTypes'
        BY <1>1, <2>1 DEF TypeOK, TaskTypes, PC
    <2>3. QED
        BY <1>1, <2>2, TypeKept, Zenon DEF TypeOK, tpmVars, modeVars
<1>3. LeafReplaysList' /\ DedupExact' /\ LeafInRoot'
    BY <1>1, ListsKept
<1>4. PcrInv'
    BY <1>1, PcrKept, PcType DEF tpmVars, modeVars
<1>5. MutexHeld'
    BY <1>1 DEF MutexHeld, TypeOK, Locked
<1>6. WorkInv' /\ ResultInv'
    BY <1>1 DEF WorkInv, ResultInv, EventValue, hash_exists, modeVars, listVars, TypeOK
<1>7. QED
    BY <1>2, <1>3, <1>4, <1>5, <1>6

\* No step of any task breaks the invariant.
LEMMA NextInv == TransactionInv /\ [Next]_vars => TransactionInv'
<1> SUFFICES ASSUME TransactionInv, [Next]_vars PROVE TransactionInv'
    OBVIOUS
<1>1. CASE Next
    <2>1. ASSUME NEW p \in Proc, Step(p) PROVE TransactionInv'
        BY <2>1, CheckErrorInv, LockCommitInv, PrepareEventInv, ExtendTpmInv, PublishInv,
           TrimHistoryInv, AggregateInv, ReadPcrInv, ReturnInv DEF Step
    <2>2. QED
        BY <1>1, <2>1, ChipChangeInv, CommitGetErrorInv, BeginInv DEF Next
<1>2. CASE UNCHANGED vars
    <2> USE <1>2 DEF TransactionInv, vars
    <2>1. TypeOK'
        BY Zenon DEF TypeOK, tpmVars, modeVars, listVars, taskVars
    <2>2. LeafReplaysList' /\ DedupExact' /\ LeafInRoot'
        BY ListsKept
    <2>3. PcrInv'
        BY PcrKept DEF tpmVars, modeVars, taskVars
    <2>4. MutexHeld' /\ WorkInv' /\ ResultInv'
        BY DEF MutexHeld, WorkInv, ResultInv, EventValue, hash_exists, modeVars, listVars, taskVars
    <2>5. QED
        BY <2>1, <2>2, <2>3, <2>4
<1>3. QED
    BY <1>1, <1>2

(***************************************************************************)
(* The theorems.                                                           *)
(***************************************************************************)

\* The inductive invariant of the commit transaction holds in every reachable
\* state, for any number of tasks, containers, digests and any faults.
THEOREM TransactionInvHolds == Spec => []TransactionInv
BY InitInv, NextInv, PTL DEF Spec

\* Every variable of the transaction keeps its type.
THEOREM TypeCorrect == Spec => []TypeOK
<1>1. TransactionInv => TypeOK
    BY DEF TransactionInv
<1>2. QED
    BY <1>1, TransactionInvHolds, PTL

\* The task inside the transaction is the one that holds bpfima_commit_mutex.
THEOREM Exclusion == Spec => []MutexHeld
<1>1. TransactionInv => MutexHeld
    BY DEF TransactionInv
<1>2. QED
    BY <1>1, TransactionInvHolds, PTL

\* The PCR is the replay of the published root chain, but for one commit in
\* flight or one ambiguous command behind a latched error.
THEOREM PcrFollowsRoot == Spec => []PcrTracksRoot
<1>1. TransactionInv => PcrTracksRoot
    BY DEF TransactionInv, PcrInv, InFlight, PcrTracksRoot, ReplayedPcr
<1>2. QED
    BY <1>1, TransactionInvHolds, PTL

\* bpfima_tpm_get_pcr_value reads a PCR that agrees with the published chain.
THEOREM PcrReadsSettled == Spec => []PcrReadIsSettled
<1>1. TransactionInv => PcrReadIsSettled
    <2> SUFFICES ASSUME TransactionInv, NEW p \in Proc, pc[p] = "read" PROVE pcr = ReplayedPcr
        BY DEF PcrReadIsSettled
    <2>1. commit_mutex = p /\ bpfima_commit_error = "OK"
        BY DEF TransactionInv, MutexHeld, WorkInv, Locked
    <2>2. \A q \in Proc \ {p} : pc[q] \notin Locked
        BY <2>1, AloneInside DEF TransactionInv
    <2>3. \A q \in Proc : ~InFlight(q)
        BY <2>2 DEF InFlight, Locked
    <2>4. QED
        BY <2>1, <2>3 DEF TransactionInv, PcrInv
<1>2. QED
    BY <1>1, TransactionInvHolds, PTL

\* Leaf hashes replay their lists and the duplicate table is exact.
THEOREM ListsExact == Spec => []LeafReplaysList /\ []DedupExact
<1>1. TransactionInv => LeafReplaysList /\ DedupExact
    BY DEF TransactionInv
<1>2. QED
    BY <1>1, TransactionInvHolds, PTL

\* In a hardware epoch the PCR starts with every state of the root chain.
LEMMA PcrHoldsRoots ==
    ASSUME TransactionInv, hardware_anchored, NEW i \in 1..Len(root_hash)
    PROVE  i <= Len(pcr) /\ pcr[i] = SubSeq(root_hash, 1, i)
<1>1. ReplayedPcr = Roots(root_hash)
    BY DEF ReplayedPcr
<1>2. /\ Roots(root_hash) \in Seq(Chain)
      /\ Len(Roots(root_hash)) = Len(root_hash)
      /\ Len(root_hash) \in Nat
    BY RootsType, ChainDomain DEF TransactionInv, TypeOK, Chain
<1>3. Roots(root_hash)[i] = SubSeq(root_hash, 1, i)
    BY DEF Roots
<1>4. pcr \in Seq(Chain)
    BY DEF TransactionInv, TypeOK
<1>5. CASE pcr = Roots(root_hash)
    BY <1>2, <1>3, <1>5
<1>6. ASSUME NEW x \in Chain, pcr = Append(Roots(root_hash), x)
      PROVE  i <= Len(pcr) /\ pcr[i] = SubSeq(root_hash, 1, i)
    <2>1. Grown(Roots(root_hash), pcr, x)
        BY <1>2, <1>6, AppendGrows
    <2>2. Len(pcr) = Len(root_hash) + 1 /\ pcr[i] = Roots(root_hash)[i]
        BY <1>2, <2>1 DEF Grown
    <2>3. QED
        BY <1>2, <1>3, <2>2
<1>7. CASE OneMore(Roots(root_hash), pcr)
    <2>1. pcr # <<>> /\ pcr = Append(Roots(root_hash), pcr[Len(pcr)])
        BY <1>7 DEF OneMore, Zero
    <2>2. pcr[Len(pcr)] \in Chain
        BY <1>4, <2>1, ChainDomain, EmptyChain
    <2>3. QED
        BY <1>6, <2>1, <2>2
<1>8. CASE \E p \in Proc : InFlight(p)
    <2>1. PICK p \in Proc : InFlight(p)
        BY <1>8
    <2>2. pcr = Append(Roots(root_hash), new_root[p]) /\ new_root[p] \in Chain
        BY <1>1, <2>1, GlobalTypes DEF TransactionInv, PcrInv
    <2>3. QED
        BY <1>6, <2>2
<1>9. QED
    BY <1>1, <1>5, <1>7, <1>8 DEF TransactionInv, PcrInv

\* A measurement call that reports success has left its digest in the list,
\* in the root chain and, in a hardware epoch, in the PCR.
THEOREM SuccessIsMeasured == Spec => []SuccessMeansMeasured
<1>1. TransactionInv => SuccessMeansMeasured
    <2> SUFFICES ASSUME TransactionInv, NEW p \in Proc, pc[p] = "done",
                        req[p].kind = "measure", ret[p] = "OK"
                 PROVE  \E i \in 1..Len(root_hash), n \in 1..Len(leaf_hash[req[p].source]) :
                            /\ leaf_hash[req[p].source][n] = req[p].digest
                            /\ root_hash[i] = SubSeq(leaf_hash[req[p].source], 1, n)
                            /\ hardware_anchored => i <= Len(pcr) /\ pcr[i] = SubSeq(root_hash, 1, i)
        BY DEF SuccessMeansMeasured
    <2> DEFINE c == req[p].source
    <2>1. c \in Container /\ req[p].digest \in Digest
        BY RequestKinds DEF TransactionInv, TypeOK
    <2>2. Recorded(measurement_list[c], req[p].digest) /\ leaf_hash[c] = measurement_list[c]
        BY <2>1 DEF TransactionInv, ResultInv, DedupExact, LeafReplaysList
    <2>3. PICK n \in 1..Len(leaf_hash[c]) : leaf_hash[c][n] = req[p].digest
        BY <2>2 DEF Recorded
    <2>4. Recorded(root_hash, Roots(leaf_hash[c])[n])
        BY <2>1 DEF TransactionInv, LeafInRoot
    <2>5. Roots(leaf_hash[c])[n] = SubSeq(leaf_hash[c], 1, n)
        BY DEF Roots
    <2>6. PICK i \in 1..Len(root_hash) : root_hash[i] = Roots(leaf_hash[c])[n]
        BY <2>4 DEF Recorded
    <2>7. hardware_anchored => i <= Len(pcr) /\ pcr[i] = SubSeq(root_hash, 1, i)
        BY PcrHoldsRoots
    <2>8. QED
        BY <2>3, <2>5, <2>6, <2>7
<1>2. QED
    BY <1>1, TransactionInvHolds, PTL

\* What a step does once an error is latched: the check returns that error,
\* and no task is at its TPM command or its publication.
LEMMA LatchStep ==
    ASSUME TransactionInv, [Next]_vars, bpfima_commit_error # "OK"
    PROVE  UNCHANGED <<modeVars, pcr, listVars, root_hash>>
<1> USE DEF TransactionInv
<1>1. commit_check = bpfima_commit_error
    BY CheckResult
<1>2. \A p \in Proc : pc[p] \notin {"extend", "publish", "read"}
    BY DEF WorkInv
<1>3. CASE ChipChange \/ CommitGetError \/ UNCHANGED vars
    BY <1>1, <1>3 DEF ChipChange, CommitGetError, vars, modeVars, tpmVars, listVars
<1>4. ASSUME NEW p \in Proc, NEW r \in Request, Begin(p, r)
      PROVE  UNCHANGED <<modeVars, pcr, listVars, root_hash>>
    BY <1>4 DEF Begin, tpmVars
<1>5. ASSUME NEW p \in Proc, CheckError(p) \/ LockCommit(p) \/ PrepareEvent(p)
      PROVE  UNCHANGED <<modeVars, pcr, listVars, root_hash>>
    <2>1. CASE CheckError(p)
        BY <1>1, <2>1 DEF CheckError, tpmVars, modeVars
    <2>2. CASE LockCommit(p)
        BY <1>1, <2>2 DEF LockCommit, tpmVars, modeVars
    <2>3. CASE PrepareEvent(p)
        BY <1>1, <2>3 DEF PrepareEvent, tpmVars, modeVars
    <2>4. QED
        BY <1>5, <2>1, <2>2, <2>3
<1>6. ASSUME NEW p \in Proc, ExtendTpm(p) \/ Publish(p) \/ ReadPcr(p)
      PROVE  FALSE
    BY <1>2, <1>6 DEF ExtendTpm, Publish, ReadPcr
<1>7. ASSUME NEW p \in Proc, TrimHistory(p) \/ Aggregate(p) \/ Return(p)
      PROVE  UNCHANGED <<modeVars, pcr, listVars, root_hash>>
    <2>1. CASE TrimHistory(p)
        BY <2>1 DEF TrimHistory, tpmVars
    <2>2. CASE Aggregate(p) \/ Return(p)
        BY <2>2 DEF Aggregate, Return, tpmVars
    <2>3. QED
        BY <1>7, <2>1, <2>2
<1>8. QED
    BY <1>3, <1>4, <1>5, <1>6, <1>7 DEF Next, Step

\* A latched error is final: nothing is committed, extended or published
\* after it.
THEOREM LatchFinal == Spec => LatchIsFinal
<1>1. TransactionInv /\ [Next]_vars
          => [bpfima_commit_error # "OK" => UNCHANGED <<modeVars, pcr, listVars, root_hash>>]_vars
    BY LatchStep
<1>2. QED
    BY <1>1, TransactionInvHolds, PTL DEF Spec, LatchIsFinal

\* Only the TPM step touches the PCR or the mode, and not in a software epoch.
LEMMA ModeStep ==
    ASSUME TransactionInv, [Next]_vars
    PROVE  /\ software_committed /\ ~hardware_anchored => UNCHANGED <<pcr, hardware_anchored>>
           /\ hardware_anchored => hardware_anchored'
<1> USE DEF TransactionInv
<1>1. CASE ChipChange \/ CommitGetError \/ UNCHANGED vars
    BY <1>1 DEF ChipChange, CommitGetError, vars, modeVars, tpmVars
<1>2. ASSUME NEW p \in Proc, NEW r \in Request, Begin(p, r)
      PROVE  UNCHANGED <<pcr, hardware_anchored>>
    BY <1>2 DEF Begin, tpmVars, modeVars
<1>3. ASSUME NEW p \in Proc, CheckError(p) \/ LockCommit(p) \/ PrepareEvent(p)
      PROVE  UNCHANGED <<pcr, hardware_anchored>>
    <2>1. CASE CheckError(p)
        BY <2>1 DEF CheckError, tpmVars
    <2>2. CASE LockCommit(p)
        BY <2>2 DEF LockCommit, tpmVars
    <2>3. CASE PrepareEvent(p)
        BY <2>3 DEF PrepareEvent, tpmVars
    <2>4. QED
        BY <1>3, <2>1, <2>2, <2>3
<1>4. ASSUME NEW p \in Proc, Publish(p) \/ ReadPcr(p) \/ TrimHistory(p) \/ Aggregate(p) \/ Return(p)
      PROVE  UNCHANGED <<pcr, hardware_anchored>>
    <2>1. CASE Publish(p)
        BY <2>1 DEF Publish, tpmVars
    <2>2. CASE ReadPcr(p)
        BY <2>2 DEF ReadPcr, tpmVars
    <2>3. CASE TrimHistory(p)
        BY <2>3 DEF TrimHistory, tpmVars, modeVars
    <2>4. CASE Aggregate(p) \/ Return(p)
        BY <2>4 DEF Aggregate, Return, tpmVars, modeVars
    <2>5. QED
        BY <1>4, <2>1, <2>2, <2>3, <2>4
<1>5. ASSUME NEW p \in Proc, ExtendTpm(p)
      PROVE  /\ software_committed /\ ~hardware_anchored => UNCHANGED <<pcr, hardware_anchored>>
             /\ hardware_anchored => hardware_anchored'
    <2>1. PICK o \in extend_tpm_pcr :
              /\ pcr' = IF o.extended THEN Append(pcr, new_root[p]) ELSE pcr
              /\ IF GivesUp(o) THEN UNCHANGED hardware_anchored
                 ELSE hardware_anchored' = (hardware_anchored \/ o.ret = "OK")
        BY <1>5 DEF ExtendTpm
    <2>2. /\ o.extended => hardware_allowed
          /\ o.ret = "OK" => o.extended
        BY ExtendOutcomes
    <2>3. software_committed /\ ~hardware_anchored => ~o.extended /\ o.ret # "OK"
        BY <2>2 DEF hardware_allowed
    <2>4. software_committed /\ ~hardware_anchored => pcr' = pcr /\ ~hardware_anchored'
        BY <2>1, <2>3, Zenon
    <2>5. hardware_anchored' \in BOOLEAN
        BY <2>1, Zenon DEF TypeOK
    <2>6. software_committed /\ ~hardware_anchored => UNCHANGED hardware_anchored
        BY <2>4, <2>5, Zenon DEF TypeOK
    <2>7. hardware_anchored => hardware_anchored'
        BY <2>1, Zenon
    <2>8. QED
        BY <2>4, <2>6, <2>7
<1>6. QED
    BY <1>1, <1>2, <1>3, <1>4, <1>5 DEF Next, Step

\* An epoch is hardware-anchored or software-only for good.
THEOREM ModeKept == Spec => EpochKeepsMode
<1>1. TransactionInv /\ [Next]_vars
          => [/\ software_committed /\ ~hardware_anchored => UNCHANGED <<pcr, hardware_anchored>>
              /\ hardware_anchored => hardware_anchored']_vars
    BY ModeStep
<1>2. QED
    BY <1>1, TransactionInvHolds, PTL DEF Spec, EpochKeepsMode
=============================================================================
