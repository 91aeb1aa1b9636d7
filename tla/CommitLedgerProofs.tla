------------------------- MODULE CommitLedgerProofs -------------------------
(***************************************************************************)
(* The transaction implements the ledger, for any number of tasks,         *)
(* containers and digests.                                                 *)
(***************************************************************************)
EXTENDS CommitLedger, CommitProofs

USE SMTT(30), ZenonT(30)

PendingIsInFlight ==
    /\ \A p \in Proc : InFlight(p) => LedgerPending = new_root[p]
    /\ (\A p \in Proc : ~InFlight(p)) => LedgerPending = Zero

\* The pending state is that of the one task in flight.
LEMMA PendingFacts == TransactionInv => PendingIsInFlight
<1> SUFFICES ASSUME TransactionInv PROVE PendingIsInFlight
    OBVIOUS
<1>1. ASSUME NEW p \in Proc, InFlight(p) PROVE LedgerPending = new_root[p]
    <2>1. commit_mutex = p /\ p # NoProc
        BY <1>1, ConstAssumption DEF TransactionInv, MutexHeld, Locked, InFlight
    <2>2. QED
        BY <1>1, <2>1 DEF LedgerPending, InFlight
<1>2. ASSUME \A p \in Proc : ~InFlight(p) PROVE LedgerPending = Zero
    BY <1>2 DEF LedgerPending, InFlight, TransactionInv, TypeOK
<1>3. QED
    BY <1>1, <1>2 DEF PendingIsInFlight

\* The same after a step.
LEMMA PendingFactsNext == TransactionInv' => PendingIsInFlight'
BY PendingFacts, PTL

\* A step that neither starts nor ends a publication is a stutter of the
\* ledger, or seals it.
LEMMA QuietLedger ==
    ASSUME TransactionInv, TransactionInv',
           UNCHANGED <<pcr, hardware_anchored, software_committed, root_hash>>,
           bpfima_commit_error # "OK" => bpfima_commit_error' # "OK",
           \A q \in Proc : pc'[q] = "publish" <=> pc[q] = "publish",
           \A q \in Proc : pc[q] = "publish" => new_root'[q] = new_root[q]
    PROVE  [L!Next]_(L!ledgerVars)
<1>1. LedgerMode' = LedgerMode
    BY DEF LedgerMode
<1>2. CASE \E p \in Proc : InFlight(p)
    <2>1. PICK p \in Proc : InFlight(p)
        BY <1>2
    <2>2. InFlight(p)' /\ new_root'[p] = new_root[p]
        BY <2>1 DEF InFlight
    <2>3. LedgerPending = new_root[p]
        BY <2>1, PendingFacts DEF PendingIsInFlight
    <2>4. LedgerPending' = new_root'[p]
        BY <2>2, PendingFactsNext DEF PendingIsInFlight
    <2>5. bpfima_commit_error = "OK" /\ bpfima_commit_error' = "OK"
        BY <2>1, <2>2 DEF TransactionInv, WorkInv, InFlight
    <2>6. QED
        BY <1>1, <2>2, <2>3, <2>4, <2>5 DEF L!ledgerVars
<1>3. CASE \A p \in Proc : ~InFlight(p)
    <2>1. \A p \in Proc : ~InFlight(p)'
        BY <1>3 DEF InFlight
    <2>2. LedgerPending = Zero /\ LedgerPending' = Zero
        BY <1>3, <2>1, PendingFacts, PendingFactsNext DEF PendingIsInFlight
    <2>3. QED
        BY <1>1, <2>2 DEF L!ledgerVars, L!Next, L!Seal, Zero
<1>4. QED
    BY <1>2, <1>3

\* The TPM step extends the register, seals the ledger, or leaves it alone.
LEMMA ExtendLedger ==
    ASSUME TransactionInv, TransactionInv', NEW p \in Proc, ExtendTpm(p)
    PROVE  [L!Next]_(L!ledgerVars)
<1>1. /\ UNCHANGED <<software_committed, root_hash>>
      /\ pc[p] = "extend"
    BY DEF ExtendTpm
<1>2. PICK o \in extend_tpm_pcr :
          /\ pcr' = IF o.extended THEN Append(pcr, new_root[p]) ELSE pcr
          /\ IF GivesUp(o)
             THEN /\ bpfima_commit_error' =
                         IF Latches(o) THEN commit_fail(o.ret) ELSE bpfima_commit_error
                  /\ Leave(p, IF Latches(o) THEN commit_fail(o.ret) ELSE o.ret)
                  /\ UNCHANGED hardware_anchored
             ELSE /\ hardware_anchored' = (hardware_anchored \/ o.ret = "OK")
                  /\ pc' = [pc EXCEPT ![p] = "publish"]
                  /\ UNCHANGED <<bpfima_commit_error, commit_mutex, value, new_root, ret>>
    BY DEF ExtendTpm, Goto
<1>3. /\ o.extended => o.started /\ hardware_allowed
      /\ o.ret = "OK" => o.extended
    BY ExtendOutcomes
<1>4. /\ bpfima_commit_error = "OK"
      /\ new_root[p] \in Chain /\ pcr \in Seq(Chain)
      /\ value[p] \in Value /\ root_hash \in Seq(Value)
      /\ new_root[p] = Append(root_hash, value[p])
      /\ \A q \in Proc \ {p} : pc[q] \notin Locked
    BY <1>1, PreparedFacts, GlobalTypes DEF TransactionInv, Chain
<1>5. LedgerPending = Zero
    BY <1>1, <1>4, PendingFacts DEF PendingIsInFlight, InFlight, Locked
<1>6. L!OneMore(root_hash, new_root[p])
    BY <1>4, AppendIsOneMore DEF OneMore, L!OneMore, Zero
<1>7. hardware_allowed => LedgerMode \in {"open", "hardware"}
    BY DEF hardware_allowed, LedgerMode
<1>8. CASE GivesUp(o)
    <2>1. /\ bpfima_commit_error' = IF Latches(o) THEN commit_fail(o.ret) ELSE bpfima_commit_error
          /\ Leave(p, IF Latches(o) THEN commit_fail(o.ret) ELSE o.ret)
          /\ UNCHANGED hardware_anchored
        BY <1>2, <1>8
    <2>2. \A q \in Proc : pc'[q] # "publish"
        BY <1>4, <2>1, LeaveOthers DEF Locked, TransactionInv
    <2>3. LedgerPending' = Zero /\ LedgerMode' = LedgerMode
        BY <1>1, <2>1, <2>2, PendingFactsNext DEF PendingIsInFlight, InFlight, LedgerMode
    <2>4. CASE ~o.extended
        <3>1. pcr' = pcr
            BY <1>2, <2>4
        <3>2. CASE bpfima_commit_error' # "OK"
            BY <1>1, <1>4, <1>5, <2>3, <3>1, <3>2 DEF L!Next, L!Seal, Zero
        <3>3. CASE bpfima_commit_error' = "OK"
            BY <1>1, <1>4, <1>5, <2>3, <3>1, <3>3 DEF L!ledgerVars
        <3>4. QED
            BY <3>2, <3>3
    <2>5. CASE o.extended
        <3>1. bpfima_commit_error' # "OK"
            BY <1>3, <1>4, <1>8, <2>1, <2>5 DEF Latches, commit_fail, GivesUp
        <3>2. pcr' = Append(pcr, new_root[p])
            BY <1>2, <2>5
        <3>3. L!OneMore(pcr, pcr') /\ pcr'[Len(pcr')] = new_root[p]
            BY <1>4, <3>2, AppendIsOneMore DEF OneMore, L!OneMore, Zero
        <3>4. L!OneMore(root_hash, pcr'[Len(pcr')]) /\ LedgerMode \in {"open", "hardware"}
            BY <1>3, <1>6, <1>7, <2>5, <3>3
        <3>5. L!Seal
            BY <1>1, <1>4, <1>5, <2>3, <3>1, <3>3, <3>4 DEF L!Seal, Zero
        <3>6. QED
            BY <3>5 DEF L!Next
    <2>6. QED
        BY <2>4, <2>5
<1>9. CASE ~GivesUp(o)
    <2>1. /\ hardware_anchored' = (hardware_anchored \/ o.ret = "OK")
          /\ pc' = [pc EXCEPT ![p] = "publish"]
          /\ UNCHANGED <<bpfima_commit_error, commit_mutex, value, new_root, ret>>
        BY <1>2, <1>9
    <2>2. pc'[p] = "publish"
        BY <2>1, PcType DEF TransactionInv
    <2>3. CASE o.ret = "OK"
        <3>1. pcr' = Append(pcr, new_root[p]) /\ hardware_anchored' /\ hardware_allowed
            BY <1>2, <1>3, <2>1, <2>3, Zenon
        <3>2. LedgerPending' = new_root[p]
            BY <2>1, <2>2, <3>1, PendingFactsNext DEF PendingIsInFlight, InFlight
        <3>3. LedgerMode' = "hardware"
            BY <3>1 DEF LedgerMode
        <3>4. L!Extend
            BY <1>1, <1>4, <1>5, <1>6, <1>7, <2>1, <3>1, <3>2, <3>3 DEF L!Extend, Zero
        <3>5. QED
            BY <3>4 DEF L!Next
    <2>4. CASE o.ret # "OK"
        <3>1. ~hardware_anchored /\ ~hardware_anchored' /\ ~o.extended
            BY <1>3, <1>9, <2>1, <2>4, Zenon DEF GivesUp
        <3>2. pcr' = pcr
            BY <1>2, <3>1
        <3>3. LedgerPending' = Zero /\ LedgerMode' = LedgerMode
            BY <1>1, <3>1, PendingFactsNext DEF PendingIsInFlight, InFlight, LedgerMode
        <3>4. QED
            BY <1>1, <1>5, <2>1, <3>2, <3>3 DEF L!ledgerVars
    <2>5. QED
        BY <2>3, <2>4
<1>10. QED
    BY <1>8, <1>9

\* Publication is the ledger's publication, or a commit without a register.
LEMMA PublishLedger ==
    ASSUME TransactionInv, TransactionInv', NEW p \in Proc, Publish(p)
    PROVE  [L!Next]_(L!ledgerVars)
<1>1. /\ UNCHANGED <<pcr, bpfima_commit_error, hardware_anchored>>
      /\ pc[p] = "publish"
      /\ root_hash' = new_root[p]
      /\ software_committed' = TRUE
      /\ pc' = [pc EXCEPT ![p] = "trim"]
    BY DEF Publish, Goto, tpmVars
<1>2. /\ bpfima_commit_error = "OK"
      /\ value[p] \in Value /\ root_hash \in Seq(Value)
      /\ new_root[p] = Append(root_hash, value[p])
      /\ \A q \in Proc \ {p} : pc[q] \notin Locked
    BY <1>1, PreparedFacts, GlobalTypes DEF TransactionInv, Chain
<1>3. L!OneMore(root_hash, new_root[p]) /\ new_root[p] # <<>>
    BY <1>2, AppendIsOneMore DEF OneMore, L!OneMore, Zero
<1>4. \A q \in Proc : pc'[q] # "publish"
    BY <1>1, <1>2, PcType DEF TransactionInv, Locked
<1>5. LedgerPending' = Zero
    BY <1>4, PendingFactsNext DEF PendingIsInFlight, InFlight
<1>6. CASE hardware_anchored
    <2>1. LedgerPending = new_root[p]
        BY <1>1, <1>6, PendingFacts DEF PendingIsInFlight, InFlight
    <2>2. LedgerMode' = LedgerMode
        BY <1>1, <1>6 DEF LedgerMode
    <2>3. L!Publish
        BY <1>1, <1>3, <1>5, <2>1, <2>2 DEF L!Publish, Zero
    <2>4. QED
        BY <2>3 DEF L!Next
<1>7. CASE ~hardware_anchored
    <2>1. LedgerPending = Zero
        BY <1>7, PendingFacts DEF PendingIsInFlight, InFlight
    <2>2. LedgerMode \in {"open", "software"} /\ LedgerMode' = "software"
        BY <1>1, <1>7 DEF LedgerMode
    <2>3. L!CommitSoftware
        BY <1>1, <1>2, <1>3, <1>5, <2>1, <2>2 DEF L!CommitSoftware, Zero
    <2>4. QED
        BY <2>3 DEF L!Next
<1>8. QED
    BY <1>6, <1>7

\* What the other actions leave alone.
QuietStep ==
    /\ UNCHANGED <<pcr, hardware_anchored, software_committed, root_hash>>
    /\ bpfima_commit_error # "OK" => bpfima_commit_error' # "OK"
    /\ \A q \in Proc : pc'[q] = "publish" <=> pc[q] = "publish"
    /\ \A q \in Proc : pc[q] = "publish" => new_root'[q] = new_root[q]

\* Leaving from elsewhere than publication is quiet.
LEMMA LeaveQuiet ==
    ASSUME TypeOK, NEW p \in Proc, NEW e, Leave(p, e), pc[p] # "publish"
    PROVE  /\ \A q \in Proc : pc'[q] = "publish" <=> pc[q] = "publish"
           /\ \A q \in Proc : pc[q] = "publish" => new_root'[q] = new_root[q]
BY LeaveOthers

\* All actions but ExtendTpm and Publish are quiet.
LEMMA OtherStepsQuiet ==
    ASSUME TransactionInv, NEW p \in Proc,
           \/ CheckError(p) \/ LockCommit(p) \/ PrepareEvent(p) \/ TrimHistory(p)
           \/ Aggregate(p) \/ ReadPcr(p) \/ Return(p) \/ \E r \in Request : Begin(p, r)
    PROVE  QuietStep
<1> USE DEF TransactionInv
<1>1. CASE CheckError(p)
    <2>1. PICK l \in {"lock", "done"} : pc' = [pc EXCEPT ![p] = l]
        BY <1>1, Zenon DEF CheckError, Goto
    <2>2. QED
        BY <1>1, <2>1, CheckResult, PcType DEF CheckError, QuietStep, tpmVars
<1>2. CASE LockCommit(p)
    <2>1. /\ UNCHANGED <<pcr, hardware_anchored, software_committed, root_hash>>
          /\ bpfima_commit_error # "OK" => bpfima_commit_error' # "OK"
          /\ pc[p] = "lock"
        BY <1>2, CheckResult DEF LockCommit, tpmVars
    <2>2. \/ \E e \in LockOutcome(p) : Leave(p, e)
          \/ /\ \E l \in {"read", "prepare"} : pc' = [pc EXCEPT ![p] = l]
             /\ UNCHANGED new_root
        BY <1>2 DEF LockCommit, Goto
    <2>3. CASE \E e \in LockOutcome(p) : Leave(p, e)
        BY <2>1, <2>3, LeaveQuiet DEF QuietStep
    <2>4. CASE (\E l \in {"read", "prepare"} : pc' = [pc EXCEPT ![p] = l]) /\ UNCHANGED new_root
        BY <2>1, <2>4, PcType DEF QuietStep
    <2>5. QED
        BY <2>2, <2>3, <2>4
<1>3. CASE PrepareEvent(p)
    <2>1. /\ UNCHANGED <<pcr, hardware_anchored, software_committed, root_hash>>
          /\ bpfima_commit_error # "OK" => bpfima_commit_error' # "OK"
          /\ pc[p] = "prepare"
        BY <1>3, CheckResult DEF PrepareEvent, tpmVars
    <2>2. \/ \E e \in PrepareOutcome(p) : Leave(p, e)
          \/ /\ pc' = [pc EXCEPT ![p] = "extend"]
             /\ \E v : new_root' = [new_root EXCEPT ![p] = v]
        BY <1>3 DEF PrepareEvent, Goto
    <2>3. CASE \E e \in PrepareOutcome(p) : Leave(p, e)
        BY <2>1, <2>3, LeaveQuiet DEF QuietStep
    <2>4. CASE pc' = [pc EXCEPT ![p] = "extend"] /\ \E v : new_root' = [new_root EXCEPT ![p] = v]
        BY <2>1, <2>4, PcType DEF QuietStep
    <2>5. QED
        BY <2>2, <2>3, <2>4
<1>4. CASE TrimHistory(p)
    <2>1. /\ UNCHANGED <<pcr, hardware_anchored, software_committed, bpfima_commit_error, root_hash>>
          /\ pc[p] = "trim"
        BY <1>4 DEF TrimHistory, tpmVars, modeVars
    <2>2. Leave(p, "OK") \/ (pc' = [pc EXCEPT ![p] = "aggregate"] /\ UNCHANGED new_root)
        BY <1>4 DEF TrimHistory, Goto
    <2>3. CASE Leave(p, "OK")
        BY <2>1, <2>3, LeaveQuiet DEF QuietStep
    <2>4. CASE pc' = [pc EXCEPT ![p] = "aggregate"] /\ UNCHANGED new_root
        BY <2>1, <2>4, PcType DEF QuietStep
    <2>5. QED
        BY <2>2, <2>3, <2>4
<1>5. CASE Aggregate(p)
    BY <1>5, LeaveQuiet DEF Aggregate, QuietStep, tpmVars, modeVars
<1>6. CASE ReadPcr(p)
    <2>1. /\ UNCHANGED <<pcr, hardware_anchored, software_committed, root_hash>>
          /\ pc[p] = "read" /\ bpfima_commit_error = "OK"
        BY <1>6 DEF ReadPcr, tpmVars, WorkInv
    <2>2. \E e : Leave(p, e)
        BY <1>6 DEF ReadPcr
    <2>3. QED
        BY <2>1, <2>2, LeaveQuiet DEF QuietStep
<1>7. CASE Return(p)
    BY <1>7, PcType DEF Return, Goto, QuietStep, tpmVars, modeVars
<1>8. CASE \E r \in Request : Begin(p, r)
    <2>1. PICK r \in Request : Begin(p, r)
        BY <1>8
    <2>2. PICK l \in {"lock", "check"} : pc' = [pc EXCEPT ![p] = l]
        BY <2>1, Zenon DEF Begin, Goto
    <2>3. QED
        BY <2>1, <2>2, PcType DEF Begin, QuietStep, tpmVars, modeVars
<1>9. QED
    BY <1>1, <1>2, <1>3, <1>4, <1>5, <1>6, <1>7, <1>8

\* The commit transaction implements the ledger: whatever the tasks, the chip
\* and the faults do, each step is a ledger step or invisible to it.
THEOREM CommitImplementsLedger == Spec => ImplementsLedger
<1>1. Init => L!Init
    BY DEF Init, L!Init, LedgerPending, LedgerMode, Zero
<1>2. TransactionInv /\ TransactionInv' /\ [Next]_vars => [L!Next]_(L!ledgerVars)
    <2> SUFFICES ASSUME TransactionInv, TransactionInv', [Next]_vars
                 PROVE  [L!Next]_(L!ledgerVars)
        OBVIOUS
    <2>1. ASSUME QuietStep PROVE [L!Next]_(L!ledgerVars)
        BY <2>1, QuietLedger DEF QuietStep
    <2>2. CASE ChipChange \/ CommitGetError \/ UNCHANGED vars
        <3>1. QuietStep
            BY <2>2, CheckResult DEF TransactionInv, ChipChange, CommitGetError, QuietStep, vars,
               tpmVars, modeVars, taskVars
        <3>2. QED
            BY <2>1, <3>1
    <2>3. ASSUME NEW p \in Proc, Step(p) \/ \E r \in Request : Begin(p, r)
          PROVE  [L!Next]_(L!ledgerVars)
        BY <2>1, <2>3, OtherStepsQuiet, ExtendLedger, PublishLedger DEF Step
    <2>4. QED
        BY <2>2, <2>3 DEF Next
<1>3. QED
    BY <1>1, <1>2, TransactionInvHolds, PTL DEF Spec, ImplementsLedger, L!Spec
=============================================================================
