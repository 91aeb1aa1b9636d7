---------------------------- MODULE CommitFacts -----------------------------
(***************************************************************************)
(* What the proofs about Commit rest on: facts about the chains, about its *)
(* operators, and about what the end of a transaction changes.             *)
(***************************************************************************)
EXTENDS Commit, TLAPS

USE SMTT(30), ZenonT(30)

(***************************************************************************)
(* Facts about the chains.                                                 *)
(***************************************************************************)

\* A chain begins empty.
LEMMA EmptyChain ==
    ASSUME NEW S
    PROVE  <<>> \in Seq(S) /\ Len(<<>>) = 0
OBVIOUS

\* A chain is a function on the positions of its events.
LEMMA ChainDomain ==
    ASSUME NEW S, NEW s \in Seq(S)
    PROVE  Len(s) \in Nat /\ s \in [1..Len(s) -> S]
OBVIOUS

\* Two chains with the same events are the same.
LEMMA ChainEqual ==
    ASSUME NEW S, NEW s \in Seq(S), NEW t \in Seq(S), Len(s) = Len(t),
           \A i \in 1..Len(s) : s[i] = t[i]
    PROVE  s = t
OBVIOUS

\* An earlier state of a chain.
LEMMA ChainPrefix ==
    ASSUME NEW S, NEW s \in Seq(S), NEW i \in 1..Len(s)
    PROVE  /\ SubSeq(s, 1, i) \in Seq(S)
           /\ Len(SubSeq(s, 1, i)) = i
           /\ \A j \in 1..i : SubSeq(s, 1, i)[j] = s[j]
OBVIOUS

\* A chain extended with one event.
LEMMA ChainExtended ==
    ASSUME NEW S, NEW s \in Seq(S), NEW v \in S
    PROVE  /\ Append(s, v) \in Seq(S)
           /\ Append(s, v) # <<>>
           /\ Len(Append(s, v)) = Len(s) + 1
           /\ \A i \in 1..Len(s) : Append(s, v)[i] = s[i]
           /\ Append(s, v)[Len(s) + 1] = v
OBVIOUS

\* Extending a chain leaves its earlier states as they were.
LEMMA PrefixOfAppend ==
    ASSUME NEW S, NEW s \in Seq(S), NEW v \in S, NEW i \in 1..Len(s)
    PROVE  SubSeq(Append(s, v), 1, i) = SubSeq(s, 1, i)
<1>1. Append(s, v) \in Seq(S) /\ Len(Append(s, v)) = Len(s) + 1
    BY ChainExtended
<1>2. i \in Nat /\ 1 <= i /\ i <= Len(s) /\ Len(s) \in Nat
    BY ChainDomain
<1>3. /\ SubSeq(Append(s, v), 1, i) \in Seq(S)
      /\ Len(SubSeq(Append(s, v), 1, i)) = i
      /\ \A j \in 1..i : SubSeq(Append(s, v), 1, i)[j] = Append(s, v)[j]
    BY <1>1, <1>2, ChainPrefix
<1>4. /\ SubSeq(s, 1, i) \in Seq(S)
      /\ Len(SubSeq(s, 1, i)) = i
      /\ \A j \in 1..i : SubSeq(s, 1, i)[j] = s[j]
    BY <1>2, ChainPrefix
<1>5. \A j \in 1..i : Append(s, v)[j] = s[j]
    BY <1>2, ChainExtended
<1>6. QED
    BY <1>3, <1>4, <1>5, ChainEqual

\* A chain is its own last state.
LEMMA WholePrefix ==
    ASSUME NEW S, NEW s \in Seq(S)
    PROVE  SubSeq(s, 1, Len(s)) = s
OBVIOUS

\* Roots is a sequence of chains, one for each event.
LEMMA RootsType ==
    ASSUME NEW S, NEW s \in Seq(S)
    PROVE  Roots(s) \in Seq(Seq(S)) /\ Len(Roots(s)) = Len(s)
<1>1. Len(s) \in Nat
    BY ChainDomain
<1>2. \A i \in 1..Len(s) : SubSeq(s, 1, i) \in Seq(S)
    BY <1>1, ChainPrefix
<1>3. QED
    BY <1>1, <1>2 DEF Roots

\* A verifier that replays one more event extends its register once more.
LEMMA RootsAppend ==
    ASSUME NEW S, NEW s \in Seq(S), NEW v \in S
    PROVE  Roots(Append(s, v)) = Append(Roots(s), Append(s, v))
<1> DEFINE t == Append(s, v)
<1>1. t \in Seq(S) /\ Len(t) = Len(s) + 1 /\ Len(s) \in Nat
    BY ChainExtended, ChainDomain
<1>2. Roots(t) \in Seq(Seq(S)) /\ Len(Roots(t)) = Len(s) + 1
    BY <1>1, RootsType, Zenon
<1>3. Roots(s) \in Seq(Seq(S)) /\ Len(Roots(s)) = Len(s)
    BY RootsType
<1>4. /\ Append(Roots(s), t) \in Seq(Seq(S))
      /\ Len(Append(Roots(s), t)) = Len(s) + 1
      /\ \A i \in 1..Len(s) : Append(Roots(s), t)[i] = Roots(s)[i]
      /\ Append(Roots(s), t)[Len(s) + 1] = t
    BY <1>1, <1>3, ChainExtended
<1>5. \A i \in 1..Len(s) + 1 : Roots(t)[i] = Append(Roots(s), t)[i]
    <2> SUFFICES ASSUME NEW i \in 1..Len(s) + 1
                 PROVE  Roots(t)[i] = Append(Roots(s), t)[i]
        BY Zenon
    <2>1. Roots(t)[i] = SubSeq(t, 1, i)
        BY <1>1 DEF Roots
    <2>2. CASE i \in 1..Len(s)
        BY <2>1, <2>2, <1>4, PrefixOfAppend DEF Roots
    <2>3. CASE i = Len(s) + 1
        BY <2>1, <2>3, <1>1, <1>4, WholePrefix
    <2>4. i \in 1..Len(s) \/ i = Len(s) + 1
        BY <1>1
    <2>5. QED
        BY <2>2, <2>3, <2>4, Zenon
<1>6. QED
    BY <1>2, <1>4, <1>5, ChainEqual, Zenon

\* Before the first event the replayed register is empty.
LEMMA RootsEmpty == Roots(Zero) = Zero
BY EmptyChain DEF Roots, Zero

\* Appending makes a sequence one longer, with the new element last.
LEMMA AppendIsOneMore ==
    ASSUME NEW S, NEW s \in Seq(S), NEW v \in S
    PROVE  /\ OneMore(s, Append(s, v))
           /\ Append(s, v)[Len(Append(s, v))] = v
<1>1. /\ Len(Append(s, v)) = Len(s) + 1
      /\ Append(s, v)[Len(s) + 1] = v
      /\ Append(s, v) # <<>>
    BY ChainExtended
<1>2. QED
    BY <1>1 DEF OneMore, Zero

\* t is s with v after its last element, said by positions.
Grown(s, t, v) ==
    /\ Len(s) \in Nat
    /\ Len(t) = Len(s) + 1
    /\ t[Len(s) + 1] = v
    /\ \A i \in 1..Len(s) : t[i] = s[i]

\* Append grows a sequence.
LEMMA AppendGrows ==
    ASSUME NEW S, NEW s \in Seq(S), NEW v \in S
    PROVE  Grown(s, Append(s, v), v)
BY ChainExtended, ChainDomain DEF Grown

\* What a chain has recorded stays recorded, and the new element is.
LEMMA GrownMember ==
    ASSUME NEW s, NEW t, NEW v, Grown(s, t, v), NEW x
    PROVE  Recorded(t, x) <=> Recorded(s, x) \/ x = v
<1>1. ASSUME NEW i \in 1..Len(t), t[i] = x
      PROVE  (\E j \in 1..Len(s) : s[j] = x) \/ x = v
    <2>1. i \in 1..Len(s) \/ i = Len(s) + 1
        BY DEF Grown
    <2>2. QED
        BY <1>1, <2>1 DEF Grown
<1>2. ASSUME NEW i \in 1..Len(s), s[i] = x PROVE \E j \in 1..Len(t) : t[j] = x
    <2>1. i \in 1..Len(t) /\ t[i] = x
        BY <1>2 DEF Grown
    <2>2. QED
        BY <2>1
<1>3. ASSUME x = v PROVE \E j \in 1..Len(t) : t[j] = x
    <2>1. Len(s) + 1 \in 1..Len(t) /\ t[Len(s) + 1] = x
        BY <1>3 DEF Grown
    <2>2. QED
        BY <2>1
<1>4. QED
    BY <1>1, <1>2, <1>3 DEF Recorded

\* A sequence without repetitions stays one when a new element joins.
LEMMA GrownDistinct ==
    ASSUME NEW s, NEW t, NEW v, Grown(s, t, v), NoRepeats(s), ~Recorded(s, v)
    PROVE  NoRepeats(t)
<1>1. \A i \in 1..Len(t) : i \in 1..Len(s) \/ i = Len(s) + 1
    BY DEF Grown
<1>2. QED
    BY <1>1 DEF Grown, NoRepeats, Recorded

\* When s and r grow by the same element, r still covers s.
LEMMA GrownCovers ==
    ASSUME NEW s, NEW t, NEW r, NEW u, NEW v, Grown(s, t, v), Grown(r, u, v),
           \A n \in 1..Len(s) : Recorded(r, s[n])
    PROVE  \A n \in 1..Len(t) : Recorded(u, t[n])
<1> SUFFICES ASSUME NEW n \in 1..Len(t) PROVE Recorded(u, t[n])
    OBVIOUS
<1>1. n \in 1..Len(s) \/ n = Len(s) + 1
    BY DEF Grown
<1>2. Recorded(r, t[n]) \/ t[n] = v
    BY <1>1 DEF Grown
<1>3. QED
    BY <1>2, GrownMember

\* The states of a chain grow by the new state.
LEMMA RootsGrow ==
    ASSUME NEW S, NEW s \in Seq(S), NEW v \in S
    PROVE  Grown(Roots(s), Roots(Append(s, v)), Append(s, v))
<1>1. Roots(s) \in Seq(Seq(S)) /\ Append(s, v) \in Seq(S)
    BY RootsType, ChainExtended
<1>2. Grown(Roots(s), Append(Roots(s), Append(s, v)), Append(s, v))
    BY <1>1, AppendGrows, Zenon
<1>3. QED
    BY <1>2, RootsAppend, Zenon

(***************************************************************************)
(* Types of what the actions compute.                                      *)
(***************************************************************************)

\* The fields of a request belong to its kind.
LEMMA RequestKinds ==
    ASSUME NEW r \in Request
    PROVE  /\ r.kind \in {"measure", "policy", "read_pcr"}
           /\ r.kind = "measure" => r.source \in Container /\ r.digest \in Digest
           /\ r.kind = "policy" => r.digest \in PolicyDigest
BY DEF Request, MeasureRequest, PolicyRequest, ReadRequest

\* Where the tasks are is a function of the tasks.
LEMMA PcType ==
    ASSUME TypeOK
    PROVE  pc \in [Proc -> PC]
BY DEF TypeOK

\* Types of what the module and the chip hold.
LEMMA GlobalTypes ==
    ASSUME TypeOK
    PROVE  /\ pcr \in Seq(Chain) /\ root_hash \in Chain
           /\ bpfima_commit_error \in Errno \union {"OK"}
BY DEF TypeOK

\* commit_check returns an error code, and a latched error as it is.
LEMMA CheckResult ==
    ASSUME TypeOK
    PROVE  /\ commit_check \in Errno \union {"OK"}
           /\ bpfima_commit_error # "OK" => commit_check = bpfima_commit_error
BY DEF TypeOK, commit_check, Errno

\* The value of an event and the root it leads to have the right type.
LEMMA EventTypes ==
    ASSUME TypeOK, NEW p \in Proc, req[p].kind # "read_pcr"
    PROVE  EventValue(p) \in Value /\ Append(root_hash, EventValue(p)) \in Chain
<1>1. req[p] \in Request
    BY DEF TypeOK
<1>2. CASE req[p].kind = "measure"
    <2>1. leaf_hash[req[p].source] \in Seq(Digest) /\ req[p].digest \in Digest
        BY <1>1, <1>2, RequestKinds DEF TypeOK
    <2>2. EventValue(p) \in Seq(Digest)
        BY <2>1, <1>2, ChainExtended DEF EventValue, bpfima_extend_hash
    <2>3. QED
        BY <2>2, ChainExtended DEF TypeOK, Chain, Value
<1>3. CASE req[p].kind = "policy"
    <2>1. EventValue(p) \in PolicyDigest
        BY <1>1, <1>3, RequestKinds DEF EventValue
    <2>2. QED
        BY <2>1, ChainExtended DEF TypeOK, Chain, Value
<1>4. QED
    BY <1>1, <1>2, <1>3, RequestKinds

\* extend_tpm_pcr changes the PCR only with a submitted command, in an epoch
\* that may use the hardware, and reports success only then.
LEMMA ExtendOutcomes ==
    ASSUME NEW o \in extend_tpm_pcr
    PROVE  /\ o.ret \in Errno \union {"OK"}
           /\ o.extended => o.started /\ hardware_allowed
           /\ o.ret = "OK" => o.extended
<1>1. CASE pcr_index_valid /\ bpfima_tpm_available /\ hardware_allowed /\ chip = "sha256"
    <2>1. \/ o \in {Outcome("OK", TRUE, TRUE)}
          \/ o \in {Outcome("ENOMEM", FALSE, FALSE)}
          \/ o \in {Outcome(e, TRUE, x) : e \in {"EIO", "ENODEV", "ENOMEM"}, x \in BOOLEAN}
        BY <1>1, SMT DEF extend_tpm_pcr, Outcome
    <2>2. CASE o \in {Outcome("OK", TRUE, TRUE)}
        BY <1>1, <2>2 DEF Outcome
    <2>3. CASE o \in {Outcome("ENOMEM", FALSE, FALSE)}
        BY <2>3 DEF Outcome, Errno
    <2>4. CASE o \in {Outcome(e, TRUE, x) : e \in {"EIO", "ENODEV", "ENOMEM"}, x \in BOOLEAN}
        BY <1>1, <2>4 DEF Outcome, Errno
    <2>5. QED
        BY <2>1, <2>2, <2>3, <2>4 DEF Outcome
<1>2. CASE ~(pcr_index_valid /\ bpfima_tpm_available /\ hardware_allowed /\ chip = "sha256")
    <2>1. \E e \in Errno : o = Outcome(e, FALSE, FALSE)
        BY <1>2, SMT DEF extend_tpm_pcr, Outcome, Errno
    <2>2. QED
        BY <2>1 DEF Outcome, Errno
<1>3. QED
    BY <1>1, <1>2

(***************************************************************************)
(* Conjuncts that most steps leave alone.                                  *)
(***************************************************************************)

\* Only publication changes the lists, the duplicate table and the root.
LEMMA ListsKept ==
    ASSUME LeafReplaysList, DedupExact, LeafInRoot, UNCHANGED <<listVars, root_hash>>
    PROVE  LeafReplaysList' /\ DedupExact' /\ LeafInRoot'
BY DEF LeafReplaysList, DedupExact, LeafInRoot, listVars, hash_exists

\* A step that touches neither the PCR nor the mode nor the root, neither
\* starts nor ends a publication and never clears an error keeps PcrInv.
LEMMA PcrKept ==
    ASSUME PcrInv,
           UNCHANGED <<pcr, hardware_anchored, software_committed, root_hash>>,
           bpfima_commit_error # "OK" => bpfima_commit_error' # "OK",
           \A q \in Proc : pc'[q] = "publish" <=> pc[q] = "publish",
           \A q \in Proc : pc[q] = "publish" => new_root'[q] = new_root[q]
    PROVE  PcrInv'
<1>1. \A q \in Proc : InFlight(q)' <=> InFlight(q)
    BY DEF InFlight
<1>2. ReplayedPcr' = ReplayedPcr
    BY DEF ReplayedPcr, Roots
<1>3. QED
    BY <1>1, <1>2 DEF PcrInv, InFlight, OneMore

(***************************************************************************)
(* The invariant holds initially.                                          *)
(***************************************************************************)

\* A freshly loaded module has nothing committed and no call under way.
LEMMA InitInv == Init => TransactionInv
<1> SUFFICES ASSUME Init PROVE TransactionInv
    OBVIOUS
<1>1. TypeOK
    <2>1. NoRequest \in Request
        BY DEF NoRequest, Request, ReadRequest
    <2>2. /\ Zero \in Seq(Chain) /\ Zero \in Chain /\ Zero \in Value
          /\ <<>> \in Seq(Digest)
        BY EmptyChain DEF Zero, Chain, Value
    <2>3. "idle" \in PC
        BY DEF PC
    <2>4. /\ measurement_list \in [Container -> Seq(Digest)]
          /\ leaf_hash \in [Container -> Seq(Digest)]
          /\ measurement_count \in [Container -> Nat]
          /\ sha256_hash_table \subseteq Digest \X Container
        BY <2>2 DEF Init, Zero
    <2>5. /\ pc \in [Proc -> PC]
          /\ req \in [Proc -> Request]
          /\ value \in [Proc -> Value]
          /\ new_root \in [Proc -> Chain]
          /\ ret \in [Proc -> Errno \union {"OK"}]
        BY <2>1, <2>2, <2>3 DEF Init
    <2>6. /\ chip \in ChipState
          /\ pcr_index_valid \in BOOLEAN
          /\ hardware_anchored \in BOOLEAN
          /\ software_committed \in BOOLEAN
        BY Zenon DEF Init
    <2>7. /\ pcr \in Seq(Chain)
          /\ commit_mutex \in Proc \union {NoProc}
          /\ bpfima_commit_error \in Errno \union {"OK"}
          /\ root_hash \in Chain
        BY <2>2 DEF Init
    <2>8. QED
        BY <2>4, <2>5, <2>6, <2>7, Zenon DEF TypeOK
<1>2. MutexHeld
    BY ConstAssumption DEF Init, MutexHeld, Locked
<1>3. WorkInv /\ ResultInv
    BY DEF Init, WorkInv, ResultInv, NoRequest
<1>4. PcrInv
    BY DEF Init, PcrInv, InFlight, ReplayedPcr
<1>5. LeafReplaysList /\ DedupExact /\ LeafInRoot
    BY EmptyChain DEF Init, LeafReplaysList, DedupExact, LeafInRoot, hash_exists, Zero, Recorded, NoRepeats
<1>6. QED
    BY <1>1, <1>2, <1>3, <1>4, <1>5 DEF TransactionInv

(***************************************************************************)
(* Steps of a task. TaskTypes is the part of TypeOK about the calls.       *)
(***************************************************************************)
TaskTypes ==
    /\ commit_mutex \in Proc \union {NoProc}
    /\ pc \in [Proc -> PC]
    /\ req \in [Proc -> Request]
    /\ value \in [Proc -> Value]
    /\ new_root \in [Proc -> Chain]
    /\ ret \in [Proc -> Errno \union {"OK"}]

\* Leaving a transaction is well typed.
LEMMA LeaveTypes ==
    ASSUME TypeOK, NEW p \in Proc, NEW e \in Errno \union {"OK", "DUP"}, Leave(p, e),
           req' = req
    PROVE  TaskTypes'
<1>1. Zero \in Value /\ Zero \in Chain
    BY EmptyChain DEF Zero, Value, Chain
<1>2. kfunc_result(e) \in Errno \union {"OK"}
    BY DEF kfunc_result
<1>3. "done" \in PC
    BY DEF PC
<1>4. QED
    BY <1>1, <1>2, <1>3 DEF TypeOK, TaskTypes, Leave, Goto

\* A task that leaves releases the mutex it held, or never took.
LEMMA LeaveMutex ==
    ASSUME TypeOK, MutexHeld, NEW p \in Proc, NEW e, Leave(p, e),
           commit_mutex \in {p, NoProc}
    PROVE  MutexHeld'
BY ConstAssumption DEF TypeOK, MutexHeld, Leave, Goto, Locked

\* The other tasks are where they were and have what they had.
LEMMA LeaveOthers ==
    ASSUME TypeOK, NEW p \in Proc, NEW e, Leave(p, e)
    PROVE  /\ pc'[p] = "done"
           /\ ret'[p] = kfunc_result(e)
           /\ \A q \in Proc \ {p} : /\ pc'[q] = pc[q]
                                    /\ value'[q] = value[q]
                                    /\ new_root'[q] = new_root[q]
                                    /\ ret'[q] = ret[q]
BY DEF TypeOK, Leave, Goto

\* Types of the global state after a step that publishes nothing.
LEMMA TypeKept ==
    ASSUME TypeOK, UNCHANGED <<pcr_index_valid, listVars, root_hash, software_committed>>,
           chip' \in ChipState, pcr' \in Seq(Chain),
           bpfima_commit_error' \in Errno \union {"OK"},
           hardware_anchored' \in BOOLEAN,
           TaskTypes'
    PROVE  TypeOK'
BY Zenon DEF TypeOK, TaskTypes, listVars

\* A task alone in the transaction: no other task works, reads or publishes.
LEMMA AloneInside ==
    ASSUME TypeOK, MutexHeld, NEW p \in Proc, commit_mutex \in {p, NoProc}
    PROVE  \A q \in Proc \ {p} : pc[q] \notin Locked
BY ConstAssumption DEF TypeOK, MutexHeld

\* What holds of the tasks that a step does not move.
LEMMA OthersKept ==
    ASSUME TypeOK, WorkInv, ResultInv, NEW p \in Proc,
           UNCHANGED <<listVars, root_hash>>,
           \A q \in Proc \ {p} : /\ pc[q] \notin Locked
                                 /\ pc'[q] = pc[q]
                                 /\ req'[q] = req[q]
                                 /\ ret'[q] = ret[q]
    PROVE  \A q \in Proc \ {p} :
               /\ pc'[q] \in {"check", "prepare", "extend", "publish"} => req'[q].kind # "read_pcr"
               /\ pc'[q] \notin {"extend", "publish", "read"}
               /\ req'[q].kind = "measure" /\ (\/ pc'[q] \in {"trim", "aggregate"}
                                               \/ pc'[q] = "done" /\ ret'[q] = "OK")
                      => hash_exists(req[q].digest, req[q].source)'
BY DEF WorkInv, ResultInv, Locked, hash_exists, listVars

(***************************************************************************)
(* Leaving the transaction.                                                *)
(***************************************************************************)

\* The ways out of a transaction: the error may have been latched, and a
\* result of success must be backed by the duplicate table.
LEMMA LeavingInv ==
    ASSUME TransactionInv, NEW p \in Proc, NEW e \in Errno \union {"OK", "DUP"}, Leave(p, e),
           commit_mutex \in {p, NoProc},
           UNCHANGED <<chip, pcr_index_valid, hardware_anchored, software_committed, listVars,
                       root_hash, req>>,
           pcr' \in Seq(Chain), PcrInv',
           bpfima_commit_error' \in Errno \union {"OK"},
           req[p].kind = "measure" /\ kfunc_result(e) = "OK"
               => hash_exists(req[p].digest, req[p].source)
    PROVE  TransactionInv'
<1> USE DEF TransactionInv
<1>1. TypeOK'
    BY LeaveTypes, TypeKept, Zenon DEF TypeOK
<1>2. MutexHeld'
    BY LeaveMutex
<1>3. LeafReplaysList' /\ DedupExact' /\ LeafInRoot'
    BY ListsKept
<1>4. \A q \in Proc \ {p} : pc[q] \notin Locked
    BY AloneInside
<1>5. WorkInv'
    BY <1>4, LeaveOthers, OthersKept DEF WorkInv
<1>6. ResultInv'
    BY <1>4, LeaveOthers, OthersKept DEF ResultInv, hash_exists, listVars
<1>7. QED
    BY <1>1, <1>2, <1>3, <1>5, <1>6

\* Leaving without having touched the PCR.
LEMMA LeavingPcr ==
    ASSUME TransactionInv, NEW p \in Proc, NEW e, Leave(p, e), pc[p] # "publish",
           UNCHANGED <<pcr, hardware_anchored, software_committed, root_hash>>,
           bpfima_commit_error # "OK" => bpfima_commit_error' # "OK"
    PROVE  PcrInv' /\ pcr' \in Seq(Chain)
<1>1. /\ \A q \in Proc : pc'[q] = "publish" <=> pc[q] = "publish"
      /\ \A q \in Proc : pc[q] = "publish" => new_root'[q] = new_root[q]
    BY LeaveOthers DEF TransactionInv
<1>2. QED
    BY <1>1, PcrKept DEF TransactionInv, TypeOK
=============================================================================
