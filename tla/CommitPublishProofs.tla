------------------------ MODULE CommitPublishProofs -------------------------
(***************************************************************************)
(* The two steps that change what is recorded, the TPM command and the     *)
(* publication, keep the invariant of the transaction.                     *)
(***************************************************************************)
EXTENDS CommitFacts

USE SMTT(30), ZenonT(30)

\* Facts about a task that has prepared its event.
LEMMA PreparedFacts ==
    ASSUME TransactionInv, NEW p \in Proc, pc[p] \in {"extend", "publish"}
    PROVE  /\ commit_mutex = p
           /\ bpfima_commit_error = "OK"
           /\ req[p] \in Request /\ req[p].kind # "read_pcr"
           /\ value[p] \in Value /\ new_root[p] \in Chain
           /\ new_root[p] = Append(root_hash, value[p])
           /\ value[p] = EventValue(p)
           /\ req[p].kind = "measure" => ~hash_exists(req[p].digest, req[p].source)
           /\ \A q \in Proc \ {p} : pc[q] \notin Locked
<1>1. commit_mutex = p
    BY DEF TransactionInv, MutexHeld, Locked
<1>2. \A q \in Proc \ {p} : pc[q] \notin Locked
    BY <1>1, AloneInside DEF TransactionInv
<1>3. QED
    BY <1>1, <1>2 DEF TransactionInv, TypeOK, WorkInv, bpfima_extend_hash

\* The TPM step: either the PCR takes the root and the commit goes on, or the
\* epoch has no TPM, or the call fails, with the error latched whenever the
\* PCR may have changed.
LEMMA ExtendTpmInv ==
    ASSUME TransactionInv, NEW p \in Proc, ExtendTpm(p)
    PROVE  TransactionInv'
<1> USE DEF TransactionInv
<1>1. /\ UNCHANGED <<chip, pcr_index_valid, software_committed, listVars, root_hash,
                     histVars, req, entries_to_delete>>
      /\ pc[p] = "extend"
    BY DEF ExtendTpm
<1>2. PICK o \in extend_tpm_pcr :
          /\ pcr' = IF o.extended THEN Append(pcr, new_root[p]) ELSE pcr
          /\ IF GivesUp(o)
             THEN /\ bpfima_commit_error' =
                         IF Latches(o) THEN commit_fail(o.ret) ELSE bpfima_commit_error
                  /\ Leave(p, IF Latches(o) THEN commit_fail(o.ret) ELSE o.ret)
                  /\ UNCHANGED hardware_anchored
             ELSE /\ hardware_anchored' = (hardware_anchored \/ o.ret = "OK")
                  /\ pc' = [pc EXCEPT ![p] = "publish"]
                  /\ UNCHANGED <<bpfima_commit_error, commit_mutex, value, new_root, ret>>
    BY DEF ExtendTpm, Goto
<1>3. /\ o.ret \in Errno \union {"OK"}
      /\ o.extended => o.started /\ hardware_allowed
      /\ o.ret = "OK" => o.extended
    BY <1>2, ExtendOutcomes
<1>4. /\ commit_mutex = p
      /\ bpfima_commit_error = "OK"
      /\ new_root[p] \in Chain
      /\ value[p] \in Value
      /\ new_root[p] = Append(root_hash, value[p])
      /\ \A q \in Proc \ {p} : pc[q] \notin Locked
    BY <1>1, PreparedFacts
<1>5. \A q \in Proc : ~InFlight(q)
    BY <1>1, <1>4 DEF InFlight, Locked
<1>6. pcr = ReplayedPcr
    BY <1>4, <1>5 DEF PcrInv
<1>7. pcr' \in Seq(Chain)
    BY <1>2, <1>3, <1>4, ChainExtended DEF TypeOK
<1>8. CASE GivesUp(o)
    <2>1. /\ bpfima_commit_error' = IF Latches(o) THEN commit_fail(o.ret) ELSE bpfima_commit_error
          /\ Leave(p, IF Latches(o) THEN commit_fail(o.ret) ELSE o.ret)
          /\ UNCHANGED hardware_anchored
        BY <1>2, <1>8
    <2>2. commit_fail(o.ret) = o.ret /\ o.ret # "OK" /\ o.ret \in Errno
        BY <1>3, <1>4, <1>8 DEF commit_fail, GivesUp
    <2>3. Leave(p, o.ret)
        BY <2>1, <2>2
    <2>4. bpfima_commit_error' \in Errno \union {"OK"}
        BY <2>1, <2>2, <1>4
    <2>5. \A q \in Proc : pc'[q] # "publish"
        BY <1>4, <2>3, LeaveOthers DEF Locked
    <2>6. ReplayedPcr' = ReplayedPcr
        BY <1>1, <2>1 DEF ReplayedPcr, Roots
    <2>7. PcrInv'
        <3>1. (~software_committed => root_hash = Zero)'
            BY <1>1 DEF PcrInv
        <3>2. CASE ~o.extended
            BY <1>2, <1>6, <2>5, <2>6, <3>1, <3>2 DEF PcrInv, InFlight
        <3>3. CASE o.extended
            <4>1. bpfima_commit_error' # "OK"
                BY <1>3, <2>1, <2>2, <3>3 DEF Latches
            <4>2. pcr' = Append(ReplayedPcr, new_root[p]) /\ ReplayedPcr \in Seq(Chain)
                BY <1>2, <1>6, <3>3 DEF TypeOK
            <4>3. OneMore(ReplayedPcr, pcr') /\ pcr'[Len(pcr')] = new_root[p]
                BY <1>4, <4>2, AppendIsOneMore
            <4>4. OneMore(root_hash, new_root[p])
                BY <1>4, AppendIsOneMore, GlobalTypes DEF Chain
            <4>5. OneMore(ReplayedPcr, pcr)' /\ OneMore(root_hash, pcr[Len(pcr)])'
                BY <1>1, <2>6, <4>3, <4>4 DEF OneMore
            <4>6. QED
                BY <2>5, <3>1, <4>1, <4>5 DEF PcrInv, InFlight
        <3>4. QED
            BY <1>3, <3>2, <3>3
    <2>9. kfunc_result(o.ret) # "OK"
        BY <2>2 DEF kfunc_result, Errno
    <2>10. QED
        BY <1>1, <1>4, <1>7, <2>1, <2>2, <2>3, <2>4, <2>7, <2>9, LeavingInv
<1>9. CASE ~GivesUp(o)
    <2>1. /\ hardware_anchored' = (hardware_anchored \/ o.ret = "OK")
          /\ pc' = [pc EXCEPT ![p] = "publish"]
          /\ UNCHANGED <<bpfima_commit_error, commit_mutex, value, new_root, ret>>
        BY <1>2, <1>9
    <2>2. TypeOK'
        <3>1. TaskTypes'
            BY <1>1, <2>1 DEF TypeOK, TaskTypes, PC, Locked
        <3>2. hardware_anchored' \in BOOLEAN
            BY <2>1, Zenon
        <3>3. QED
            BY <1>1, <1>7, <2>1, <3>1, <3>2, TypeKept, Zenon DEF TypeOK, histVars
    <2>3. LeafReplaysList' /\ DedupExact' /\ LeafInRoot'
        BY <1>1, ListsKept
    <2>4. MutexHeld'
        BY <1>1, <2>1 DEF MutexHeld, TypeOK, Locked
    <2>5. /\ \A q \in Proc \ {p} : pc'[q] = pc[q] /\ req'[q] = req[q] /\ ret'[q] = ret[q]
          /\ pc'[p] = "publish"
          /\ EventValue(p)' = EventValue(p)
        BY <1>1, <2>1 DEF TypeOK, EventValue, listVars
    <2>6. WorkInv'
        <3>1. /\ req'[p].kind # "read_pcr"
              /\ bpfima_commit_error' = "OK"
              /\ value'[p] = EventValue(p)'
              /\ new_root'[p] = bpfima_extend_hash(root_hash, value[p])'
              /\ req'[p].kind = "measure" => ~hash_exists(req[p].digest, req[p].source)'
            BY <1>1, <1>4, <2>1, <2>5, PreparedFacts
               DEF bpfima_extend_hash, hash_exists, listVars
        <3>2. QED
            BY <1>1, <1>4, <2>5, <3>1, OthersKept DEF WorkInv
    <2>7. ResultInv'
        BY <1>1, <1>4, <2>5, OthersKept DEF ResultInv
    <2>8. PcrInv'
        <3>1. (~software_committed => root_hash = Zero)'
            BY <1>1 DEF PcrInv
        <3>2. \A q \in Proc : InFlight(q)' => q = p
            BY <1>4, <2>5 DEF InFlight, Locked
        <3>3. CASE o.ret = "OK"
            <4>1. pcr' = Append(ReplayedPcr, new_root[p]) /\ hardware_anchored'
                BY <1>2, <1>3, <1>6, <2>1, <3>3, Zenon
            <4>2. ReplayedPcr' = Roots(root_hash)
                BY <1>1, <4>1 DEF ReplayedPcr, Roots
            <4>3. ReplayedPcr = Roots(root_hash)
                BY <1>3, <3>3, RootsEmpty DEF ReplayedPcr, hardware_allowed, PcrInv
            <4>4. InFlight(p)' /\ pcr' = Append(ReplayedPcr', new_root'[p])
                BY <2>1, <2>5, <4>1, <4>2, <4>3 DEF InFlight
            <4>5. QED
                BY <3>1, <3>2, <4>4 DEF PcrInv, InFlight
        <3>4. CASE o.ret # "OK"
            <4>1. ~hardware_anchored /\ ~hardware_anchored' /\ ~o.extended
                BY <1>3, <1>9, <2>1, <3>4, Zenon DEF GivesUp
            <4>2. pcr' = Zero /\ ReplayedPcr' = Zero
                BY <1>2, <1>6, <4>1 DEF ReplayedPcr
            <4>3. QED
                BY <3>1, <4>1, <4>2 DEF PcrInv, InFlight
        <3>5. QED
            BY <3>3, <3>4
    <2>9. QED
        BY <2>2, <2>3, <2>4, <2>6, <2>7, <2>8
<1>10. QED
    BY <1>8, <1>9

\* Publication catches up with the PCR and with the duplicate table.
LEMMA PublishInv ==
    ASSUME TransactionInv, NEW p \in Proc, Publish(p)
    PROVE  TransactionInv'
<1> USE DEF TransactionInv
<1> DEFINE c == req[p].source
           d == req[p].digest
<1>1. /\ UNCHANGED <<tpmVars, bpfima_commit_error, hardware_anchored, commit_mutex, req,
                     value, new_root, entries_to_delete, ret>>
      /\ pc[p] = "publish"
      /\ root_hash' = new_root[p]
      /\ software_committed' = TRUE
      /\ pc' = [pc EXCEPT ![p] = "trim"]
    BY DEF Publish, Goto
<1>2. /\ commit_mutex = p
      /\ bpfima_commit_error = "OK"
      /\ req[p] \in Request /\ req[p].kind # "read_pcr"
      /\ value[p] \in Value /\ new_root[p] \in Chain
      /\ root_hash' = Append(root_hash, value[p])
      /\ value[p] = EventValue(p)
      /\ req[p].kind = "measure" => ~hash_exists(d, c)
      /\ \A q \in Proc \ {p} : pc[q] \notin Locked
    BY <1>1, PreparedFacts
<1>3. /\ pc'[p] = "trim"
      /\ \A q \in Proc \ {p} : pc'[q] = pc[q]
    BY <1>1 DEF TypeOK
<1>4. root_hash \in Seq(Value)
    BY DEF TypeOK, Chain
<1>5. Grown(root_hash, root_hash', value[p])
    BY <1>2, <1>4, AppendGrows
<1>6. MutexHeld'
    BY <1>1 DEF MutexHeld, TypeOK, Locked
<1>7. PcrInv'
    <2>1. \A q \in Proc : ~InFlight(q)'
        BY <1>2, <1>3 DEF InFlight, Locked
    <2>2. CASE hardware_anchored
        <3>1. pcr = Append(Roots(root_hash), new_root[p])
            BY <1>1, <2>2 DEF PcrInv, InFlight, ReplayedPcr
        <3>2. Roots(Append(root_hash, value[p])) = Append(Roots(root_hash), Append(root_hash, value[p]))
            BY <1>2, <1>4, RootsAppend
        <3>3. pcr = Roots(root_hash')
            BY <1>1, <1>2, <3>1, <3>2, Zenon
        <3>4. pcr' = ReplayedPcr'
            BY <1>1, <2>2, <3>3 DEF ReplayedPcr, tpmVars, Roots
        <3>5. QED
            BY <1>1, <2>1, <3>4 DEF PcrInv, InFlight
    <2>3. CASE ~hardware_anchored
        <3>1. pcr = ReplayedPcr
            BY <1>2, <2>3 DEF PcrInv, InFlight
        <3>2. pcr' = ReplayedPcr'
            BY <1>1, <2>3, <3>1 DEF ReplayedPcr, tpmVars
        <3>3. QED
            BY <1>1, <2>1, <3>2 DEF PcrInv, InFlight
    <2>4. QED
        BY <2>2, <2>3
<1>8. WorkInv'
    BY <1>1, <1>2, <1>3 DEF WorkInv, Locked
<1>9. TaskTypes'
    BY <1>1 DEF TypeOK, TaskTypes, PC, Locked
<1>10. /\ chip' \in ChipState /\ pcr_index_valid' \in BOOLEAN /\ pcr' \in Seq(Chain)
      /\ bpfima_commit_error' \in Errno \union {"OK"}
      /\ hardware_anchored' \in BOOLEAN /\ software_committed' \in BOOLEAN
    BY <1>1, Zenon DEF TypeOK, tpmVars
<1>11. root_hash' \in Chain
    BY <1>1, <1>2 DEF TypeOK
<1>12. CASE req[p].kind = "policy"
    <2>1. UNCHANGED listVars
        BY <1>12 DEF Publish
    <2>2. TypeOK'
        BY <1>9, <1>10, <1>11, <2>1, Zenon DEF TypeOK, TaskTypes, listVars
    <2>3. LeafReplaysList' /\ DedupExact'
        BY <2>1 DEF LeafReplaysList, DedupExact, listVars, hash_exists
    <2>4. LeafInRoot'
        <3> SUFFICES ASSUME NEW b \in Container, NEW n \in 1..Len(leaf_hash[b])
                     PROVE  Recorded(root_hash', Roots(leaf_hash[b])[n])
            BY <2>1 DEF LeafInRoot, listVars
        <3>1. Recorded(root_hash, Roots(leaf_hash[b])[n])
            BY DEF LeafInRoot
        <3>2. QED
            BY <1>5, <3>1, GrownMember
    <2>5. ResultInv'
        BY <1>1, <1>2, <1>3, <1>12, <2>1 DEF ResultInv, hash_exists, listVars, Locked
    <2>6. QED
        BY <1>6, <1>7, <1>8, <2>2, <2>3, <2>4, <2>5
<1>13. CASE req[p].kind = "measure"
    <2>1. /\ measurement_list' = [measurement_list EXCEPT ![c] = Append(@, d)]
          /\ measurement_count' = [measurement_count EXCEPT ![c] = @ + 1]
          /\ leaf_hash' = [leaf_hash EXCEPT ![c] = value[p]]
          /\ sha256_hash_table' = sha256_hash_table \union {<<d, c>>}
        BY <1>13 DEF Publish
    <2>2. /\ c \in Container /\ d \in Digest
          /\ measurement_list[c] \in Seq(Digest)
          /\ Len(measurement_list[c]) \in Nat
        BY <1>2, <1>13, RequestKinds, ChainDomain DEF TypeOK
    <2>3. /\ leaf_hash[c] = measurement_list[c]
          /\ value[p] = Append(measurement_list[c], d)
        BY <1>2, <1>13, <2>2, Zenon DEF LeafReplaysList, EventValue, bpfima_extend_hash
    <2> HIDE DEF c, d
    <2>4. /\ measurement_list'[c] = Append(measurement_list[c], d)
          /\ leaf_hash'[c] = Append(measurement_list[c], d)
          /\ measurement_count'[c] = measurement_count[c] + 1
          /\ \A b \in Container \ {c} : /\ measurement_list'[b] = measurement_list[b]
                                        /\ leaf_hash'[b] = leaf_hash[b]
                                        /\ measurement_count'[b] = measurement_count[b]
        BY <2>1, <2>2, <2>3 DEF TypeOK
    <2>5. /\ Append(measurement_list[c], d) \in Seq(Digest)
          /\ Len(Append(measurement_list[c], d)) = Len(measurement_list[c]) + 1
        BY <2>2, ChainExtended
    <2>6. TypeOK'
        <3>1. /\ measurement_list' \in [Container -> Seq(Digest)]
              /\ leaf_hash' \in [Container -> Seq(Digest)]
            BY <2>1, <2>2, <2>3, <2>5 DEF TypeOK
        <3>2. /\ measurement_count' \in [Container -> Nat]
              /\ sha256_hash_table' \subseteq Digest \X Container
            BY <2>1, <2>2 DEF TypeOK
        <3>3. QED
            BY <1>9, <1>10, <1>11, <3>1, <3>2, Zenon DEF TypeOK, TaskTypes
    <2>7. LeafReplaysList'
        BY <2>2, <2>4, <2>5, Zenon DEF LeafReplaysList
    <2>8. DedupExact'
        <3>1. Grown(measurement_list[c], measurement_list'[c], d)
            BY <2>2, <2>4, AppendGrows
        <3>2. ASSUME NEW e \in Digest
              PROVE  <<e, c>> \in sha256_hash_table' <=> Recorded(measurement_list'[c], e)
            <4>1. hash_exists(e, c) <=> Recorded(measurement_list[c], e)
                BY <2>2 DEF DedupExact
            <4>2. Recorded(measurement_list'[c], e) <=> Recorded(measurement_list[c], e) \/ e = d
                BY <3>1, GrownMember
            <4>3. <<e, c>> \in sha256_hash_table' <=> hash_exists(e, c) \/ e = d
                BY <2>1, <2>2 DEF hash_exists
            <4>4. QED
                BY <4>1, <4>2, <4>3
        <3>3. ASSUME NEW b \in Container \ {c}, NEW e \in Digest
              PROVE  <<e, b>> \in sha256_hash_table' <=> Recorded(measurement_list'[b], e)
            <4>1. <<e, b>> \in sha256_hash_table' <=> hash_exists(e, b)
                BY <2>1 DEF hash_exists
            <4>2. QED
                BY <2>4, <4>1 DEF DedupExact
        <3>4. NoRepeats(measurement_list'[c])
            <4>1. NoRepeats(measurement_list[c]) /\ ~Recorded(measurement_list[c], d)
                BY <1>2, <1>13, <2>2 DEF DedupExact
            <4>2. QED
                BY <3>1, <4>1, GrownDistinct
        <3>5. \A b \in Container \ {c} : NoRepeats(measurement_list'[b])
            BY <2>4 DEF DedupExact
        <3>6. QED
            BY <3>2, <3>3, <3>4, <3>5 DEF DedupExact, hash_exists
    <2>9. LeafInRoot'
        <3>1. ASSUME NEW b \in Container \ {c}, NEW n \in 1..Len(leaf_hash'[b])
              PROVE  Recorded(root_hash', Roots(leaf_hash'[b])[n])
            <4>1. leaf_hash'[b] = leaf_hash[b]
                BY <2>4
            <4>2. Recorded(root_hash, Roots(leaf_hash'[b])[n])
                BY <4>1 DEF LeafInRoot
            <4>3. QED
                BY <1>5, <4>2, GrownMember
        <3>2. \A n \in 1..Len(leaf_hash'[c]) : Recorded(root_hash', Roots(leaf_hash'[c])[n])
            <4>1. /\ Grown(Roots(leaf_hash[c]), Roots(leaf_hash'[c]), leaf_hash'[c])
                  /\ leaf_hash[c] \in Seq(Digest) /\ leaf_hash'[c] \in Seq(Digest)
                BY <2>2, <2>3, <2>4, <2>5, RootsGrow
            <4>2. /\ Len(Roots(leaf_hash[c])) = Len(leaf_hash[c])
                  /\ Len(Roots(leaf_hash'[c])) = Len(leaf_hash'[c])
                BY <4>1, RootsType
            <4>3. Grown(root_hash, root_hash', leaf_hash'[c])
                BY <1>5, <2>3, <2>4
            <4>4. \A n \in 1..Len(leaf_hash[c]) : Recorded(root_hash, Roots(leaf_hash[c])[n])
                BY <2>2 DEF LeafInRoot
            <4>5. QED
                BY <4>1, <4>2, <4>3, <4>4, GrownCovers
        <3>3. QED
            BY <3>1, <3>2 DEF LeafInRoot
    <2>10. ResultInv'
        BY <1>1, <1>2, <1>3, <2>1 DEF ResultInv, hash_exists, Locked, c, d
    <2>11. QED
        BY <1>6, <1>7, <1>8, <2>6, <2>7, <2>8, <2>9, <2>10
<1>14. QED
    BY <1>2, <1>12, <1>13, RequestKinds
=============================================================================
