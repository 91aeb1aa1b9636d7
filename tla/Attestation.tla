---------------------------- MODULE Attestation -----------------------------
(***************************************************************************)
(* The Go verifier against a running kernel. The kernel is Ledger, the     *)
(* promise that CommitLedgerProofs shows the commit transaction to keep;   *)
(* around it stand the measurement lists and the trimmed history, which    *)
(* evidence is collected from. A hash chain is the sequence of values      *)
(* extended, so equal hashes mean equal sequences.                         *)
(*                                                                         *)
(* A measurement list or the history is read by position, a chunk at a     *)
(* time: each line is read at a moment of its own from the file, or from a *)
(* copy of it, which the tool may have written with a chunk missing, cut   *)
(* short or written twice.                                                 *)
(***************************************************************************)
EXTENDS Integers, Sequences, SequencesExt

CONSTANTS
    Container,      \* namespaces with a measurement list
    Digest,         \* template hashes of events
    PolicyDigest,   \* hashes of policies
    MaxLedger,      \* bound: no event begins once this many are published
    MaxAttempts,    \* bound on calls of Attest
    HistoryMax,     \* merkle_history_max_size
    Fault,          \* what may go wrong: subset of Faults
    Torn,           \* a line that does not parse or validate
    Live            \* the reader is on the file, not on a copy

VARIABLES
    ledger, register, pending, mode, sealed,
    commit,         \* "idle", "extended", "published", "detached"
    event,          \* the event whose root is in the PCR and not published
    lists,          \* measurement list of each namespace
    merkle_root_history,
    entries_to_delete,
    trimmed,        \* a trim has taken lines from the history
    quote,          \* the last PCR value read, and the lists it covers
    v,              \* the Verifier
    stage,          \* where the Verifier or its caller is
    asked,          \* the namespace attested
    attempts

L == INSTANCE Ledger

ledgerVars == <<ledger, register, pending, mode, sealed>>
kernelVars == <<commit, event, lists, merkle_root_history, entries_to_delete, trimmed>>
verifierVars == <<v, stage, asked, attempts>>
vars == <<ledgerVars, kernelVars, quote, verifierVars>>

Faults == {"seal", "software", "trim", "dump", "rewind"}
Zero == <<>>

-----------------------------------------------------------------------------
(* The kernel *)

Event == [container : Container, digest : Digest] \cup [policy : PolicyDigest]
IsMeasurement(e) == "container" \in DOMAIN e
NoEvent == <<>>

\* The value an event extends the root with: the new leaf, or the policy's hash.
value(e) == IF IsMeasurement(e) THEN Append(lists[e.container], e.digest) ELSE e.policy

\* Duplicates are not committed.
MayCommit(e) ==
    /\ commit = "idle" /\ ~sealed
    /\ Len(ledger) < MaxLedger
    /\ IsMeasurement(e) => e.digest \notin ToSet(lists[e.container])

PublishEvent(e) ==
    /\ lists' = IF IsMeasurement(e) THEN [lists EXCEPT ![e.container] = value(e)] ELSE lists
    /\ merkle_root_history' = Append(merkle_root_history, value(e))
    /\ commit' = "published"
    /\ event' = NoEvent
    /\ UNCHANGED <<entries_to_delete, trimmed, quote, verifierVars>>

ExtendPcr(e) ==
    /\ MayCommit(e)
    /\ pending' = Append(ledger, value(e))
    /\ L!Extend
    /\ commit' = "extended" /\ event' = e
    /\ UNCHANGED <<lists, merkle_root_history, entries_to_delete, trimmed, quote, verifierVars>>

Publish ==
    /\ commit = "extended"
    /\ L!Publish
    /\ PublishEvent(event)

CommitWithoutTpm(e) ==
    /\ "software" \in Fault /\ MayCommit(e)
    /\ ledger' = Append(ledger, value(e))
    /\ L!CommitSoftware
    /\ PublishEvent(e)

\* An error is latched: the PCR may have taken a root that is never published.
Latch(e) ==
    /\ "seal" \in Fault /\ MayCommit(e)
    /\ \/ UNCHANGED <<register, event>>
       \/ register' = Append(register, Append(ledger, value(e))) /\ event' = e
    /\ L!Seal
    /\ UNCHANGED <<commit, lists, merkle_root_history, entries_to_delete, trimmed, quote, verifierVars>>

\* The end of a commit: a history within its bound is left alone, as is one
\* for which no aggregate can be allocated. Otherwise the oldest half goes.
TrimSize == Len(merkle_root_history) \div 2

Trim ==
    /\ commit = "published"
    /\ \/ /\ commit' = "idle"
          /\ UNCHANGED <<merkle_root_history, entries_to_delete, trimmed>>
       \/ /\ "trim" \in Fault /\ Len(merkle_root_history) > HistoryMax
          /\ commit' = "detached"
          /\ entries_to_delete' = SubSeq(merkle_root_history, 1, TrimSize)
          /\ merkle_root_history' =
                 SubSeq(merkle_root_history, TrimSize + 1, Len(merkle_root_history))
          /\ trimmed' = TRUE
    /\ UNCHANGED <<ledgerVars, event, lists, quote, verifierVars>>

\* The aggregate, the chain of the values taken out, goes first; or they do.
Aggregate ==
    /\ commit = "detached"
    /\ commit' = "idle"
    /\ entries_to_delete' = <<>>
    /\ merkle_root_history' \in {<<entries_to_delete>> \o merkle_root_history,
                                 entries_to_delete \o merkle_root_history}
    /\ UNCHANGED <<ledgerVars, event, lists, trimmed, quote, verifierVars>>

-----------------------------------------------------------------------------
(* Collecting evidence *)

\* What the TPM reports, which does not wait for the commit mutex. With it, for
\* the properties, the lists whose every entry it covers.
ReadPcr ==
    /\ stage \notin {"ready", "target", "find", "leaves"}
    /\ quote' = [value |-> register,
                 lists |-> IF IsMeasurement(event)
                           THEN [lists EXCEPT ![event.container] = value(event)]
                           ELSE lists]
    /\ quote' # quote
    /\ UNCHANGED <<ledgerVars, kernelVars, verifierVars>>

\* What the tool's copy of a file may hold: all lines; a chunk lost because the
\* destination could not be opened; the last line cut; everything twice, after
\* the final dump of bpfima-tool unload.
Dumps(lines) ==
    {lines} \cup
    IF "dump" \notin Fault \/ lines = <<>> THEN {}
    ELSE {RemoveAt(lines, i) : i \in 1..Len(lines)}
         \cup {Append(Front(lines), Torn), lines \o lines}

Source(lines) == {Live} \cup Dumps(lines)

-----------------------------------------------------------------------------
(* The verifier: two measurement.List readers and an emulated PCR *)

NewList(source) == [source |-> source, pos |-> 0, aggregate |-> Zero, current |-> Zero]

\* The file a list is on, as it is now.
File(name) == IF name = "target" THEN lists[asked] ELSE merkle_root_history

Lines(name) == IF v[name].source = Live THEN File(name) ELSE v[name].source

\* ParseLeaf or ParseHashedFile, and Validate.
IsValid(line) == line # Torn

\* PCR.Extend.
PcrExtend(pcr, digest) == Append(pcr, digest)

AtEof(name) == v[name].pos >= Len(Lines(name))
NextLine(name) == Lines(name)[v[name].pos + 1]

\* List.Next on a line that parses and validates.
ListNext(list, line) ==
    [list EXCEPT !.pos = @ + 1, !.aggregate = Append(@, line), !.current = line]

\* List.Reset.
ListReset(list) == NewList(list.source)

OpenTarget(c) ==
    /\ stage = "start"
    /\ asked' = c
    /\ \E source \in Source(lists[c]) : v' = [v EXCEPT !.target = NewList(source)]
    /\ stage' = "opened"
    /\ UNCHANGED <<ledgerVars, kernelVars, quote, attempts>>

New ==
    /\ stage = "opened"
    /\ \E source \in Source(merkle_root_history) :
           v' = [v EXCEPT !.leaves = NewList(source), !.expected = quote.value]
    /\ stage' = "ready"
    /\ UNCHANGED <<ledgerVars, kernelVars, quote, asked, attempts>>

\* Mutant: the flag is not cleared.
Reset_KeepsMatch == [v EXCEPT !.expected = quote.value, !.target = ListReset(@),
                              !.leaves = ListReset(@), !.pcr = Zero]

\* What Reset leaves behind when it succeeds.
Rewound == [v EXCEPT !.expected = quote.value, !.target = ListReset(@), !.leaves = ListReset(@),
                     !.pcr = Zero, !.pcrMatched = FALSE]

\* Rewinding a file may fail, the target's or then the leaves'.
Reset ==
    /\ stage \in {"accepted", "rejected", "failed"}
    /\ attempts < MaxAttempts
    /\ \/ v' = Rewound /\ stage' = "ready"
       \/ /\ "rewind" \in Fault /\ v.target.source = Live
          /\ v' = [v EXCEPT !.expected = quote.value] /\ stage' = "failed"
       \/ /\ "rewind" \in Fault /\ v.leaves.source = Live
          /\ v' = [v EXCEPT !.expected = quote.value, !.target = ListReset(@)]
          /\ stage' = "failed"
    /\ UNCHANGED <<ledgerVars, kernelVars, quote, asked, attempts>>

Attest ==
    /\ stage = "ready" /\ attempts < MaxAttempts
    /\ stage' = "target"
    /\ attempts' = attempts + 1
    /\ UNCHANGED <<ledgerVars, kernelVars, quote, v, asked>>

\* One turn of the loop of AttestTarget.
AttestTarget ==
    /\ stage = "target"
    /\ \/ AtEof("target") /\ stage' = "leaves" /\ UNCHANGED v
       \/ ~AtEof("target") /\ ~IsValid(NextLine("target")) /\ stage' = "rejected" /\ UNCHANGED v
       \/ /\ ~AtEof("target") /\ IsValid(NextLine("target"))
          /\ v' = [v EXCEPT !.target = ListNext(@, NextLine("target"))]
          /\ stage' = "find"
    /\ UNCHANGED <<ledgerVars, kernelVars, quote, asked, attempts>>

\* Mutant: any leaf will do.
isLeafFound_Any == v.leaves.current # Zero

isLeafFound == v.leaves.current # Zero /\ v.target.aggregate = v.leaves.current

\* The condition replayLeaves is called with, by AttestTarget or AttestLeaves.
done == IF stage = "find" THEN isLeafFound ELSE v.pcrMatched

\* Mutant: the number of extensions is compared, not the digest.
ExtendReplay_Count(line) ==
    LET leaves == ListNext(v.leaves, line)
        pcr == PcrExtend(v.pcr, leaves.aggregate)
    IN  [v EXCEPT !.leaves = leaves, !.pcr = pcr, !.pcrMatched = Len(pcr) >= Len(v.expected)]

\* The leaf is extended into the root and the root into the emulated PCR.
ExtendReplay(line) ==
    LET leaves == ListNext(v.leaves, line)
        pcr == PcrExtend(v.pcr, leaves.aggregate)
    IN  [v EXCEPT !.leaves = leaves, !.pcr = pcr, !.pcrMatched = pcr = v.expected]

\* Leaves past the expected digest are not read.
MayReplay == ~v.pcrMatched /\ ~AtEof("leaves") /\ IsValid(NextLine("leaves"))

\* One turn of the loop of replayLeaves.
replayLeaves ==
    /\ stage \in {"find", "leaves"}
    /\ \/ done /\ stage' = (IF stage = "find" THEN "target" ELSE "accepted") /\ UNCHANGED v
       \/ ~done /\ ~MayReplay /\ stage' = "rejected" /\ UNCHANGED v
       \/ ~done /\ MayReplay /\ v' = ExtendReplay(NextLine("leaves")) /\ UNCHANGED stage
    /\ UNCHANGED <<ledgerVars, kernelVars, quote, asked, attempts>>

-----------------------------------------------------------------------------
Init ==
    /\ L!Init
    /\ commit = "idle" /\ event = NoEvent
    /\ lists = [c \in Container |-> <<>>]
    /\ merkle_root_history = <<>> /\ entries_to_delete = <<>> /\ trimmed = FALSE
    /\ quote = [value |-> register, lists |-> lists]
    /\ v = [target |-> NewList(Live), leaves |-> NewList(Live), expected |-> Zero,
            pcr |-> Zero, pcrMatched |-> FALSE]
    /\ stage = "start" /\ asked \in Container /\ attempts = 0

Kernel ==
    \/ \E e \in Event : ExtendPcr(e) \/ CommitWithoutTpm(e) \/ Latch(e)
    \/ Publish \/ Trim \/ Aggregate

Verifier ==
    \/ ReadPcr \/ (\E c \in Container : OpenTarget(c)) \/ New \/ Reset
    \/ Attest \/ AttestTarget \/ replayLeaves

Next == Kernel \/ Verifier

Spec == Init /\ [][Next]_vars

-----------------------------------------------------------------------------
(* Properties *)

\* The states of a list, as leaves, occur in this order among the first n lines.
OccursIn(target, lines, n) ==
    \E at \in [1..Len(target) -> 1..n] :
        /\ \A i \in 1..Len(target) : lines[at[i]] = SubSeq(target, 1, i)
        /\ \A i \in 1..Len(target) - 1 : at[i] < at[i + 1]

\* The PCR value that lines 1 to n lead to.
Replay(lines, n) == [i \in 1..n |-> SubSeq(lines, 1, i)]

\* The verdict on evidence as a whole: some number of leaves, at least one,
\* leads to the expected value, and every state of the target is among them.
Acceptable(target, lines, expected) ==
    \E n \in 1..Len(lines) : Replay(lines, n) = expected /\ OccursIn(target, lines, n)

\* The two interleaved loops of Attest decide what Acceptable defines of the
\* lines they read, on first use and after Reset, and an accepted target was
\* read to its end.
VerdictExact ==
    /\ stage = "accepted" => Acceptable(v.target.aggregate, v.leaves.aggregate, v.expected)
    /\ stage = "rejected" =>
           ~ /\ Acceptable(v.target.aggregate, v.leaves.aggregate, v.expected)
             /\ AtEof("target")

\* What is accepted was committed, whatever happened to the evidence: the leaves
\* replayed are the values whose root the PCR took last when it was read, and
\* the target is a state of some namespace's list that this PCR value covers.
AcceptedWasRecorded ==
    stage = "accepted" =>
        /\ v.leaves.aggregate = register[v.leaves.pos]
        /\ \E c \in Container : IsPrefix(v.target.aggregate, quote.lists[c])

\* The evidence is as the kernel wrote it.
Intact(name) ==
    v[name].source # Live =>
        IsPrefix(v[name].source, IF name = "target" THEN lists[asked] ELSE ledger)

\* A verifier only turns down evidence that is incomplete: cut or repeated by the
\* tool, read while the history was trimmed, a PCR value that no commit produced
\* or whose last commit had not been published when the leaves ended, or a target
\* read after the PCR that has grown since.
RejectedHasCause ==
    [][stage' = "rejected" /\ stage # "rejected" =>
        \/ ~Intact("target") \/ ~Intact("leaves")
        \/ trimmed /\ ~IsPrefix(v.leaves.aggregate, ledger)
        \/ v.expected = Zero
        \/ Len(v.expected) > Len(Lines("leaves"))
        \/ ~IsPrefix(v.target.aggregate, quote.lists[asked])]_vars

=============================================================================
