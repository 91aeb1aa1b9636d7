------------------------------ MODULE MCHistory ------------------------------
(***************************************************************************)
(* The Merkle root history of Commit under trimming. An aggregate is a     *)
(* chain of values, the first of which may itself be an aggregate: Expand  *)
(* undoes the aggregation.                                                 *)
(***************************************************************************)
EXTENDS Commit, SequencesExt

\* Tasks are interchangeable.
Symmetry == Permutations(Proc)

IsLeaf(v) == \A i \in 1..Len(v) : v[i] \in Digest

RECURSIVE Expand(_)
Expand(v) ==
    IF v \in PolicyDigest THEN <<v>>
    ELSE IF IsLeaf(v) THEN <<v>>
    ELSE FlattenSeq([i \in 1..Len(v) |-> Expand(v[i])])

ExpandEntries(entries) == FlattenSeq([i \in 1..Len(entries) |-> Expand(entries[i].value)])

\* The entries that a trim in progress holds outside the list.
Detached == IF commit_mutex = NoProc THEN <<>> ELSE entries_to_delete[commit_mutex]

\* No trim, successful or failed at any point, loses, repeats or reorders an
\* event: the detached entries and the list, aggregates expanded, are the root
\* chain from its first value to its last.
HistoryLossless == ExpandEntries(Detached) \o ExpandEntries(merkle_root_history) = root_hash

\* Whatever moment a reader of merkle_root_history takes the history lock, the
\* plain entries it sees are the latest values of the root chain in order, only
\* the first line can be an aggregate, and the event just committed has a line
\* of its own.
HistoryShowsLatest ==
    LET plain == SelectSeq(merkle_root_history, LAMBDA e : ~e.is_aggregate)
    IN  /\ [i \in 1..Len(plain) |-> plain[i].value]
             = SubSeq(root_hash, Len(root_hash) - Len(plain) + 1, Len(root_hash))
        /\ \A i \in 2..Len(merkle_root_history) : ~merkle_root_history[i].is_aggregate
        /\ root_hash # Zero => plain # <<>>

\* The counter that decides about trimming is the number of entries, counting
\* those detached by a trim that has not finished.
HistoryCountExact ==
    merkle_root_history_count = Len(Detached) + Len(merkle_root_history)

\* src/include/bpfima_kfunc_types.h:37 offers a circular buffer for root
\* events only; this says that after an event of the root policy, with trimming
\* confined to root events, the list is within its bound.
RootEventsTrim ==
    [][\A p \in Proc : pc[p] \in {"trim", "aggregate"} /\ pc'[p] = "done"
                       /\ req[p].source = "global_policy"
          => \A max \in HistoryMax : merkle_root_history_count' <= max]_vars
=============================================================================
