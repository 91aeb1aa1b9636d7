------------------------------ MODULE MCCommit ------------------------------
(* Small instances of Commit for TLC. *)
EXTENDS CommitLedger, TLC

\* Tasks, containers and digests are interchangeable.
Symmetry == Permutations(Proc) \union Permutations(Container) \union Permutations(Digest)
=============================================================================
