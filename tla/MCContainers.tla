---------------------------- MODULE MCContainers -----------------------------
(***************************************************************************)
(* An instance of Containers for TLC.                                      *)
(***************************************************************************)
EXTENDS Containers

AllFaults == {"alloc", "dir", "file", "policy_file", "metadata", "seq_open", "load"}
Symmetry == Permutations(Tasks) \cup Permutations(Nodes) \cup Permutations(Ids)
=============================================================================
