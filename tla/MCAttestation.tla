--------------------------- MODULE MCAttestation ----------------------------
(* Attestation on a small instance. *)
EXTENDS Attestation

Symmetry == Permutations(Container) \cup Permutations(Digest)
=============================================================================
