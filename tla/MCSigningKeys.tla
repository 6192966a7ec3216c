---------------------------- MODULE MCSigningKeys ----------------------------
(* SigningKeys over small sets; calls are interchangeable, and so are isolates. *)
EXTENDS SigningKeys, TLC

Symmetry == Permutations(Calls) \cup Permutations(Isolates)
=============================================================================
