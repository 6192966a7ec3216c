--------------------------- MODULE MCSingleLogout ---------------------------
(* Instances of SingleLogout for TLC. *)
EXTENDS SingleLogout, TLC

(* Isolates, and logouts, are interchangeable. *)
Symmetry == Permutations(Isolates) \cup Permutations(Logouts)
=============================================================================
