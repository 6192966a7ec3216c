--------------------------- MODULE MCReplayGuard ----------------------------
(* Instances of ReplayGuard for TLC. *)
EXTENDS ReplayGuard, TLC

MCIssueInstants == 0 .. 2
MCSlots == {1}

(* Instances and requests are interchangeable. *)
Symmetry == Permutations(Instances) \cup Permutations(Requests)
=============================================================================
