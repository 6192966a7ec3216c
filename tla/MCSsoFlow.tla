----------------------------- MODULE MCSsoFlow ------------------------------
(* Instances of SsoFlow for TLC. *)
EXTENDS SsoFlow, TLC

(* Handlers, browsers and sessions are interchangeable. *)
Symmetry ==
  Permutations(Handlers) \cup Permutations(Browsers) \cup Permutations(Sessions)
=============================================================================
