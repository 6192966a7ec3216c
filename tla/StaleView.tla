------------------------------ MODULE StaleView ------------------------------
(***************************************************************************)
(* What the directories promise (tenants.cacheSeconds, registry.           *)
(* cacheSeconds): whatever a reader is told was the truth, at one instant, *)
(* less than Delay ago. It may be told an older truth after a newer one.   *)
(***************************************************************************)
EXTENDS Naturals

CONSTANTS Readers, Values, Delay, Never

VARIABLES
  clock,    \* the time
  truth,    \* the value now
  lastTrue, \* when a value was the truth for the last time, or Never
  told      \* what a reader is being told, or Never

viewVars == <<clock, truth, lastTrue, told>>

ViewInit ==
  /\ clock = 0
  /\ truth \in Values
  /\ lastTrue = [v \in Values |-> IF v = truth THEN 0 ELSE Never]
  /\ told = Never

Become(v) ==
  /\ truth' = v
  /\ lastTrue' = [lastTrue EXCEPT ![v] = clock]
  /\ told' = Never
  /\ UNCHANGED clock

Tell(r, v) ==
  /\ lastTrue[v] # Never /\ clock < lastTrue[v] + Delay
  /\ told' = [reader |-> r, value |-> v]
  /\ UNCHANGED <<clock, truth, lastTrue>>

Pass ==
  /\ clock' = clock + 1
  /\ lastTrue' = [lastTrue EXCEPT ![truth] = clock + 1]
  /\ told' = Never
  /\ UNCHANGED truth

(* Nobody is told anything any more. *)
Hush == told' = Never /\ UNCHANGED <<clock, truth, lastTrue>>

ViewNext ==
  \/ Hush \/ Pass
  \/ \E v \in Values : Become(v) \/ \E r \in Readers : Tell(r, v)

ViewSpec == ViewInit /\ [][ViewNext]_viewVars
=============================================================================
