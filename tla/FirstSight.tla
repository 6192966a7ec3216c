----------------------------- MODULE FirstSight -----------------------------
(***************************************************************************)
(* What the replay guard promises: an atomic test-and-set register per     *)
(* request that never forgets.  The first handler that presents a request  *)
(* is told "accepted", every later one "duplicate", whatever the clock,    *)
(* the sweeps and the database do.  sso.ts states it in one line (R2):     *)
(* "first sight of (SP, request ID) wins; every later sighting is a        *)
(* replay."  ReplayGuard is shown to implement this module.                *)
(***************************************************************************)
CONSTANTS Requests, Handlers

VARIABLES
  spent,    \* requests whose first sight has been used up
  asked,    \* the request a handler is asking about
  verdict   \* what the handler was told last

vars == <<spent, asked, verdict>>

Verdicts == {"none", "accepted", "duplicate", "error"}

Init ==
  /\ spent = {}
  /\ asked \in [Handlers -> Requests]
  /\ verdict = [h \in Handlers |-> "none"]

(* A handler takes up a request. *)
Ask(h, r) ==
  /\ verdict[h] = "none"
  /\ asked' = [asked EXCEPT ![h] = r]
  /\ UNCHANGED <<spent, verdict>>

(* First sight. *)
Accept(h) ==
  /\ verdict[h] = "none"
  /\ asked[h] \notin spent
  /\ spent' = spent \cup {asked[h]}
  /\ verdict' = [verdict EXCEPT ![h] = "accepted"]
  /\ UNCHANGED asked

(* The first sight is used up, but the caller has not heard so. *)
Spend(h) ==
  /\ verdict[h] = "none"
  /\ asked[h] \notin spent
  /\ spent' = spent \cup {asked[h]}
  /\ UNCHANGED <<asked, verdict>>

(* Every later sight. *)
Refuse(h) ==
  /\ verdict[h] = "none"
  /\ asked[h] \in spent
  /\ verdict' = [verdict EXCEPT ![h] = "duplicate"]
  /\ UNCHANGED <<spent, asked>>

(* The database could not answer. *)
Break(h) ==
  /\ verdict[h] = "none"
  /\ verdict' = [verdict EXCEPT ![h] = "error"]
  /\ UNCHANGED <<spent, asked>>

(* Handlers answer their callers or die with their instance. *)
Forget(H) ==
  /\ verdict' = [h \in Handlers |-> IF h \in H THEN "none" ELSE verdict[h]]
  /\ UNCHANGED <<spent, asked>>

Next ==
  \/ \E h \in Handlers :
       \/ \E r \in Requests : Ask(h, r)
       \/ Accept(h)
       \/ Spend(h)
       \/ Refuse(h)
       \/ Break(h)
  \/ \E H \in SUBSET Handlers : Forget(H)

Spec == Init /\ [][Next]_vars
=============================================================================
