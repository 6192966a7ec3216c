---------------------------- MODULE ReplayGuard -----------------------------
(***************************************************************************)
(* Replay detection of AuthnRequests and LogoutRequests: the check of      *)
(* IssueInstant (saml/request.ts, saml/logout.ts), the INSERT of the       *)
(* request's key and the classification of its failure (storage/seen.ts),  *)
(* and the opportunistic sweep of expired rows (storage/sweep.ts), as      *)
(* handleSso and handleSlo call them.                                      *)
(*                                                                         *)
(* A request stands for its key, the hash of (SP, request ID); it arrives  *)
(* any number of times.  A handler is one run of an endpoint in one        *)
(* instance (isolate or process); `last` of sweep.ts is per instance.      *)
(***************************************************************************)
EXTENDS Integers

CONSTANTS
  Requests,        \* the request keys
  Instances,       \* isolates or processes of the host
  Slots,           \* concurrent requests an instance serves
  IssueInstants,   \* instants an SP may put in a request
  MaxAge,          \* REQUEST_MAX_AGE_SECONDS
  Skew,            \* options.clockSkewSeconds
  SweepInterval,   \* INTERVAL_MS
  SpAhead,         \* how far an SP's clock really runs ahead of ours
  MaxLag,          \* the longest a handler takes from reading the clock to its INSERT
  MaxTime          \* bound on the clock, for TLC

ASSUME ConstantsAssumption ==
  /\ IssueInstants \subseteq Int
  /\ MaxAge \in Nat /\ Skew \in Nat /\ SweepInterval \in Nat
  /\ SpAhead \in Nat /\ MaxLag \in Nat /\ MaxTime \in Nat

Handlers == Instances \X Slots

(* The expiresAt of an absent row; every row that exists has a later one. *)
NotSeen == -1

VARIABLES
  now,         \* the hosts' clock
  issued,      \* IssueInstant of each request
  seenUntil,   \* samlIdpSeenRequest: expiresAt of a request's row, or NotSeen
  last,        \* when an instance last swept
  pc,          \* where a handler stands
  request,     \* the request it handles
  at,          \* the clock value it captured last
  written      \* (history) requests whose row was ever inserted

vars == <<now, issued, seenUntil, last, pc, request, at, written>>

Locations == {"idle", "sweeping", "arrived", "checked", "conflict"}
Outcomes == {"refused", "accepted", "duplicate", "error"}

TypeOK ==
  /\ now \in Nat
  /\ issued \in [Requests -> Int]
  /\ seenUntil \in [Requests -> Nat \cup {NotSeen}]
  /\ last \in [Instances -> Int]
  /\ pc \in [Handlers -> Locations \cup Outcomes]
  /\ request \in [Handlers -> Requests]
  /\ at \in [Handlers -> Nat]
  /\ written \subseteq Requests

Init ==
  /\ now = 0
  /\ issued \in [Requests -> IssueInstants]
  /\ seenUntil = [r \in Requests |-> NotSeen]
  /\ last = [i \in Instances |-> -SweepInterval]   \* long before any request
  /\ pc = [h \in Handlers |-> "idle"]
  /\ request \in [Handlers -> Requests]
  /\ at = [h \in Handlers |-> 0]
  /\ written = {}

-----------------------------------------------------------------------------
TooNew(r, t) == issued[r] > t + Skew
TooOld(r, t) == issued[r] < t - MaxAge - Skew

(* Faulty: a row lives as long as its request may be old, the skew forgotten once. *)
ExpiresAt_short(t) == t + MaxAge + Skew

(* The lifetime handleSso and handleSlo give a row. *)
ExpiresAt(t) == t + MaxAge + 2 * Skew

(* sweepExpired, entry: throttled per instance, with the time it was called. *)
Arrive(h, r) ==
  /\ pc[h] = "idle"
  /\ issued[r] <= now + SpAhead
  /\ request' = [request EXCEPT ![h] = r]
  /\ at' = [at EXCEPT ![h] = now]
  /\ IF now - last[h[1]] < SweepInterval
       THEN /\ pc' = [pc EXCEPT ![h] = "arrived"]
            /\ UNCHANGED last
       ELSE /\ pc' = [pc EXCEPT ![h] = "sweeping"]
            /\ last' = [last EXCEPT ![h[1]] = now]
  /\ UNCHANGED <<now, issued, seenUntil, written>>

(* deleteMany of the rows expired when the sweep was called; a failure is only logged. *)
Sweep(h) ==
  /\ pc[h] = "sweeping"
  /\ pc' = [pc EXCEPT ![h] = "arrived"]
  /\ \/ seenUntil' = [r \in Requests |->
                        IF seenUntil[r] < at[h] THEN NotSeen ELSE seenUntil[r]]
     \/ UNCHANGED seenUntil
  /\ UNCHANGED <<now, issued, last, request, at, written>>

(* now is captured and the message validated against it. *)
Validate(h) ==
  /\ pc[h] = "arrived"
  /\ at' = [at EXCEPT ![h] = now]
  /\ pc' = [pc EXCEPT ![h] = IF TooNew(request[h], now) \/ TooOld(request[h], now)
                               THEN "refused" ELSE "checked"]
  /\ UNCHANGED <<now, issued, seenUntil, last, request, written>>

(* Faulty: the adapter does not enforce UNIQUE. *)
Insert_notUnique(h) ==
  LET r == request[h] IN
  /\ pc[h] = "checked"
  /\ seenUntil' = [seenUntil EXCEPT ![r] = ExpiresAt(at[h])]
  /\ written' = written \cup {r}
  /\ pc' = [pc EXCEPT ![h] = "accepted"]
  /\ UNCHANGED <<now, issued, last, request, at>>

(* recordRequestId: the INSERT succeeds, the UNIQUE key being free. *)
Insert(h) ==
  LET r == request[h] IN
  /\ pc[h] = "checked"
  /\ seenUntil[r] = NotSeen
  /\ seenUntil' = [seenUntil EXCEPT ![r] = ExpiresAt(at[h])]
  /\ written' = written \cup {r}
  /\ pc' = [pc EXCEPT ![h] = "accepted"]
  /\ UNCHANGED <<now, issued, last, request, at>>

(* The INSERT commits, but its caller sees an error (a lost connection). *)
InsertUnheard(h) ==
  LET r == request[h] IN
  /\ pc[h] = "checked"
  /\ seenUntil[r] = NotSeen
  /\ seenUntil' = [seenUntil EXCEPT ![r] = ExpiresAt(at[h])]
  /\ written' = written \cup {r}
  /\ pc' = [pc EXCEPT ![h] = "conflict"]
  /\ UNCHANGED <<now, issued, last, request, at>>

(* The INSERT fails: UNIQUE refuses it, or the database does. *)
InsertFails(h) ==
  /\ pc[h] = "checked"
  /\ pc' = [pc EXCEPT ![h] = "conflict"]
  /\ UNCHANGED <<now, issued, seenUntil, last, request, at, written>>

(* Faulty: every failed INSERT is taken for a replay. *)
Classify_blind(h) ==
  /\ pc[h] = "conflict"
  /\ pc' = [pc EXCEPT ![h] = "duplicate"]
  /\ UNCHANGED <<now, issued, seenUntil, last, request, at, written>>

(* The read that only classifies the failure. *)
Classify(h) ==
  /\ pc[h] = "conflict"
  /\ pc' = [pc EXCEPT ![h] = IF seenUntil[request[h]] # NotSeen
                               THEN "duplicate" ELSE "error"]
  /\ UNCHANGED <<now, issued, seenUntil, last, request, at, written>>

(* The handler is done with the request. *)
Respond(h) ==
  /\ pc[h] \in Outcomes
  /\ pc' = [pc EXCEPT ![h] = "idle"]
  /\ at' = [at EXCEPT ![h] = 0]
  /\ UNCHANGED <<now, issued, seenUntil, last, request, written>>

(* An instance dies with its handlers; its successor has never swept. *)
Restart(i) ==
  /\ pc' = [h \in Handlers |-> IF h[1] = i THEN "idle" ELSE pc[h]]
  /\ at' = [h \in Handlers |-> IF h[1] = i THEN 0 ELSE at[h]]
  /\ last' = [last EXCEPT ![i] = -SweepInterval]
  /\ UNCHANGED <<now, issued, seenUntil, request, written>>

(* Time passes, but no handler holds a clock value longer than MaxLag before its INSERT. *)
Tick ==
  /\ now < MaxTime
  /\ \A h \in Handlers : pc[h] = "checked" => now + 1 - at[h] <= MaxLag
  /\ now' = now + 1
  /\ UNCHANGED <<issued, seenUntil, last, pc, request, at, written>>

Handle(h) ==
  \/ \E r \in Requests : Arrive(h, r)
  \/ Sweep(h)
  \/ Validate(h)
  \/ Insert(h)
  \/ InsertUnheard(h)
  \/ InsertFails(h)
  \/ Classify(h)
  \/ Respond(h)

Next ==
  \/ \E h \in Handlers : Handle(h)
  \/ \E i \in Instances : Restart(i)
  \/ Tick

Spec == Init /\ [][Next]_vars

-----------------------------------------------------------------------------
(* The slack the row lifetime leaves: a row outlives its request by what    *)
(* is left of the skew allowance once the SP's clock has used its part.     *)
Slack == SpAhead + MaxLag <= Skew

(* "first sight of (SP, request ID) wins; every later sighting is a replay" *)
(* (sso.ts l.199): no request is accepted whose row was ever inserted       *)
(* before, although sweeps delete rows and handlers hold old clock values.  *)
FirstSightWins ==
  [][\A h \in Handlers :
       pc[h] = "checked" /\ pc'[h] = "accepted" => request[h] \notin written]_vars

(* The sweep never removes a row while its request could still pass the     *)
(* IssueInstant check: the lifetime MaxAge + 2*Skew covers the window.      *)
SweptIsStale ==
  \A r \in written : seenUntil[r] = NotSeen => TooOld(r, now)

(* The register of FirstSight: "error" and "duplicate" are told apart by    *)
(* the classifying read alone, while sweeps and other INSERTs go on.        *)
verdict == [h \in Handlers |->
              IF pc[h] \in {"accepted", "duplicate", "error"} THEN pc[h] ELSE "none"]

FS == INSTANCE FirstSight WITH spent <- written, asked <- request

(* The guard is an atomic test-and-set: every step is one of FirstSight.    *)
ImplementsFirstSight == FS!Spec
=============================================================================
