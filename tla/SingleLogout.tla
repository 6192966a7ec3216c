---------------------------- MODULE SingleLogout ----------------------------
(***************************************************************************)
(* Single Logout of one session: endSession, nextHop, finish and the two   *)
(* endpoints of slo.ts, the participant rows of storage/participants.ts,   *)
(* the session-delete hook of index.ts, and what races them: sign-ons that *)
(* record their participant, deletions of the session by the host, and     *)
(* other logouts of the same session.                                      *)
(*                                                                         *)
(* A chain of logout hops carries its state in a single-use stored value;  *)
(* `state` of a chain that is "waiting" is that value.                     *)
(***************************************************************************)
EXTENDS FiniteSets, Naturals

CONSTANTS
  SPs,        \* service providers the session may reach
  Endpoints,  \* those of them with a singleLogoutService
  Isolates,   \* isolates or processes, each with its own endingBySlo map
  Logouts,    \* runs of Single Logout
  Deleters,   \* deletions of the session by the host (sign-out, revoke, expiry)
  MaxParticipants, \* how many rows a list or a report holds (200 in the code)
  Idp,        \* the origin of an IdP-initiated logout
  NoSP        \* no current hop

ASSUME ConstantsAssumption ==
  /\ Endpoints \subseteq SPs
  /\ Idp \notin SPs /\ NoSP \notin SPs /\ Idp # NoSP
  /\ Logouts \cap Deleters = {}
  /\ MaxParticipants \in Nat \ {0}

Enders == Logouts \cup Deleters

VARIABLES
  session,   \* the session row: "live" or "gone"
  row,       \* participant row of an SP: "none", "active" or "ended"
  marked,    \* isolates whose endingBySlo map names the session
  signOn,    \* a sign-on at an SP: "none", "signed", "issued" or "refused"
  pc,        \* where an ender stands
  home,      \* the isolate it runs in
  found,     \* deleteSession found a row to delete
  origin,    \* who started a logout
  reporting, \* rows an ender's hook read, to name in session.ended
  remaining, \* SPs a logout still has to tell
  current,   \* the SP whose LogoutResponse it waits for
  partial,   \* the logout is known to be partial
  answer,    \* what the originator was told
  told,      \* (history) SPs each logout sent a LogoutRequest to
  confirmed, \* (history) SPs that confirmed to each logout
  expected,  \* (history) SPs with a live row when each logout listed them
  reported,  \* (history) SPs a session.ended event named
  stranded,  \* (history) SPs of a chain that was lost on its way
  late,      \* (history) SPs recorded after the end, or after a list not yet forgotten
  slow       \* (history) a hook came to its mark more than a minute late

chain == <<origin, remaining, current, partial, answer>>
history == <<told, confirmed, expected, reported, stranded, late, slow>>
db == <<session, row>>
vars == <<db, marked, signOn, pc, home, found, reporting, chain, history>>

Terminal == {"finished", "noSession", "failed", "lost"}
EndingAt == {"list", "lookup", "delete", "hook", "read", "report", "forget", "hop"}
Locations == {"idle", "waiting"} \cup EndingAt \cup Terminal

TypeOK ==
  /\ session \in {"live", "gone"}
  /\ row \in [SPs -> {"none", "active", "ended"}]
  /\ marked \subseteq Isolates
  /\ signOn \in [SPs -> {"none", "signed", "issued", "refused"}]
  /\ pc \in [Enders -> Locations]
  /\ home \in [Enders -> Isolates]
  /\ found \in [Enders -> BOOLEAN]
  /\ origin \in [Logouts -> SPs \cup {Idp}]
  /\ reporting \in [Enders -> SUBSET SPs]
  /\ remaining \in [Logouts -> SUBSET SPs]
  /\ current \in [Logouts -> SPs \cup {NoSP}]
  /\ partial \in [Logouts -> BOOLEAN]
  /\ answer \in [Logouts -> {"none", "Success", "PartialLogout", "returnTo", "error"}]
  /\ told \in [Logouts -> SUBSET SPs]
  /\ confirmed \in [Logouts -> SUBSET SPs]
  /\ expected \in [Logouts -> SUBSET SPs]
  /\ reported \subseteq SPs /\ stranded \subseteq SPs /\ late \subseteq SPs
  /\ slow \in BOOLEAN

Init ==
  /\ session = "live"
  /\ row = [s \in SPs |-> "none"]
  /\ marked = {}
  /\ signOn = [s \in SPs |-> "none"]
  /\ pc = [e \in Enders |-> "idle"]
  /\ home \in [Enders -> Isolates]
  /\ found = [e \in Enders |-> FALSE]
  /\ origin \in [Logouts -> SPs \cup {Idp}]
  /\ reporting = [e \in Enders |-> {}]
  /\ remaining = [l \in Logouts |-> {}]
  /\ current = [l \in Logouts |-> NoSP]
  /\ partial = [l \in Logouts |-> FALSE]
  /\ answer = [l \in Logouts |-> "none"]
  /\ told = [l \in Logouts |-> {}]
  /\ confirmed = [l \in Logouts |-> {}]
  /\ expected = [l \in Logouts |-> {}]
  /\ reported = {} /\ stranded = {} /\ late = {} /\ slow = FALSE

-----------------------------------------------------------------------------
Go(e, from, to) == pc[e] = from /\ pc' = [pc EXCEPT ![e] = to]
Active == {s \in SPs : row[s] = "active"}

(* What is left of a set of rows when only so many are taken. *)
FirstOf(S, n) == {ps \in SUBSET S : ps = S \/ (Cardinality(S) > n /\ Cardinality(ps) = n)}

(* The live rows a findMany finds: its limit counts those of an ended session too. *)
Found ==
  {ps \cap Active : ps \in FirstOf({s \in SPs : row[s] # "none"}, MaxParticipants + 1)}
Truncated(S) == Cardinality(S) > MaxParticipants
Capped(S) == FirstOf(S, MaxParticipants)

(* issueResponse: the session is read again, and an assertion signed. *)
Sign(s) ==
  /\ signOn[s] = "none" /\ session = "live"
  /\ signOn' = [signOn EXCEPT ![s] = "signed"]
  /\ UNCHANGED <<db, marked, pc, home, found, reporting, chain, history>>

(* The end of the session, or the list of a logout still to forget the rows, has passed. *)
TooLate ==
  \/ session = "gone"
  \/ \E l \in Logouts : pc[l] \in {"lookup", "delete", "hook", "read", "report", "forget"}

(* Faulty: an assertion is issued even if its participant could not be recorded. *)
Record_open(s) ==
  /\ signOn[s] = "signed"
  /\ signOn' = [signOn EXCEPT ![s] = "issued"]
  /\ row' \in {row, [row EXCEPT ![s] = IF @ = "none" THEN "active" ELSE @]}
  /\ late' = late \cup {x \in {s} : TooLate}
  /\ UNCHANGED <<session, marked, pc, home, found, reporting, chain, told, confirmed, expected,
                 reported, stranded, slow>>

(* recordParticipant, then the Response: an existing row keeps its endedAt. *)
Record(s) ==
  /\ signOn[s] = "signed"
  /\ \/ /\ row' = [row EXCEPT ![s] = IF @ = "none" THEN "active" ELSE @]
        /\ signOn' = [signOn EXCEPT ![s] = "issued"]
        /\ late' = late \cup {x \in {s} : TooLate}
     \/ /\ signOn' = [signOn EXCEPT ![s] = "refused"]    \* not recorded: not issued
        /\ UNCHANGED <<row, late>>
  /\ UNCHANGED <<session, marked, pc, home, found, reporting, chain, told, confirmed, expected,
                 reported, stranded, slow>>

-----------------------------------------------------------------------------
(* A LogoutRequest that names the session: by the SessionIndex its SP was given. *)
Begin(l) ==
  /\ Go(l, "idle", "list")
  /\ session = "live"
  /\ origin[l] \in Endpoints /\ signOn[origin[l]] = "issued"
  /\ UNCHANGED <<db, marked, signOn, home, found, reporting, chain, history>>

(* logoutEndpoint: the user logs out here, in the session's browser. *)
SignOut(l) ==
  /\ Go(l, "idle", "list")
  /\ session = "live"
  /\ origin[l] = Idp
  /\ UNCHANGED <<db, marked, signOn, home, found, reporting, chain, history>>

(* A LogoutRequest that names no live session: nothing ends, Success is answered; *)
(* or the session could not be looked up by its SessionIndex.                     *)
BeginNoSession(l) ==
  /\ origin[l] \in Endpoints
  /\ \/ /\ Go(l, "idle", "noSession")
        /\ session = "gone" \/ row[origin[l]] # "active"
        /\ answer' = [answer EXCEPT ![l] = "Success"]
     \/ /\ Go(l, "idle", "failed")
        /\ answer' = [answer EXCEPT ![l] = "error"]
  /\ UNCHANGED <<db, marked, signOn, home, found, reporting, origin, remaining, current,
                 partial, history>>

(* Faulty: the session is not marked as being ended by Single Logout. *)
List_unmarked(l) ==
  /\ Go(l, "list", "lookup")
  /\ expected' = [expected EXCEPT ![l] = Active]
  /\ remaining' = [remaining EXCEPT ![l] = Active \ {origin[l]}]
  /\ UNCHANGED <<db, marked, signOn, home, found, reporting, origin, current, partial, answer,
                 told, confirmed, reported, stranded, late, slow>>

(* Faulty: a list that failed or was cut short is taken for a complete one. *)
List_swallows(l) ==
  /\ Go(l, "list", "lookup")
  /\ marked' = marked \cup {home[l]}
  /\ expected' = [expected EXCEPT ![l] = Active]
  /\ \E S \in Found : \E ps \in {{}} \cup Capped(S) :
       remaining' = [remaining EXCEPT ![l] = ps \ {origin[l]}]
  /\ UNCHANGED <<db, signOn, home, found, reporting, origin, current, partial, answer, told,
                 confirmed, reported, stranded, late, slow>>

(* participantsOf, then markEndingBySlo; the originator knows already. *)
List(l) ==
  /\ Go(l, "list", "lookup")
  /\ marked' = marked \cup {home[l]}
  /\ expected' = [expected EXCEPT ![l] = Active]
  /\ \/ \E S \in Found :
           /\ \E ps \in Capped(S) : remaining' = [remaining EXCEPT ![l] = ps \ {origin[l]}]
           /\ partial' = [partial EXCEPT ![l] = Truncated(S)]
     \/ /\ partial' = [partial EXCEPT ![l] = TRUE]       \* the read failed
        /\ UNCHANGED remaining
  /\ UNCHANGED <<db, signOn, home, found, reporting, origin, current, answer, told, confirmed,
                 reported, stranded, late, slow>>

(* The host deletes the session: no list, no mark. *)
BeginDelete(d) ==
  /\ Go(d, "idle", "lookup")
  /\ UNCHANGED <<db, marked, signOn, home, found, reporting, chain, history>>

(* Better Auth's deleteSession: the row is looked up for the hooks, ... *)
Lookup(e) ==
  /\ Go(e, "lookup", "delete")
  /\ found' = [found EXCEPT ![e] = session = "live"]
  /\ UNCHANGED <<db, marked, signOn, home, reporting, chain, history>>

AfterHook(e) == IF e \in Logouts THEN "forget" ELSE "finished"

(* ... deleted, and the hook run if it was found. *)
Delete(e) ==
  /\ Go(e, "delete", IF found[e] THEN "hook" ELSE AfterHook(e))
  /\ session' = "gone"
  /\ UNCHANGED <<row, marked, signOn, home, found, reporting, chain, history>>

(* Faulty: the logout goes on although the delete threw. *)
DeleteFails_goesOn(e) ==
  /\ Go(e, "delete", AfterHook(e))
  /\ marked' = IF e \in Logouts THEN marked \ {home[e]} ELSE marked
  /\ UNCHANGED <<db, signOn, home, found, reporting, chain, history>>

(* Faulty: the mark stays although the session was not ended. *)
DeleteFails_keepsMark(e) ==
  /\ Go(e, "delete", "failed")
  /\ remaining' = [l \in Logouts |-> IF l = e THEN {} ELSE remaining[l]]
  /\ UNCHANGED <<db, marked, signOn, home, found, reporting, origin, current, partial, answer,
                 history>>

(* The delete throws: a logout takes its mark back, and ends nothing. *)
DeleteFails(e) ==
  /\ Go(e, "delete", "failed")
  /\ marked' = IF e \in Logouts THEN marked \ {home[e]} ELSE marked
  /\ remaining' = [l \in Logouts |-> IF l = e THEN {} ELSE remaining[l]]
  /\ UNCHANGED <<db, signOn, home, found, reporting, origin, current, partial, answer, history>>

(* consumeEndingBySlo: the hook is silent for a session that its isolate marked at most *)
(* ENDING_TTL_MS ago, and the mark is taken either way.  Otherwise endParticipants ...  *)
Hook(e) ==
  /\ \/ /\ home[e] \in marked
        /\ Go(e, "hook", AfterHook(e))
        /\ UNCHANGED slow
     \/ /\ Go(e, "hook", "read")                         \* no mark, or a stale one
        /\ slow' = (slow \/ home[e] \in marked)
  /\ marked' = marked \ {home[e]}
  /\ UNCHANGED <<db, signOn, home, found, reporting, chain, told, confirmed, expected,
                 reported, stranded, late>>

(* ... reads the rows ... *)
Read(e) ==
  /\ \E S \in Found :
       /\ Go(e, "read", IF S = {} THEN AfterHook(e) ELSE "report")
       /\ \E ps \in Capped(S) : reporting' = [reporting EXCEPT ![e] = ps]
  /\ UNCHANGED <<db, marked, signOn, home, found, chain, history>>

(* ... and marks every row ended; session.ended names those it read. *)
Report(e) ==
  /\ Go(e, "report", AfterHook(e))
  /\ row' = [s \in SPs |-> IF row[s] = "none" THEN "none" ELSE "ended"]
  /\ reported' = reported \cup reporting[e]
  /\ UNCHANGED <<session, marked, signOn, home, found, reporting, chain, told, confirmed,
                 expected, stranded, late, slow>>

(* A failure of the hook is logged; the delete has happened. *)
HookFails(e) ==
  /\ \E here \in {"read", "report"} : Go(e, here, IF e \in Logouts THEN "forget" ELSE "failed")
  /\ UNCHANGED <<db, marked, signOn, home, found, reporting, chain, history>>

(* forgetParticipants; a failure is only logged. *)
Forget(l) ==
  /\ Go(l, "forget", "hop")
  /\ row' \in {row, [s \in SPs |-> "none"]}
  /\ UNCHANGED <<session, marked, signOn, home, found, reporting, chain, history>>

-----------------------------------------------------------------------------
(* Faulty: the SP that is told stays first in line. *)
SendRequest_repeats(l, s) ==
  /\ Go(l, "hop", "waiting")
  /\ s \in remaining[l] \cap Endpoints
  /\ current' = [current EXCEPT ![l] = s]
  /\ told' = [told EXCEPT ![l] = @ \cup {s}]
  /\ UNCHANGED <<db, marked, signOn, home, found, reporting, origin, remaining, partial, answer,
                 confirmed, expected, reported, stranded, late, slow>>

(* nextHop: a LogoutRequest to the next SP, its state stored under the RelayState. *)
SendRequest(l, s) ==
  /\ Go(l, "hop", "waiting")
  /\ s \in remaining[l] \cap Endpoints
  /\ remaining' = [remaining EXCEPT ![l] = @ \ {s}]
  /\ current' = [current EXCEPT ![l] = s]
  /\ told' = [told EXCEPT ![l] = @ \cup {s}]
  /\ UNCHANGED <<db, marked, signOn, home, found, reporting, origin, partial, answer, confirmed,
                 expected, reported, stranded, late, slow>>

(* nextHop: no endpoint, or its SP or tenant is gone. *)
Skip(l, s) ==
  /\ pc[l] = "hop"
  /\ s \in remaining[l]
  /\ remaining' = [remaining EXCEPT ![l] = @ \ {s}]
  /\ partial' = [partial EXCEPT ![l] = TRUE]
  /\ UNCHANGED <<db, marked, signOn, pc, home, found, reporting, origin, current, answer, history>>

(* Faulty: a state without a current hop accepts a LogoutResponse. *)
Response_unasked(l) ==
  /\ pc[l] \in {"waiting", "hop"} /\ pc' = [pc EXCEPT ![l] = "hop"]
  /\ current' = [current EXCEPT ![l] = NoSP]
  /\ confirmed' = [confirmed EXCEPT ![l] = @ \cup {current[l]}]
  /\ UNCHANGED <<db, marked, signOn, home, found, reporting, origin, remaining, partial, answer,
                 told, expected, reported, stranded, late, slow>>

(* The SP's LogoutResponse consumes the state; whatever it says, the chain goes on. *)
Response(l) ==
  /\ Go(l, "waiting", "hop")
  /\ current' = [current EXCEPT ![l] = NoSP]
  /\ \/ /\ confirmed' = [confirmed EXCEPT ![l] = @ \cup {current[l]}]
        /\ UNCHANGED partial
     \/ /\ partial' = [partial EXCEPT ![l] = TRUE]       \* refused, partial or not acceptable
        /\ UNCHANGED confirmed
  /\ UNCHANGED <<db, marked, signOn, home, found, reporting, origin, remaining, answer, told,
                 expected, reported, stranded, late, slow>>

(* finish: the browser's returnTo, or a LogoutResponse if the originator can still be answered. *)
Finish(l) ==
  /\ Go(l, "hop", "finished")
  /\ remaining[l] = {}
  /\ answer' \in {[answer EXCEPT ![l] = a] :
       a \in IF origin[l] = Idp THEN {"returnTo"}
             ELSE {"error", IF partial[l] THEN "PartialLogout" ELSE "Success"}}
  /\ UNCHANGED <<db, marked, signOn, home, found, reporting, origin, remaining, current, partial,
                 history>>

-----------------------------------------------------------------------------
(* The browser never comes back with a LogoutResponse; the state expires. *)
Abandon(l) ==
  /\ Go(l, "waiting", "lost")
  /\ stranded' = stranded \cup remaining[l]
  /\ UNCHANGED <<db, marked, signOn, home, found, reporting, chain, told, confirmed, expected,
                 reported, late, slow>>

(* The handler dies, alone or with its isolate's map. *)
Crash(e) ==
  /\ pc[e] \in EndingAt
  /\ pc' = [pc EXCEPT ![e] = "lost"]
  /\ marked' \in {marked, marked \ {home[e]}}
  /\ stranded' = stranded \cup (IF pc[e] = "hop" THEN remaining[e] ELSE {})
  /\ UNCHANGED <<db, signOn, home, found, reporting, chain, told, confirmed, expected, reported,
                 late, slow>>

End(e) ==
  \/ Lookup(e)
  \/ Delete(e)
  \/ DeleteFails(e)
  \/ Hook(e)
  \/ Read(e)
  \/ Report(e)
  \/ HookFails(e)

Logout(l) ==
  \/ List(l)
  \/ End(l)
  \/ Forget(l)
  \/ \E s \in SPs : SendRequest(l, s) \/ Skip(l, s)
  \/ Finish(l)

Next ==
  \/ \E s \in SPs : Sign(s) \/ Record(s)
  \/ \E l \in Logouts :
       \/ Begin(l)
       \/ SignOut(l)
       \/ BeginNoSession(l)
       \/ Logout(l)
       \/ Response(l)
       \/ Abandon(l)
  \/ \E d \in Deleters : BeginDelete(d) \/ End(d)
  \/ \E e \in Enders : Crash(e)

Spec == Init /\ [][Next]_vars

(* A handler runs on, and a chain's state is answered or expires. *)
Fairness ==
  \A l \in Logouts : WF_vars(Logout(l)) /\ WF_vars(Response(l) \/ Abandon(l))

FairSpec == Spec /\ Fairness

-----------------------------------------------------------------------------
(* Still in the hands of a logout or of a hook. *)
Pending(s) ==
  \/ \E e \in Enders : pc[e] \in {"hook", "read", "report"}
  \/ \E l \in Logouts : pc[l] \in {"forget", "hop", "waiting"} /\ s \in remaining[l]

(* An SP that learnt of the end, that the host was told of or can still list, *)
(* or that a logout which knows to be partial should have told.               *)
Accounted(s) ==
  \/ \E l \in Logouts : s \in told[l] \/ (origin[l] = s /\ pc[l] \notin {"idle", "failed"})
  \/ \E l \in Logouts : s \in expected[l] /\ partial[l]
  \/ s \in reported
  \/ Cardinality(reported) >= MaxParticipants      \* a full report says it may be truncated
  \/ row[s] # "none"

(* Nobody is forgotten: an SP that got an assertion in a session now over is *)
(* told, reported or still listed, whichever logouts and deletions raced,    *)
(* or its logout knows that it is partial (endSession and the delete hook).  *)
(* Excepted are the SPs of a chain that was lost on its way, and sign-ons    *)
(* that recorded their participant too late.                                 *)
NobodyForgotten ==
  session = "gone" =>
    \A s \in SPs \ (stranded \cup late) : signOn[s] = "issued" => Pending(s) \/ Accounted(s)

(* "`Success` when every participant confirmed" of those the session had     *)
(* when the logout listed them, over every hop of its chain: a list that     *)
(* failed or was cut short, or a hop that was skipped or refused, is never   *)
(* answered with it (participantsOf, nextHop, finish of slo.ts).             *)
SuccessIsEarned ==
  \A l \in Logouts : answer[l] = "Success" => expected[l] \ {origin[l]} \subseteq confirmed[l]

(* "The IdP session ends first": no SP is told before the session row is     *)
(* gone, also when the delete fails (endSession rethrows).                   *)
EndsFirst == (\E l \in Logouts : told[l] # {}) => session = "gone"

Begun == {e \in Enders : pc[e] # "idle"}

(* A logout that nobody races reports no SP as "not told" in session.ended:  *)
(* its hook finds the mark of its own isolate (markEndingBySlo).  Excepted   *)
(* is a delete that takes the minute the mark lives (ENDING_TTL_MS): its     *)
(* hook reports the SPs as not told, and the chain then tells them.          *)
OwnLogoutIsSilent ==
  Begun \subseteq Logouts /\ Cardinality(Begun) = 1 /\ ~slow => reported = {}

(* Only a logout hides an end: the delete hook of the host's own deletion is *)
(* silent only if a logout of that isolate has passed its mark and did not   *)
(* fail; one that failed took its mark back (the catch of endSession).       *)
OnlyLogoutsSilence ==
  [][\A d \in Deleters :
       pc[d] = "hook" /\ pc'[d] = "finished" =>
         \E l \in Logouts :
           home[l] = home[d] /\ pc[l] \notin {"idle", "list", "failed", "noSession"}]_vars

(* Every logout comes to an end: each hop leaves fewer SPs to tell (nextHop's loop). *)
EveryLogoutEnds == \A l \in Logouts : pc[l] = "list" ~> pc[l] \in Terminal

(* "It doesn't fire for sessions our own Single Logout ends, because those   *)
(* SPs are told": when the only logout of a session is through, and had      *)
(* nothing to call partial, no SP is left without notice and without a row   *)
(* (docs/guide/single-logout.md).                                            *)
ThoseSPsAreTold ==
  \A l \in Logouts :
    Begun = {l} /\ pc[l] = "finished" /\ ~partial[l] =>
      \A s \in SPs \ {origin[l]} :
        signOn[s] = "issued" => s \in told[l] \/ s \in reported \/ row[s] # "none"

(* "`Success` when every participant confirmed": an originator that is told  *)
(* Success after its request ended the session can rely on it for every SP   *)
(* recorded in time (docs/guide/single-logout.md).                           *)
SuccessMeansAll ==
  \A l \in Logouts :
    pc[l] = "finished" /\ answer[l] = "Success" =>
      \A s \in SPs \ (late \cup reported \cup {origin[l]}) :
        signOn[s] = "issued" => \E k \in Logouts : s \in confirmed[k] \/ origin[k] = s
=============================================================================
