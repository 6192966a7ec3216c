----------------------------- MODULE Participants -----------------------------
(***************************************************************************)
(* How long the participants of one session live (storage/participants.ts, *)
(* the database hooks of index.ts): sign-ons record them with the expiry   *)
(* the session had when they read it, a refresh of the session moves them  *)
(* along, the sweep deletes what has expired, and when the session ends    *)
(* they are told by a logout, or kept and reported by the delete hook,     *)
(* unless a mark of its isolate, good for ENDING_TTL_MS, keeps it silent.  *)
(*                                                                         *)
(* What a logout tells whom is SingleLogout's; times are this module's.    *)
(***************************************************************************)
EXTENDS Naturals

CONSTANTS
  Partners,    \* SPs
  Signons,     \* concurrent sign-ons
  Refreshes,   \* concurrent refreshes of the session
  Ends,        \* concurrent logouts and deletions, each in an isolate of its own
  SessionTime, \* how far a refresh moves the session's expiry
  EndingTtl,   \* ENDING_TTL_MS
  PaMaxTime,   \* bound: the clock
  NoTime       \* no time, no row, no SP

ASSUME ParticipantsAssumption ==
  /\ SessionTime \in Nat \ {0} /\ EndingTtl \in Nat /\ PaMaxTime \in Nat
  /\ NoTime \notin Nat \cup [expires : Nat, ended : BOOLEAN]

VARIABLES
  paNow,     \* the clock
  session,   \* the session row: whether there is one, and its expiry
  rows,      \* an SP's participant row: its expiry, and whether endedAt is set
  signon,    \* a sign-on that has read the session: for which SP, with which expiry
  moving,    \* a refresh: the expiry that its hook is about to give the rows
  mark,      \* since when an isolate holds the session for one that a logout is ending
  ending,    \* the next step of a logout or a deletion
  behind,    \* (history) the SPs whose row last got an expiry older than the session's
  issued,    \* (history) the SPs that got an assertion
  stray,     \* (history) those of them whose row was written after the session's end
  deserted,  \* (history) the last mark that its logout left by dying
  loose,     \* (history) a logout that ended the session died, or a step of an end failed
  silentAt   \* (history) when the delete hook was silent

participantsVars ==
  <<paNow, session, rows, signon, moving, mark, ending, behind, issued, stray,
    deserted, loose, silentAt>>

Live == session.live /\ paNow < session.expires
Rows == {p \in Partners : rows[p] # NoTime}
Times == Nat \cup {NoTime}

ParticipantsTypeOK ==
  /\ paNow \in Nat
  /\ session \in [live : BOOLEAN, expires : Nat]
  /\ rows \in [Partners -> [expires : Nat, ended : BOOLEAN] \cup {NoTime}]
  /\ signon \in [Signons -> [sp : Partners, expires : Nat] \cup {NoTime}]
  /\ moving \in [Refreshes -> Times]
  /\ mark \in [Ends -> Times]
  /\ ending \in [Ends -> {"idle", "delete", "hook", "forget", "hostHook"}]
  /\ behind \subseteq Partners /\ issued \subseteq Partners /\ stray \subseteq Partners
  /\ deserted \in Times /\ silentAt \in Times /\ loose \in BOOLEAN

ParticipantsInit ==
  /\ paNow = 0
  /\ session = [live |-> TRUE, expires |-> SessionTime]
  /\ rows = [p \in Partners |-> NoTime]
  /\ signon = [h \in Signons |-> NoTime]
  /\ moving = [r \in Refreshes |-> NoTime]
  /\ mark = [e \in Ends |-> NoTime]
  /\ ending = [e \in Ends |-> "idle"]
  /\ behind = {} /\ issued = {} /\ stray = {}
  /\ deserted = NoTime /\ silentAt = NoTime /\ loose = FALSE

endVars == <<mark, ending, deserted, loose, silentAt>>

-----------------------------------------------------------------------------
(* eligiblePrincipal reads the session; the assertion is signed some time later. *)
ReadSession(h, p) ==
  /\ signon[h] = NoTime /\ Live
  /\ signon' = [signon EXCEPT ![h] = [sp |-> p, expires |-> session.expires]]
  /\ UNCHANGED <<paNow, session, rows, moving, behind, issued, stray, endVars>>

(* Faulty: the update of a row that is there already leaves its expiry. *)
Recorded_asItWas(p, expires) ==
  IF rows[p] = NoTime THEN [expires |-> expires, ended |-> FALSE] ELSE rows[p]

(* The row is created, or updated; an update does not reset endedAt. *)
Recorded(p, expires) ==
  [expires |-> expires, ended |-> rows[p] # NoTime /\ rows[p].ended]

(* recordParticipant, and the response. *)
RecordParticipant(h) ==
  LET p == signon[h].sp
      expires == signon[h].expires
  IN
  /\ signon[h] # NoTime
  /\ rows' = [rows EXCEPT ![p] = Recorded(p, expires)]
  /\ behind' = IF expires < session.expires THEN behind \cup {p} ELSE behind \ {p}
  /\ issued' = issued \cup {p}
  /\ stray' = IF session.live THEN stray ELSE stray \cup {p}
  /\ signon' = [signon EXCEPT ![h] = NoTime]
  /\ UNCHANGED <<paNow, session, moving, endVars>>

(* It fails, or the sign-on does otherwise: nothing is issued. *)
GiveUpSignon(h) ==
  /\ signon[h] # NoTime
  /\ signon' = [signon EXCEPT ![h] = NoTime]
  /\ UNCHANGED <<paNow, session, rows, moving, behind, issued, stray, endVars>>

-----------------------------------------------------------------------------
(* Better Auth refreshes the session, and then calls the update hook, ... *)
RefreshSession(r) ==
  /\ moving[r] = NoTime /\ Live
  /\ session' = [session EXCEPT !.expires = paNow + SessionTime]
  /\ moving' = [moving EXCEPT ![r] = paNow + SessionTime]
  /\ UNCHANGED <<paNow, rows, signon, behind, issued, stray, endVars>>

(* ... extendParticipants, ... *)
ExtendParticipants(r) ==
  /\ moving[r] # NoTime
  /\ rows' = [p \in Partners |->
                IF rows[p] = NoTime THEN NoTime ELSE [rows[p] EXCEPT !.expires = moving[r]]]
  /\ behind' = IF moving[r] < session.expires THEN behind \cup Rows ELSE behind \ Rows
  /\ moving' = [moving EXCEPT ![r] = NoTime]
  /\ UNCHANGED <<paNow, session, signon, issued, stray, endVars>>

(* ... whose failure is only logged. *)
ExtendFails(r) ==
  /\ moving[r] # NoTime
  /\ moving' = [moving EXCEPT ![r] = NoTime]
  /\ behind' = behind \cup Rows
  /\ UNCHANGED <<paNow, session, rows, signon, issued, stray, endVars>>

(* sweepExpired, perhaps before a hook that is on its way. *)
SweepParticipants ==
  LET stale == {p \in Rows : rows[p].expires < paNow} IN
  /\ stale # {}
  /\ rows' = [p \in Partners |-> IF p \in stale THEN NoTime ELSE rows[p]]
  /\ behind' = IF \E r \in Refreshes : moving[r] # NoTime THEN behind \cup stale ELSE behind
  /\ UNCHANGED <<paNow, session, signon, moving, issued, stray, endVars>>

-----------------------------------------------------------------------------
EndStep(e, step) == ending' = [ending EXCEPT ![e] = step]
Unmark(e) == mark' = [mark EXCEPT ![e] = NoTime]

(* endSession, its list read, marks the session in its isolate (markEndingBySlo); ... *)
MarkEnding(e) ==
  /\ ending[e] = "idle" /\ session.live
  /\ mark' = [mark EXCEPT ![e] = paNow]
  /\ EndStep(e, "delete")
  /\ UNCHANGED <<paNow, session, rows, signon, moving, behind, issued, stray,
                 deserted, loose, silentAt>>

(* ... deletes it, unless it is gone or the delete fails, and then takes the mark back. *)
LogoutDeletes(e) ==
  /\ ending[e] = "delete"
  /\ \/ /\ session.live
        /\ session' = [session EXCEPT !.live = FALSE]
        /\ EndStep(e, "hook")
        /\ UNCHANGED mark
     \/ /\ ~session.live
        /\ EndStep(e, "forget")
        /\ UNCHANGED <<session, mark>>
     \/ /\ EndStep(e, "idle")
        /\ Unmark(e)
        /\ UNCHANGED session
  /\ UNCHANGED <<paNow, rows, signon, moving, behind, issued, stray, deserted, loose, silentAt>>

(* Sign-out, revocation, expiry: somebody else deletes it, in an isolate that may hold a mark. *)
HostDeletes(e) ==
  /\ ending[e] = "idle" /\ session.live
  /\ session' = [session EXCEPT !.live = FALSE]
  /\ EndStep(e, "hostHook")
  /\ UNCHANGED <<paNow, rows, signon, moving, mark, behind, issued, stray, deserted, loose, silentAt>>

(* Faulty: a mark is good for as long as it is there. *)
Marked_ever(e) == mark[e] # NoTime

(* consumeEndingBySlo. *)
Marked(e) == mark[e] # NoTime /\ paNow <= mark[e] + EndingTtl

EndRows == [p \in Partners |-> IF rows[p] = NoTime THEN NoTime ELSE [rows[p] EXCEPT !.ended = TRUE]]

(* The delete hook: silent for a logout's session; else every row is ended, and reported. *)
DeleteHook(e) ==
  /\ ending[e] \in {"hook", "hostHook"}
  /\ Unmark(e)
  /\ IF Marked(e)
       THEN silentAt' = paNow /\ UNCHANGED <<rows, loose>>
       ELSE /\ \/ rows' = EndRows /\ UNCHANGED loose
               \/ UNCHANGED rows /\ loose' = TRUE
            /\ UNCHANGED silentAt
  /\ EndStep(e, IF ending[e] = "hook" THEN "forget" ELSE "idle")
  /\ UNCHANGED <<paNow, session, signon, moving, behind, issued, stray, deserted>>

(* forgetParticipants; a failure is only logged. *)
ForgetParticipants(e) ==
  /\ ending[e] = "forget"
  /\ \/ rows' = [p \in Partners |-> NoTime] /\ UNCHANGED loose
     \/ UNCHANGED rows /\ loose' = TRUE
  /\ EndStep(e, "idle")
  /\ UNCHANGED <<paNow, session, signon, moving, mark, behind, issued, stray, deserted, silentAt>>

(* The handler dies and its isolate lives on, with the mark. *)
CrashEnding(e) ==
  /\ ending[e] # "idle"
  /\ IF ending[e] = "delete"
       THEN /\ deserted' = IF deserted # NoTime /\ deserted > mark[e] THEN deserted ELSE mark[e]
            /\ UNCHANGED loose
       ELSE loose' = TRUE /\ UNCHANGED deserted
  /\ EndStep(e, "idle")
  /\ UNCHANGED <<paNow, session, rows, signon, moving, mark, behind, issued, stray, silentAt>>

(* The user is deleted, after the sessions: forgetUserParticipants. *)
ForgetUser ==
  /\ ~session.live /\ Rows # {}
  /\ rows' = [p \in Partners |-> NoTime]
  /\ UNCHANGED <<paNow, session, signon, moving, behind, issued, stray, endVars>>

PaTick ==
  /\ paNow < PaMaxTime
  /\ paNow' = paNow + 1
  /\ UNCHANGED <<session, rows, signon, moving, behind, issued, stray, endVars>>

ParticipantsNext ==
  \/ \E h \in Signons :
       RecordParticipant(h) \/ GiveUpSignon(h) \/ \E p \in Partners : ReadSession(h, p)
  \/ \E r \in Refreshes : RefreshSession(r) \/ ExtendParticipants(r) \/ ExtendFails(r)
  \/ \E e \in Ends :
       \/ MarkEnding(e) \/ LogoutDeletes(e) \/ HostDeletes(e) \/ DeleteHook(e)
       \/ ForgetParticipants(e) \/ CrashEnding(e)
  \/ SweepParticipants \/ ForgetUser \/ PaTick

ParticipantsSpec == ParticipantsInit /\ [][ParticipantsNext]_participantsVars

-----------------------------------------------------------------------------
(* "Participants live as long as the session: [...] the expiry sweep can't drop SPs a *)
(* later logout must reach" (index.ts): while the session lives, so does the row of   *)
(* every SP that got an assertion in it. Excepted are the rows a refresh has not      *)
(* moved yet, and those left behind by a sign-on that had read the session before a   *)
(* refresh, or by a hook that failed, was overtaken or came after the sweep.          *)
ParticipantsOutlive ==
  Live /\ (\A r \in Refreshes : moving[r] = NoTime) =>
    \A p \in issued \ behind : p \in Rows /\ rows[p].expires >= session.expires

(* "A stale one (the delete never happened) must not hide a later end": once an end   *)
(* is through, no SP's row says that its session lives - unless it was written later, *)
(* a step failed, or a logout died that had set out less than ENDING_TTL_MS before.   *)
EndsAreShown ==
  ~session.live /\ (\A e \in Ends : ending[e] = "idle") /\ ~loose =>
    \/ \A p \in Rows \ stray : rows[p].ended
    \/ deserted # NoTime /\ silentAt # NoTime /\ silentAt <= deserted + EndingTtl
=============================================================================
