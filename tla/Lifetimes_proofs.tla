---------------------------- MODULE Lifetimes_proofs ----------------------------
(***************************************************************************)
(* What is kept for a time, for any number of SPs, sign-ons, refreshes and *)
(* ends, and for every length of the times.                                *)
(*                                                                         *)
(* The participants of a session: a row whose expiry is older than the     *)
(* session's is one that a refresh has just left behind, and that refresh  *)
(* is still on its way to it. The end of a session: it is deleted once, so *)
(* one delete hook runs; from the deletion on there is a hook that will    *)
(* end the rows, a logout that will forget them, or nothing left to do.    *)
(***************************************************************************)
EXTENDS MCLifetimes, TLAPS

(* A refresh that will give the rows the expiry the session has. *)
Coming == \E r \in Refreshes : moving[r] # NoTime /\ moving[r] = session.expires

InTime ==
  Live => \A p \in issued \ behind : p \in Rows /\ (rows[p].expires >= session.expires \/ Coming)

Hooks == {"hook", "hostHook"}

(* Logouts and hooks go on only when the session is gone; its hook is the only one. *)
EndsOnce ==
  /\ \A e \in Ends : ending[e] \in Hooks \cup {"forget"} => ~session.live
  /\ \A e, f \in Ends : ending[e] \in Hooks /\ ending[f] \in Hooks => e = f
  /\ session.live \/ (\E e \in Ends : ending[e] \in Hooks) => silentAt = NoTime

(* A mark that nobody stands behind is one that a logout left by dying. *)
Left(e) == deserted # NoTime /\ mark[e] <= deserted
MarksOK ==
  \A e \in Ends :
    /\ ending[e] = "delete" => mark[e] # NoTime
    /\ mark[e] # NoTime /\ (ending[e] = "hostHook" \/ (ending[e] = "idle" /\ session.live)) => Left(e)

(* What is still to be done for a session that is gone, or need not be. *)
Hidden == deserted # NoTime /\ silentAt # NoTime /\ silentAt <= deserted + EndingTtl
AllShown == \A p \in Rows \ stray : rows[p].ended
Seen ==
  ~session.live /\ ~loose =>
    (\E e \in Ends : ending[e] \in Hooks \cup {"forget"}) \/ AllShown \/ Hidden

EndInv == EndsOnce /\ MarksOK /\ Seen

-----------------------------------------------------------------------------
LEMMA ParticipantsInitTypes == ParticipantsInit => ParticipantsTypeOK
<1> SUFFICES ASSUME ParticipantsInit PROVE ParticipantsTypeOK
  OBVIOUS
<1> USE ParticipantsAssumption DEF ParticipantsAssumption, ParticipantsInit, Times
<1>1. session \in [live : BOOLEAN, expires : Nat]
  OBVIOUS
<1>2. /\ rows \in [Partners -> [expires : Nat, ended : BOOLEAN] \cup {NoTime}]
      /\ signon \in [Signons -> [sp : Partners, expires : Nat] \cup {NoTime}]
      /\ moving \in [Refreshes -> Times]
  OBVIOUS
<1>3. mark \in [Ends -> Times] /\ ending \in [Ends -> {"idle", "delete", "hook", "forget", "hostHook"}]
  OBVIOUS
<1> QED
  BY <1>1, <1>2, <1>3 DEF ParticipantsTypeOK

LEMMA ParticipantsTypes == ParticipantsTypeOK /\ [ParticipantsNext]_participantsVars => ParticipantsTypeOK'
<1> SUFFICES ASSUME ParticipantsTypeOK, [ParticipantsNext]_participantsVars PROVE ParticipantsTypeOK'
  OBVIOUS
<1> USE ParticipantsAssumption DEF ParticipantsAssumption, ParticipantsTypeOK, Times, Rows, EndStep, Unmark, endVars
<1>1. CASE UNCHANGED participantsVars
  BY <1>1 DEF participantsVars
<1>2. ASSUME NEW h \in Signons, NEW p \in Partners, ReadSession(h, p) PROVE ParticipantsTypeOK'
  BY <1>2 DEF ReadSession
<1>3. ASSUME NEW h \in Signons, RecordParticipant(h) PROVE ParticipantsTypeOK'
  BY <1>3 DEF RecordParticipant, Recorded
<1>4. ASSUME NEW h \in Signons, GiveUpSignon(h) PROVE ParticipantsTypeOK'
  BY <1>4 DEF GiveUpSignon
<1>5. ASSUME NEW r \in Refreshes, RefreshSession(r) PROVE ParticipantsTypeOK'
  BY <1>5 DEF RefreshSession
<1>6. ASSUME NEW r \in Refreshes, ExtendParticipants(r) PROVE ParticipantsTypeOK'
  <2>1. moving[r] \in Nat
    BY <1>6 DEF ExtendParticipants
  <2> QED
    BY <1>6, <2>1 DEF ExtendParticipants
<1>7. ASSUME NEW r \in Refreshes, ExtendFails(r) PROVE ParticipantsTypeOK'
  BY <1>7 DEF ExtendFails
<1>8. CASE SweepParticipants
  BY <1>8 DEF SweepParticipants
<1>9. CASE ForgetUser
  BY <1>9 DEF ForgetUser
<1>10. CASE PaTick
  BY <1>10 DEF PaTick
<1>11. ASSUME NEW e \in Ends, MarkEnding(e) PROVE ParticipantsTypeOK'
  BY <1>11 DEF MarkEnding
<1>12. ASSUME NEW e \in Ends, LogoutDeletes(e) PROVE ParticipantsTypeOK'
  <2>1. session' \in [live : BOOLEAN, expires : Nat]
    <3>1. session' = session \/ session' = [session EXCEPT !.live = FALSE]
      BY <1>12 DEF LogoutDeletes
    <3> QED
      BY <3>1
  <2>2. mark' \in [Ends -> Times]
    BY <1>12 DEF LogoutDeletes
  <2>3. ending' \in [Ends -> {"idle", "delete", "hook", "forget", "hostHook"}]
    BY <1>12 DEF LogoutDeletes
  <2> QED
    BY <1>12, <2>1, <2>2, <2>3 DEF LogoutDeletes
<1>13. ASSUME NEW e \in Ends, HostDeletes(e) PROVE ParticipantsTypeOK'
  BY <1>13 DEF HostDeletes
<1>14. ASSUME NEW e \in Ends, DeleteHook(e) PROVE ParticipantsTypeOK'
  <2>1. rows' = EndRows \/ rows' = rows
    BY <1>14 DEF DeleteHook
  <2>2. rows' \in [Partners -> [expires : Nat, ended : BOOLEAN] \cup {NoTime}]
    <3>1. CASE rows' = EndRows
      <4>1. \A q \in Partners : rows[q] # NoTime => [rows[q] EXCEPT !.ended = TRUE] \in [expires : Nat, ended : BOOLEAN]
        OBVIOUS
      <4> QED
        BY <3>1, <4>1 DEF EndRows
    <3> QED
      BY <2>1, <3>1
  <2>3. loose' \in BOOLEAN /\ silentAt' \in Times
    BY <1>14 DEF DeleteHook
  <2> QED
    BY <1>14, <2>2, <2>3 DEF DeleteHook
<1>15. ASSUME NEW e \in Ends, ForgetParticipants(e) PROVE ParticipantsTypeOK'
  BY <1>15 DEF ForgetParticipants
<1>16. ASSUME NEW e \in Ends, CrashEnding(e) PROVE ParticipantsTypeOK'
  <2>1. deserted' \in Times
    BY <1>16 DEF CrashEnding
  <2> QED
    BY <1>16, <2>1 DEF CrashEnding
<1> QED
  BY <1>1, <1>2, <1>3, <1>4, <1>5, <1>6, <1>7, <1>8, <1>9, <1>10, <1>11, <1>12, <1>13, <1>14,
     <1>15, <1>16 DEF ParticipantsNext

LEMMA MetadataInitTypes == MetadataInit => MetadataTypeOK
BY MetadataAssumption DEF MetadataAssumption, MetadataInit, MetadataTypeOK, NoRun, Fetched

(* The back-off grows to at most RefreshTime. *)
LEMMA MetadataTypes == MetadataTypeOK /\ [MetadataNext]_metadataVars => MetadataTypeOK'
<1> SUFFICES ASSUME MetadataTypeOK, [MetadataNext]_metadataVars PROVE MetadataTypeOK'
  OBVIOUS
<1> USE MetadataAssumption DEF MetadataAssumption, MetadataTypeOK, Fetched, NoRun
<1>1. CASE UNCHANGED metadataVars
  BY <1>1 DEF metadataVars
<1>2. CASE Prepare
  BY <1>2 DEF Prepare
<1>3. CASE ForgetEntry
  BY <1>3 DEF ForgetEntry
<1>4. CASE MetadataTick
  BY <1>4 DEF MetadataTick
<1>5. ASSUME NEW r \in RefreshRuns, Load(r) PROVE MetadataTypeOK'
  BY <1>5 DEF Load
<1>6. ASSUME NEW r \in RefreshRuns, Settle(r) PROVE MetadataTypeOK'
  <2>1. backoff' \in MinBackoff..RefreshTime /\ nextAttempt' \in 0..RefreshTime
    BY <1>6 DEF Settle, Double
  <2>2. learned' \in Documents \cup {None}
    BY <1>6 DEF Settle
  <2> QED
    BY <1>6, <2>1, <2>2 DEF Settle
<1>7. ASSUME NEW r \in RefreshRuns, Cancel(r) PROVE MetadataTypeOK'
  BY <1>7 DEF Cancel
<1>8. ASSUME NEW d \in Fetched, Publish(d) PROVE MetadataTypeOK'
  BY <1>8 DEF Publish
<1> QED
  BY <1>1, <1>2, <1>3, <1>4, <1>5, <1>6, <1>7, <1>8 DEF MetadataNext

(* What an isolate keeps of a session's participants and of an SP's metadata is well *)
(* typed in every reachable state; the back-off never outgrows the refresh time.     *)
THEOREM TypeCorrect == Spec => []TypeOK
<1>1. Init => TypeOK
  BY ParticipantsInitTypes, MetadataInitTypes DEF Init, TypeOK
<1>2. TypeOK /\ [Next]_vars => TypeOK'
  BY ParticipantsTypes, MetadataTypes DEF Next, TypeOK, vars
<1> QED
  BY <1>1, <1>2, PTL DEF Spec

-----------------------------------------------------------------------------
LEMMA InTimeStep ==
  ParticipantsTypeOK /\ EndsOnce /\ InTime /\ [ParticipantsNext]_participantsVars => InTime'
<1> SUFFICES ASSUME ParticipantsTypeOK, EndsOnce, InTime, [ParticipantsNext]_participantsVars,
                    Live', NEW p \in issued' \ behind'
             PROVE  p \in Rows' /\ (rows'[p].expires >= session'.expires \/ Coming')
  BY DEF InTime
<1> USE ParticipantsAssumption DEF ParticipantsAssumption, ParticipantsTypeOK, Times, Rows, EndStep, Unmark, endVars
(* A step that leaves session, rows, refreshes and histories alone keeps it. *)
<1>1. CASE UNCHANGED <<session, rows, moving, behind, issued>> /\ paNow' \in Nat /\ paNow <= paNow'
  <2>1. Live
    BY <1>1 DEF Live
  <2>2. p \in Rows /\ (rows[p].expires >= session.expires \/ Coming)
    BY <1>1, <2>1 DEF InTime
  <2> QED
    BY <1>1, <2>2 DEF Coming
<1>2. ASSUME NEW h \in Signons, RecordParticipant(h)
      PROVE  p \in Rows' /\ (rows'[p].expires >= session'.expires \/ Coming')
  <2>1. signon[h] \in [sp : Partners, expires : Nat]
    BY <1>2 DEF RecordParticipant
  <2>2. Live /\ (Coming => Coming')
    BY <1>2 DEF RecordParticipant, Live, Coming
  <2>3. CASE p = signon[h].sp
    <3>1. rows'[p] = Recorded(p, signon[h].expires) /\ p \in Partners
      BY <1>2, <2>1, <2>3 DEF RecordParticipant
    <3>2. rows'[p] \in [expires : Nat, ended : BOOLEAN] /\ rows'[p].expires = signon[h].expires
      BY <2>1, <3>1 DEF Recorded
    <3>3. ~(signon[h].expires < session.expires) /\ session' = session
      BY <1>2, <2>3 DEF RecordParticipant
    <3> QED
      BY <2>1, <3>1, <3>2, <3>3
  <2>4. CASE p # signon[h].sp
    <3>1. p \in issued \ behind /\ rows'[p] = rows[p]
      BY <1>2, <2>1, <2>4 DEF RecordParticipant
    <3> QED
      BY <1>2, <2>2, <3>1 DEF InTime, RecordParticipant
  <2> QED
    BY <2>3, <2>4
<1>3. ASSUME NEW r \in Refreshes, RefreshSession(r)
      PROVE  p \in Rows' /\ (rows'[p].expires >= session'.expires \/ Coming')
  <2>1. moving'[r] = session'.expires /\ moving'[r] # NoTime
    BY <1>3 DEF RefreshSession
  <2>2. p \in Rows'
    BY <1>3 DEF RefreshSession, InTime
  <2> QED
    BY <2>1, <2>2 DEF Coming
<1>4. ASSUME NEW r \in Refreshes, ExtendParticipants(r)
      PROVE  p \in Rows' /\ (rows'[p].expires >= session'.expires \/ Coming')
  <2>1. moving[r] \in Nat /\ Live /\ UNCHANGED <<session, issued>>
    BY <1>4 DEF ExtendParticipants, Live
  <2>2. CASE moving[r] < session.expires
    BY <1>4, <2>1, <2>2 DEF ExtendParticipants, InTime
  <2>3. CASE ~(moving[r] < session.expires)
    <3>1. p \in Rows
      BY <1>4, <2>1, <2>3 DEF ExtendParticipants, InTime
    <3>2. rows'[p] = [rows[p] EXCEPT !.expires = moving[r]]
      BY <1>4, <3>1 DEF ExtendParticipants
    <3>3. rows[p] \in [expires : Nat, ended : BOOLEAN]
      BY <3>1
    <3>4. rows'[p] \in [expires : Nat, ended : BOOLEAN] /\ rows'[p].expires = moving[r]
      BY <2>1, <3>2, <3>3
    <3> QED
      BY <2>1, <2>3, <3>4
  <2> QED
    BY <2>2, <2>3
<1>5. ASSUME NEW r \in Refreshes, ExtendFails(r)
      PROVE  p \in Rows' /\ (rows'[p].expires >= session'.expires \/ Coming')
  BY <1>5 DEF ExtendFails, InTime, Live
<1>6. ASSUME SweepParticipants
      PROVE  p \in Rows' /\ (rows'[p].expires >= session'.expires \/ Coming')
  <2>1. Live /\ (Coming => Coming') /\ p \in issued \ behind
    BY <1>6 DEF SweepParticipants, Live, Coming
  <2>2. p \in Rows /\ (rows[p].expires >= session.expires \/ Coming)
    BY <2>1 DEF InTime
  <2>3. ~(rows[p].expires < paNow)
    <3>1. CASE Coming
      BY <1>6, <2>2, <3>1 DEF SweepParticipants, Coming
    <3>2. CASE ~Coming
      BY <2>1, <2>2, <3>2 DEF Live
    <3> QED
      BY <3>1, <3>2
  <2>4. rows'[p] = rows[p]
    BY <1>6, <2>2, <2>3 DEF SweepParticipants
  <2> QED
    BY <1>6, <2>1, <2>2, <2>4 DEF SweepParticipants
(* The rest happens to a session that is gone. *)
<1>7. ASSUME NEW e \in Ends, LogoutDeletes(e) \/ HostDeletes(e)
      PROVE  p \in Rows' /\ (rows'[p].expires >= session'.expires \/ Coming')
  <2>1. UNCHANGED <<paNow, session, rows, moving, behind, issued>>
    BY <1>7 DEF LogoutDeletes, HostDeletes, Live
  <2> QED
    BY <1>1, <2>1
<1>8. ASSUME NEW e \in Ends, DeleteHook(e) \/ ForgetParticipants(e) PROVE FALSE
  BY <1>8 DEF DeleteHook, ForgetParticipants, EndsOnce, Hooks, Live
<1>9. ASSUME ForgetUser PROVE FALSE
  BY <1>9 DEF ForgetUser, Live
<1>10. ASSUME NEW h \in Signons, NEW q \in Partners, ReadSession(h, q) \/ GiveUpSignon(h)
       PROVE  UNCHANGED <<paNow, session, rows, moving, behind, issued>>
  BY <1>10 DEF ReadSession, GiveUpSignon
<1>11. ASSUME NEW e \in Ends, MarkEnding(e) \/ CrashEnding(e)
       PROVE  UNCHANGED <<paNow, session, rows, moving, behind, issued>>
  BY <1>11 DEF MarkEnding, CrashEnding
<1>12. ASSUME PaTick
       PROVE  UNCHANGED <<session, rows, moving, behind, issued>> /\ paNow' \in Nat /\ paNow <= paNow'
  BY <1>12 DEF PaTick
<1>13. CASE UNCHANGED participantsVars
  BY <1>1, <1>13 DEF participantsVars
<1>14. CASE ParticipantsNext
  <2>1. CASE \E h \in Signons : GiveUpSignon(h)
    <3>1. PICK h \in Signons : GiveUpSignon(h)
      BY <2>1
    <3>2. UNCHANGED <<paNow, session, rows, moving, behind, issued>>
      BY <3>1 DEF GiveUpSignon
    <3> QED
      BY <1>1, <3>2
  <2>2. CASE ~(\E h \in Signons : GiveUpSignon(h))
    BY <1>1, <1>2, <1>3, <1>4, <1>5, <1>6, <1>7, <1>8, <1>9, <1>10, <1>11, <1>12, <1>14, <2>2 DEF ParticipantsNext
  <2> QED
    BY <2>1, <2>2
<1> QED
  BY <1>13, <1>14

-----------------------------------------------------------------------------
EndFrame == UNCHANGED <<session, mark, ending, deserted, loose, silentAt>>

(* What does not end the session leaves what its end has done as it is. *)
LEMMA EndsFrame ==
  ASSUME ParticipantsTypeOK, EndInv, EndFrame, \A p \in Rows' \ stray' : session.live \/ p \in Rows \ stray,
         \A p \in (Rows' \ stray') \cap Rows : rows[p].ended => rows'[p].ended
  PROVE  EndInv'
<1> USE DEF EndFrame
<1>1. EndsOnce'
  BY DEF EndInv, EndsOnce
<1>2. MarksOK'
  BY DEF EndInv, MarksOK, Left
<1>3. Seen'
  <2> SUFFICES ASSUME ~session.live, ~loose PROVE Seen'
    BY DEF Seen
  <2>1. CASE AllShown
    BY <2>1 DEF AllShown, Seen
  <2>2. CASE ~AllShown
    BY <2>2 DEF EndInv, Seen, Hidden
  <2> QED
    BY <2>1, <2>2
<1> QED
  BY <1>1, <1>2, <1>3 DEF EndInv

LEMMA EndsStep ==
  ParticipantsTypeOK /\ EndInv /\ [ParticipantsNext]_participantsVars => EndInv'
<1> SUFFICES ASSUME ParticipantsTypeOK, EndInv, [ParticipantsNext]_participantsVars PROVE EndInv'
  OBVIOUS
<1> USE ParticipantsAssumption DEF ParticipantsAssumption, ParticipantsTypeOK, Times, Rows, EndStep, Unmark, endVars
<1>1. CASE EndFrame /\ UNCHANGED <<rows, stray>>
  BY <1>1, EndsFrame
<1>2. ASSUME NEW h \in Signons, RecordParticipant(h) PROVE EndInv'
  <2>1. EndFrame
    BY <1>2 DEF RecordParticipant, EndFrame
  <2>2. signon[h] \in [sp : Partners, expires : Nat]
    BY <1>2 DEF RecordParticipant
  <2>3. \A p \in Partners \ {signon[h].sp} : rows'[p] = rows[p]
    BY <1>2, <2>2 DEF RecordParticipant
  <2>4. session.live \/ (signon[h].sp \in stray' /\ stray \subseteq stray')
    BY <1>2 DEF RecordParticipant
  <2>5. stray \subseteq stray'
    BY <1>2 DEF RecordParticipant
  <2>6. ASSUME signon[h].sp \in Rows, rows[signon[h].sp].ended PROVE rows'[signon[h].sp].ended
    <3>1. rows'[signon[h].sp] = Recorded(signon[h].sp, signon[h].expires)
      BY <1>2, <2>2 DEF RecordParticipant
    <3> QED
      BY <2>6, <3>1 DEF Recorded
  <2>7. \A p \in Rows' \ stray' : session.live \/ p \in Rows \ stray
    BY <2>3, <2>4, <2>5
  <2>8. \A p \in (Rows' \ stray') \cap Rows : rows[p].ended => rows'[p].ended
    BY <2>3, <2>6
  <2> QED
    BY <2>1, <2>7, <2>8, EndsFrame
<1>3. ASSUME NEW r \in Refreshes, ExtendParticipants(r) PROVE EndInv'
  <2>1. EndFrame /\ stray' = stray
    BY <1>3 DEF ExtendParticipants, EndFrame
  <2>2. \A p \in Partners : rows'[p] = IF rows[p] = NoTime THEN NoTime ELSE [rows[p] EXCEPT !.expires = moving[r]]
    BY <1>3 DEF ExtendParticipants
  <2>3. \A p \in Rows : rows'[p].ended = rows[p].ended
    <3> SUFFICES ASSUME NEW p \in Rows PROVE rows'[p].ended = rows[p].ended
      OBVIOUS
    <3>1. rows[p] \in [expires : Nat, ended : BOOLEAN] /\ rows'[p] = [rows[p] EXCEPT !.expires = moving[r]]
      BY <2>2
    <3> QED
      BY <3>1
  <2>4. Rows' \subseteq Rows
    BY <2>2
  <2> QED
    BY <2>1, <2>3, <2>4, EndsFrame
<1>4. CASE SweepParticipants
  <2>1. EndFrame /\ stray' = stray
    BY <1>4 DEF SweepParticipants, EndFrame
  <2>2. \A p \in Rows' : p \in Rows /\ rows'[p] = rows[p]
    BY <1>4 DEF SweepParticipants
  <2> QED
    BY <2>1, <2>2, EndsFrame
<1>5. CASE ForgetUser
  <2>1. EndFrame /\ Rows' = {}
    BY <1>5 DEF ForgetUser, EndFrame
  <2> QED
    BY <2>1, EndsFrame
<1>6. ASSUME NEW r \in Refreshes, RefreshSession(r) PROVE EndInv'
  <2>1. session.live /\ session'.live /\ UNCHANGED <<rows, stray, endVars>>
    BY <1>6 DEF RefreshSession, Live
  <2> QED
    BY <2>1 DEF EndInv, EndsOnce, MarksOK, Left, Seen
<1>7. ASSUME NEW e \in Ends, MarkEnding(e) PROVE EndInv'
  <2>1. /\ session.live /\ UNCHANGED <<session, silentAt, loose, deserted>>
        /\ mark'[e] = paNow /\ ending'[e] = "delete" /\ paNow # NoTime
        /\ \A f \in Ends \ {e} : mark'[f] = mark[f] /\ ending'[f] = ending[f]
    BY <1>7 DEF MarkEnding
  <2>2. EndsOnce'
    BY <2>1 DEF EndInv, EndsOnce, Hooks
  <2>3. MarksOK' /\ Seen'
    BY <2>1 DEF EndInv, MarksOK, Left, Seen
  <2> QED
    BY <2>2, <2>3 DEF EndInv
<1>8. ASSUME NEW e \in Ends, LogoutDeletes(e) PROVE EndInv'
  <2>1. /\ UNCHANGED <<rows, stray, silentAt, loose, deserted>>
        /\ ending[e] = "delete"
        /\ \A f \in Ends \ {e} : mark'[f] = mark[f] /\ ending'[f] = ending[f]
    BY <1>8 DEF LogoutDeletes
  <2>2. CASE session.live /\ ~session'.live /\ ending'[e] = "hook" /\ mark' = mark
    <3>1. \A f \in Ends : ending[f] \notin Hooks
      BY <2>2 DEF EndInv, EndsOnce
    <3>2. EndsOnce'
      BY <2>1, <2>2, <3>1 DEF EndInv, EndsOnce
    <3>3. MarksOK'
      BY <2>1, <2>2 DEF EndInv, MarksOK, Left
    <3>4. Seen'
      BY <2>2 DEF Seen, Hooks
    <3> QED
      BY <3>2, <3>3, <3>4 DEF EndInv
  <2>3. CASE ~session.live /\ session' = session /\ ending'[e] = "forget" /\ mark' = mark
    <3>1. EndsOnce'
      BY <2>1, <2>3 DEF EndInv, EndsOnce, Hooks
    <3>2. MarksOK'
      BY <2>1, <2>3 DEF EndInv, MarksOK, Left
    <3>3. Seen'
      BY <2>3 DEF Seen
    <3> QED
      BY <3>1, <3>2, <3>3 DEF EndInv
  <2>4. CASE session' = session /\ ending'[e] = "idle" /\ mark'[e] = NoTime
    <3>1. EndsOnce'
      BY <2>1, <2>4 DEF EndInv, EndsOnce, Hooks
    <3>2. MarksOK'
      BY <2>1, <2>4 DEF EndInv, MarksOK, Left
    <3>3. Seen'
      BY <2>1, <2>4 DEF EndInv, Seen, Hooks, AllShown, Hidden
    <3> QED
      BY <3>1, <3>2, <3>3 DEF EndInv
  <2>5. \/ session.live /\ ~session'.live /\ ending'[e] = "hook" /\ mark' = mark
        \/ ~session.live /\ session' = session /\ ending'[e] = "forget" /\ mark' = mark
        \/ session' = session /\ ending'[e] = "idle" /\ mark'[e] = NoTime
    BY <1>8 DEF LogoutDeletes
  <2> QED
    BY <2>2, <2>3, <2>4, <2>5
<1>9. ASSUME NEW e \in Ends, HostDeletes(e) PROVE EndInv'
  <2>1. /\ UNCHANGED <<rows, stray, silentAt, loose, deserted, mark>>
        /\ session.live /\ ~session'.live /\ ending[e] = "idle" /\ ending'[e] = "hostHook"
        /\ \A f \in Ends \ {e} : ending'[f] = ending[f]
    BY <1>9 DEF HostDeletes
  <2>2. \A f \in Ends : ending[f] \notin Hooks
    BY <2>1 DEF EndInv, EndsOnce
  <2>3. EndsOnce'
    BY <2>1, <2>2 DEF EndInv, EndsOnce
  <2>4. MarksOK'
    BY <2>1 DEF EndInv, MarksOK, Left
  <2>5. Seen'
    BY <2>1 DEF Seen, Hooks
  <2> QED
    BY <2>3, <2>4, <2>5 DEF EndInv
<1>10. ASSUME NEW e \in Ends, DeleteHook(e) PROVE EndInv'
  <2>1. /\ UNCHANGED <<paNow, session, stray, deserted>>
        /\ ending[e] \in Hooks /\ ~session.live /\ silentAt = NoTime
        /\ mark'[e] = NoTime
        /\ ending'[e] = IF ending[e] = "hook" THEN "forget" ELSE "idle"
        /\ \A f \in Ends \ {e} : mark'[f] = mark[f] /\ ending'[f] = ending[f]
    BY <1>10 DEF DeleteHook, EndInv, EndsOnce, Hooks
  <2>2. \A f \in Ends : ending'[f] \notin Hooks
    BY <2>1 DEF EndInv, EndsOnce, Hooks
  <2>3. EndsOnce'
    BY <2>1, <2>2 DEF EndInv, EndsOnce
  <2>4. MarksOK'
    BY <2>1 DEF EndInv, MarksOK, Left, Hooks
  <2>5. Seen'
    <3> SUFFICES ASSUME ~loose', ending[e] = "hostHook" PROVE Seen'
      BY <2>1 DEF Seen, Hooks
    <3>1. CASE Marked(e)
      <4>1. silentAt' = paNow /\ mark[e] \in Nat /\ paNow <= mark[e] + EndingTtl
        BY <1>10, <3>1 DEF DeleteHook, Marked
      <4>2. deserted \in Nat /\ mark[e] <= deserted
        BY <4>1 DEF EndInv, MarksOK, Left
      <4>3. Hidden'
        BY <2>1, <4>1, <4>2 DEF Hidden
      <4> QED
        BY <4>3 DEF Seen
    <3>2. CASE ~Marked(e)
      <4>1. rows' = EndRows
        BY <1>10, <3>2 DEF DeleteHook
      <4>2. \A p \in Rows' : rows[p] \in [expires : Nat, ended : BOOLEAN] /\ rows'[p] = [rows[p] EXCEPT !.ended = TRUE]
        BY <4>1 DEF EndRows
      <4>3. \A p \in Rows' : rows'[p].ended
        <5> SUFFICES ASSUME NEW p \in Rows' PROVE rows'[p].ended
          OBVIOUS
        <5>1. rows[p] \in [expires : Nat, ended : BOOLEAN] /\ rows'[p] = [rows[p] EXCEPT !.ended = TRUE]
          BY <4>2
        <5> QED
          BY <5>1
      <4>4. AllShown'
        BY <4>3 DEF AllShown
      <4> QED
        BY <4>4 DEF Seen
    <3> QED
      BY <3>1, <3>2
  <2> QED
    BY <2>3, <2>4, <2>5 DEF EndInv
<1>11. ASSUME NEW e \in Ends, ForgetParticipants(e) PROVE EndInv'
  <2>1. /\ UNCHANGED <<session, stray, deserted, mark, silentAt>>
        /\ ending[e] = "forget" /\ ~session.live /\ ending'[e] = "idle"
        /\ \A f \in Ends \ {e} : ending'[f] = ending[f]
        /\ Rows' = {} \/ loose'
    BY <1>11 DEF ForgetParticipants, EndInv, EndsOnce
  <2>2. EndsOnce'
    BY <2>1 DEF EndInv, EndsOnce, Hooks
  <2>3. MarksOK'
    BY <2>1 DEF EndInv, MarksOK, Left
  <2>4. Seen'
    BY <2>1 DEF Seen, AllShown
  <2> QED
    BY <2>2, <2>3, <2>4 DEF EndInv
<1>12. ASSUME NEW e \in Ends, CrashEnding(e) PROVE EndInv'
  <2>1. /\ UNCHANGED <<session, rows, stray, mark, silentAt>>
        /\ ending[e] # "idle" /\ ending'[e] = "idle"
        /\ \A f \in Ends \ {e} : ending'[f] = ending[f]
    BY <1>12 DEF CrashEnding
  <2>2. EndsOnce'
    BY <2>1 DEF EndInv, EndsOnce, Hooks
  <2>3. CASE ending[e] = "delete"
    <3>1. mark[e] \in Nat
      BY <2>3 DEF EndInv, MarksOK
    <3>2. loose' = loose /\ deserted' = IF deserted # NoTime /\ deserted > mark[e] THEN deserted ELSE mark[e]
      BY <1>12, <2>3 DEF CrashEnding
    <3>3. deserted' \in Nat /\ mark[e] <= deserted'
      BY <3>1, <3>2
    <3>4. deserted # NoTime => deserted <= deserted'
      BY <3>1, <3>2
    <3>5. MarksOK'
      BY <2>1, <3>3, <3>4 DEF EndInv, MarksOK, Left
    <3>6. Hidden => Hidden'
      <4> SUFFICES ASSUME Hidden PROVE Hidden'
        OBVIOUS
      <4>1. deserted \in Nat /\ silentAt \in Nat /\ silentAt <= deserted + EndingTtl
        BY DEF Hidden
      <4>2. deserted <= deserted'
        BY <3>4, <4>1
      <4>3. silentAt <= deserted' + EndingTtl
        <5>1. \A a, b, d, t \in Nat : a <= b + t /\ b <= d => a <= d + t
          OBVIOUS
        <5> QED
          BY <3>3, <4>1, <4>2, <5>1
      <4> QED
        BY <2>1, <3>3, <4>1, <4>3 DEF Hidden
    <3>7. Seen'
      BY <2>1, <2>3, <3>2, <3>6 DEF EndInv, Seen, Hooks, AllShown
    <3> QED
      BY <2>2, <3>5, <3>7 DEF EndInv
  <2>4. CASE ending[e] # "delete"
    <3>1. loose' /\ deserted' = deserted /\ ~session.live
      BY <1>12, <2>1, <2>4 DEF CrashEnding, EndInv, EndsOnce, Hooks
    <3>2. MarksOK'
      BY <2>1, <3>1 DEF EndInv, MarksOK, Left
    <3> QED
      BY <2>2, <3>1, <3>2 DEF EndInv, Seen
  <2> QED
    BY <2>3, <2>4
<1>13. ASSUME NEW h \in Signons, NEW p \in Partners, ReadSession(h, p) PROVE EndInv'
  BY <1>1, <1>13 DEF ReadSession, EndFrame
<1>14. ASSUME NEW h \in Signons, GiveUpSignon(h) PROVE EndInv'
  BY <1>1, <1>14 DEF GiveUpSignon, EndFrame
<1>15. ASSUME NEW r \in Refreshes, ExtendFails(r) PROVE EndInv'
  BY <1>1, <1>15 DEF ExtendFails, EndFrame
<1>16. CASE PaTick \/ UNCHANGED participantsVars
  BY <1>1, <1>16 DEF PaTick, EndFrame, participantsVars
<1> QED
  BY <1>2, <1>3, <1>4, <1>5, <1>6, <1>7, <1>8, <1>9, <1>10, <1>11, <1>12, <1>13, <1>14, <1>15, <1>16
     DEF ParticipantsNext

LEMMA ParticipantsInductive == ParticipantsSpec => [](ParticipantsTypeOK /\ InTime /\ EndInv)
<1>1. ParticipantsInit => ParticipantsTypeOK /\ InTime /\ EndInv
  <2> SUFFICES ASSUME ParticipantsInit PROVE InTime /\ EndInv
    BY ParticipantsInitTypes
  <2> QED
    BY DEF ParticipantsInit, InTime, EndInv, EndsOnce, Hooks, MarksOK, Seen
<1>2. /\ ParticipantsTypeOK /\ InTime /\ EndInv /\ [ParticipantsNext]_participantsVars
      => (ParticipantsTypeOK /\ InTime /\ EndInv)'
  BY ParticipantsTypes, InTimeStep, EndsStep DEF EndInv
<1> QED
  BY <1>1, <1>2, PTL DEF ParticipantsSpec

(* While the session lives, the row of every SP that got an assertion in it does, and *)
(* no sweep takes it (storage/participants.ts, the update hook of index.ts).          *)
THEOREM ParticipantsLiveOn == ParticipantsSpec => []ParticipantsOutlive
<1>1. InTime => ParticipantsOutlive
  BY DEF InTime, Coming, ParticipantsOutlive
<1> QED
  BY ParticipantsInductive, <1>1, PTL

(* Once an end is through, its SPs are told or shown as ended, unless a mark that was *)
(* left by a dying logout hid it within ENDING_TTL_MS (markEndingBySlo, index.ts).    *)
THEOREM EndsAreNotHidden == ParticipantsSpec => []EndsAreShown
<1>1. EndInv => EndsAreShown
  BY DEF EndInv, Seen, Hooks, AllShown, Hidden, EndsAreShown
<1> QED
  BY ParticipantsInductive, <1>1, PTL
=============================================================================
