------------------------ MODULE SingleLogout_proofs -------------------------
(***************************************************************************)
(* Theorems about Single Logout, for any number of SPs, isolates, logouts  *)
(* and deletions of the session.                                           *)
(*                                                                         *)
(* TInv says what the types alone do not: a chain that waits knows for     *)
(* whose answer, and a deletion by the host never enters a chain. EInv     *)
(* says where an ender may stand before the end, SInv what a chain owes,   *)
(* MInv who set a mark, AInv what a logout that is alone may do, and NInv  *)
(* where an SP that was recorded in time can be found.                     *)
(***************************************************************************)
EXTENDS SingleLogout, FiniteSetTheorems, TLAPS

ChainOnly == {"list", "forget", "hop", "waiting", "noSession"}

WaitsForOne == \A l \in Logouts : pc[l] = "waiting" => current[l] # NoSP
HostsDoNotHop == \A d \in Deleters : pc[d] \notin ChainOnly

TInv == TypeOK /\ WaitsForOne /\ HostsDoNotHop

-----------------------------------------------------------------------------
(* A move of one ender keeps the places typed, and says where it went. *)
LEMMA GoType ==
  ASSUME NEW e \in Enders, NEW from, NEW to \in Locations, TypeOK, Go(e, from, to)
  PROVE  /\ pc' \in [Enders -> Locations]
         /\ pc[e] = from /\ pc'[e] = to
         /\ \A f \in Enders \ {e} : pc'[f] = pc[f]
BY DEF Go, TypeOK

LEMMA AfterHookType == \A e \in Enders :
  /\ AfterHook(e) \in Locations \ {"waiting"}
  /\ e \in Deleters => AfterHook(e) \notin ChainOnly
BY ConstantsAssumption
   DEF ConstantsAssumption, AfterHook, Locations, EndingAt, Terminal, ChainOnly, Enders

(* What a limit leaves of a set, and what a read finds, are parts of it. *)
LEMMA FoundType ==
  ASSUME NEW S \in Found, NEW ps \in Capped(S)
  PROVE  ps \subseteq S /\ S \subseteq Active /\ Active \subseteq SPs
BY DEF Found, Capped, FirstOf, Active

LEMMA TInvInit == Init => TInv
<1> SUFFICES ASSUME Init PROVE TInv
  OBVIOUS
<1>1. TypeOK
  BY ConstantsAssumption DEF ConstantsAssumption, Init, TypeOK, Locations, Enders
<1>2. WaitsForOne /\ HostsDoNotHop
  BY ConstantsAssumption
     DEF ConstantsAssumption, Init, WaitsForOne, HostsDoNotHop, Enders, ChainOnly
<1> QED
  BY <1>1, <1>2 DEF TInv

LEMMA TInvStep == TInv /\ [Next]_vars => TInv'
<1> SUFFICES ASSUME TInv, [Next]_vars PROVE TInv'
  OBVIOUS
<1> USE DEF TInv
<1>loc. /\ Logouts \subseteq Enders /\ Deleters \subseteq Enders
        /\ Logouts \cap Deleters = {} /\ Idp \notin SPs /\ NoSP \notin SPs
        /\ {"idle", "waiting", "list", "lookup", "delete", "hook", "read", "report", "forget",
            "hop", "finished", "noSession", "failed", "lost"} \subseteq Locations
  BY ConstantsAssumption DEF ConstantsAssumption, Enders, Locations, EndingAt, Terminal
<1>1. ASSUME NEW s \in SPs, Sign(s) PROVE TInv'
  BY <1>1 DEF Sign, TypeOK, WaitsForOne, HostsDoNotHop, db, chain, history
<1>2. ASSUME NEW s \in SPs, Record(s) PROVE TInv'
  BY <1>2 DEF Record, TypeOK, WaitsForOne, HostsDoNotHop, chain
<1>3. ASSUME NEW l \in Logouts, Begin(l) \/ SignOut(l) PROVE TInv'
  <2>1. pc' \in [Enders -> Locations] /\ pc'[l] = "list"
        /\ \A f \in Enders \ {l} : pc'[f] = pc[f]
    BY <1>3, <1>loc, GoType DEF Begin, SignOut
  <2> QED
    BY <1>3, <2>1, <1>loc DEF Begin, SignOut, TypeOK, WaitsForOne, HostsDoNotHop, db, chain, history
<1>4. ASSUME NEW l \in Logouts, BeginNoSession(l) PROVE TInv'
  <2>1. /\ pc' \in [Enders -> Locations] /\ pc'[l] \in {"noSession", "failed"}
        /\ \A f \in Enders \ {l} : pc'[f] = pc[f]
    BY <1>4, <1>loc, GoType DEF BeginNoSession
  <2> QED
    BY <1>4, <2>1, <1>loc
       DEF BeginNoSession, TypeOK, WaitsForOne, HostsDoNotHop, db, history
<1>5. ASSUME NEW l \in Logouts, List(l) PROVE TInv'
  <2>1. /\ pc' \in [Enders -> Locations] /\ pc'[l] = "lookup"
        /\ \A f \in Enders \ {l} : pc'[f] = pc[f]
    BY <1>5, <1>loc, GoType DEF List
  <2>2. remaining' \in [Logouts -> SUBSET SPs] /\ partial' \in [Logouts -> BOOLEAN]
    <3>1. CASE \E S \in Found :
                 /\ \E ps \in Capped(S) : remaining' = [remaining EXCEPT ![l] = ps \ {origin[l]}]
                 /\ partial' = [partial EXCEPT ![l] = Truncated(S)]
      BY <3>1, FoundType DEF TypeOK, Truncated
    <3>2. CASE partial' = [partial EXCEPT ![l] = TRUE] /\ UNCHANGED remaining
      BY <3>2 DEF TypeOK
    <3> QED
      BY <1>5, <3>1, <3>2 DEF List
  <2>3. expected' \in [Logouts -> SUBSET SPs]
    BY <1>5 DEF List, TypeOK, Active
  <2> QED
    BY <1>5, <2>1, <2>2, <2>3, <1>loc DEF List, TypeOK, WaitsForOne, HostsDoNotHop, db
<1>6. ASSUME NEW d \in Deleters, BeginDelete(d) PROVE TInv'
  <2>1. /\ pc' \in [Enders -> Locations] /\ pc'[d] = "lookup"
        /\ \A f \in Enders \ {d} : pc'[f] = pc[f]
    BY <1>6, <1>loc, GoType DEF BeginDelete
  <2> QED
    BY <1>6, <2>1, <1>loc
       DEF BeginDelete, TypeOK, WaitsForOne, HostsDoNotHop, ChainOnly, db, chain, history
<1>7. ASSUME NEW e \in Enders, End(e) PROVE TInv'
  <2>1. CASE Lookup(e)
    <3>1. /\ pc' \in [Enders -> Locations] /\ pc'[e] = "delete"
          /\ \A f \in Enders \ {e} : pc'[f] = pc[f]
      BY <2>1, <1>loc, GoType DEF Lookup
    <3> QED
      BY <2>1, <3>1, <1>loc
         DEF Lookup, TypeOK, WaitsForOne, HostsDoNotHop, ChainOnly, db, chain, history
  <2>2. CASE Delete(e)
    <3>1. /\ pc' \in [Enders -> Locations] /\ pc'[e] \in {"hook", AfterHook(e)}
          /\ \A f \in Enders \ {e} : pc'[f] = pc[f]
      BY <2>2, <1>loc, AfterHookType, GoType DEF Delete
    <3> QED
      BY <2>2, <3>1, <1>loc, AfterHookType
         DEF Delete, TypeOK, WaitsForOne, HostsDoNotHop, ChainOnly, chain, history
  <2>3. CASE DeleteFails(e)
    <3>1. /\ pc' \in [Enders -> Locations] /\ pc'[e] = "failed"
          /\ \A f \in Enders \ {e} : pc'[f] = pc[f]
      BY <2>3, <1>loc, GoType DEF DeleteFails
    <3> QED
      BY <2>3, <3>1, <1>loc
         DEF DeleteFails, TypeOK, WaitsForOne, HostsDoNotHop, ChainOnly, db, history
  <2>4. CASE Hook(e)
    <3>1. /\ pc' \in [Enders -> Locations] /\ pc'[e] \in {"read", AfterHook(e)}
          /\ \A f \in Enders \ {e} : pc'[f] = pc[f]
      BY <2>4, <1>loc, AfterHookType, GoType DEF Hook
    <3> QED
      BY <2>4, <3>1, <1>loc, AfterHookType
         DEF Hook, TypeOK, WaitsForOne, HostsDoNotHop, ChainOnly, db, chain, history
  <2>5. CASE Read(e)
    <3>1. PICK S \in Found :
            /\ Go(e, "read", IF S = {} THEN AfterHook(e) ELSE "report")
            /\ \E ps \in Capped(S) : reporting' = [reporting EXCEPT ![e] = ps]
      BY <2>5 DEF Read
    <3>2. /\ pc' \in [Enders -> Locations] /\ pc'[e] \in {"report", AfterHook(e)}
          /\ \A f \in Enders \ {e} : pc'[f] = pc[f]
      BY <3>1, <1>loc, AfterHookType, GoType
    <3>3. reporting' \in [Enders -> SUBSET SPs]
      BY <3>1, FoundType DEF TypeOK
    <3> QED
      BY <2>5, <3>2, <3>3, <1>loc, AfterHookType
         DEF Read, TypeOK, WaitsForOne, HostsDoNotHop, ChainOnly, db, chain, history
  <2>6. CASE Report(e)
    <3>1. /\ pc' \in [Enders -> Locations] /\ pc'[e] = AfterHook(e)
          /\ \A f \in Enders \ {e} : pc'[f] = pc[f]
      BY <2>6, <1>loc, AfterHookType, GoType DEF Report
    <3> QED
      BY <2>6, <3>1, <1>loc, AfterHookType
         DEF Report, TypeOK, WaitsForOne, HostsDoNotHop, chain
  <2>7. CASE HookFails(e)
    <3>1. /\ pc' \in [Enders -> Locations]
          /\ pc'[e] = IF e \in Logouts THEN "forget" ELSE "failed"
          /\ \A f \in Enders \ {e} : pc'[f] = pc[f]
      BY <2>7, <1>loc, GoType DEF HookFails
    <3> QED
      BY <2>7, <3>1, <1>loc
         DEF HookFails, TypeOK, WaitsForOne, HostsDoNotHop, ChainOnly, db, chain, history
  <2> QED
    BY <1>7, <2>1, <2>2, <2>3, <2>4, <2>5, <2>6, <2>7 DEF End
<1>8. ASSUME NEW l \in Logouts, Forget(l) PROVE TInv'
  <2>1. /\ pc' \in [Enders -> Locations] /\ pc'[l] = "hop"
        /\ \A f \in Enders \ {l} : pc'[f] = pc[f]
    BY <1>8, <1>loc, GoType DEF Forget
  <2> QED
    BY <1>8, <2>1, <1>loc DEF Forget, TypeOK, WaitsForOne, HostsDoNotHop, chain, history
<1>9. ASSUME NEW l \in Logouts, NEW s \in SPs, SendRequest(l, s) PROVE TInv'
  <2>1. /\ pc' \in [Enders -> Locations] /\ pc'[l] = "waiting"
        /\ \A f \in Enders \ {l} : pc'[f] = pc[f]
    BY <1>9, <1>loc, GoType DEF SendRequest
  <2> QED
    BY <1>9, <2>1, <1>loc DEF SendRequest, TypeOK, WaitsForOne, HostsDoNotHop, db
<1>10. ASSUME NEW l \in Logouts, NEW s \in SPs, Skip(l, s) PROVE TInv'
  BY <1>10 DEF Skip, TypeOK, WaitsForOne, HostsDoNotHop, db, history
<1>11. ASSUME NEW l \in Logouts, Response(l) PROVE TInv'
  <2>1. /\ pc' \in [Enders -> Locations] /\ pc'[l] = "hop" /\ pc[l] = "waiting"
        /\ \A f \in Enders \ {l} : pc'[f] = pc[f]
    BY <1>11, <1>loc, GoType DEF Response
  <2>2. current[l] \in SPs
    BY <2>1 DEF TypeOK, WaitsForOne
  <2>3. /\ current' = [current EXCEPT ![l] = NoSP]
        /\ \/ confirmed' = [confirmed EXCEPT ![l] = @ \cup {current[l]}] /\ partial' = partial
           \/ partial' = [partial EXCEPT ![l] = TRUE] /\ confirmed' = confirmed
        /\ UNCHANGED <<db, marked, signOn, home, found, reporting, origin, remaining, answer, told,
                       expected, reported, stranded, late, slow>>
    BY <1>11 DEF Response
  <2>4. partial' \in [Logouts -> BOOLEAN] /\ confirmed' \in [Logouts -> SUBSET SPs]
    <3>1. CASE confirmed' = [confirmed EXCEPT ![l] = @ \cup {current[l]}] /\ partial' = partial
      BY <3>1, <2>2 DEF TypeOK
    <3>2. CASE partial' = [partial EXCEPT ![l] = TRUE] /\ confirmed' = confirmed
      BY <3>2 DEF TypeOK
    <3> QED
      BY <2>3, <3>1, <3>2
  <2>5. TypeOK'
    BY <2>1, <2>3, <2>4 DEF TypeOK, db
  <2>6. WaitsForOne'
    BY <2>1, <2>3, <1>loc DEF WaitsForOne, TypeOK
  <2>7. HostsDoNotHop'
    BY <2>1, <1>loc DEF HostsDoNotHop
  <2> QED
    BY <2>5, <2>6, <2>7
<1>12. ASSUME NEW l \in Logouts, Finish(l) PROVE TInv'
  <2>1. /\ pc' \in [Enders -> Locations] /\ pc'[l] = "finished"
        /\ \A f \in Enders \ {l} : pc'[f] = pc[f]
    BY <1>12, <1>loc, GoType DEF Finish
  <2>2. PICK a \in {"returnTo", "error", "PartialLogout", "Success"} :
          answer' = [answer EXCEPT ![l] = a]
    BY <1>12 DEF Finish
  <2> QED
    BY <1>12, <2>1, <2>2, <1>loc DEF Finish, TypeOK, WaitsForOne, HostsDoNotHop, db, history
<1>13. ASSUME NEW l \in Logouts, Abandon(l) PROVE TInv'
  <2>1. /\ pc' \in [Enders -> Locations] /\ pc'[l] = "lost"
        /\ \A f \in Enders \ {l} : pc'[f] = pc[f]
    BY <1>13, <1>loc, GoType DEF Abandon
  <2> QED
    BY <1>13, <2>1, <1>loc DEF Abandon, TypeOK, WaitsForOne, HostsDoNotHop, db, chain
<1>14. ASSUME NEW e \in Enders, Crash(e) PROVE TInv'
  <2>1. /\ pc' \in [Enders -> Locations] /\ pc'[e] = "lost"
        /\ \A f \in Enders \ {e} : pc'[f] = pc[f]
    BY <1>14, <1>loc DEF Crash, TypeOK
  <2>2. stranded' \subseteq SPs
    <3>1. CASE pc[e] = "hop"
      <4>1. e \in Logouts
        BY <3>1 DEF HostsDoNotHop, ChainOnly, Enders
      <4> QED
        BY <1>14, <3>1, <4>1 DEF Crash, TypeOK
    <3>2. CASE pc[e] # "hop"
      BY <1>14, <3>2 DEF Crash, TypeOK
    <3> QED
      BY <3>1, <3>2
  <2> QED
    BY <1>14, <2>1, <2>2, <1>loc
       DEF Crash, TypeOK, WaitsForOne, HostsDoNotHop, ChainOnly, db, chain
<1>15. CASE UNCHANGED vars
  BY <1>15 DEF vars, db, chain, history, TypeOK, WaitsForOne, HostsDoNotHop
<1> QED
  BY <1>1, <1>2, <1>3, <1>4, <1>5, <1>6, <1>7, <1>8, <1>9, <1>10, <1>11, <1>12, <1>13, <1>14,
     <1>15, <1>loc DEF Next, Logout

LEMMA TypeInductive == Spec => []TInv
BY TInvInit, TInvStep, PTL DEF Spec

(* Every reachable state of Single Logout is well typed: in particular what a chain *)
(* books as confirmed is always an SP, as a LogoutResponse is only accepted for a   *)
(* state that waits for one (the `ls?.current` of handleSlo).                       *)
THEOREM TypeCorrect == Spec => []TypeOK
BY TypeInductive, PTL DEF TInv

-----------------------------------------------------------------------------
(* The places an ender reaches only when the session row is gone. *)
AfterEnd == {"hook", "read", "report", "forget", "hop", "waiting"}

(* EndsFirst says nothing of the handlers that are about to send; EInv does. *)
EInv ==
  /\ TInv
  /\ \A e \in Enders : pc[e] \in AfterEnd => session = "gone"
  /\ EndsFirst

(* A move of one ender that tells nobody, and enters AfterEnd only when it may. *)
LEMMA EndsKept ==
  ASSUME EInv, TInv', NEW e \in Enders, NEW to,
         pc' = [pc EXCEPT ![e] = to], told' = told, session' \in {session, "gone"},
         to \in AfterEnd => pc[e] \in AfterEnd \/ session' = "gone"
  PROVE  EInv'
BY DEF EInv, TInv, TypeOK, EndsFirst

LEMMA EInvStep == EInv /\ [Next]_vars => EInv'
<1> SUFFICES ASSUME EInv, [Next]_vars PROVE EInv'
  OBVIOUS
<1>t. TInv /\ TInv'
  BY TInvStep DEF EInv
<1>loc. Logouts \subseteq Enders /\ Deleters \subseteq Enders
  BY DEF Enders
<1>1. ASSUME NEW s \in SPs, Sign(s) \/ Record(s) PROVE EInv'
  BY <1>1, <1>t DEF Sign, Record, EInv, EndsFirst, db, history
<1>2. ASSUME NEW l \in Logouts, Begin(l) \/ SignOut(l) \/ BeginNoSession(l) PROVE EInv'
  <2>1. PICK to \in {"list", "noSession", "failed"} : pc' = [pc EXCEPT ![l] = to]
    BY <1>2 DEF Begin, SignOut, BeginNoSession, Go
  <2>2. told' = told /\ session' = session
    BY <1>2 DEF Begin, SignOut, BeginNoSession, db, history
  <2> QED
    BY <2>1, <2>2, <1>t, <1>loc, EndsKept DEF AfterEnd
<1>3. ASSUME NEW l \in Logouts, List(l) PROVE EInv'
  BY <1>3, <1>t, <1>loc, EndsKept DEF List, Go, db, AfterEnd
<1>4. ASSUME NEW d \in Deleters, BeginDelete(d) PROVE EInv'
  BY <1>4, <1>t, <1>loc, EndsKept DEF BeginDelete, Go, db, history, AfterEnd
<1>5. ASSUME NEW e \in Enders, End(e) PROVE EInv'
  <2>1. CASE Lookup(e)
    BY <2>1, <1>t, EndsKept DEF Lookup, Go, db, history, AfterEnd
  <2>2. CASE Delete(e)
    BY <2>2, <1>t, EndsKept DEF Delete, Go, history
  <2>3. CASE DeleteFails(e)
    BY <2>3, <1>t, EndsKept DEF DeleteFails, Go, db, history, AfterEnd
  <2>4. CASE Hook(e)
    BY <2>4, <1>t, EndsKept DEF Hook, Go, db, history, AfterEnd
  <2>5. CASE Read(e)
    <3>1. PICK S \in Found : Go(e, "read", IF S = {} THEN AfterHook(e) ELSE "report")
      BY <2>5 DEF Read
    <3> QED
      BY <2>5, <3>1, <1>t, EndsKept DEF Read, Go, db, history, AfterEnd
  <2>6. CASE Report(e)
    BY <2>6, <1>t, EndsKept DEF Report, Go, AfterEnd
  <2>7. CASE HookFails(e)
    <3>1. PICK here \in {"read", "report"} :
            Go(e, here, IF e \in Logouts THEN "forget" ELSE "failed")
      BY <2>7 DEF HookFails
    <3> QED
      BY <2>7, <3>1, <1>t, EndsKept DEF HookFails, Go, db, history, AfterEnd
  <2> QED
    BY <1>5, <2>1, <2>2, <2>3, <2>4, <2>5, <2>6, <2>7 DEF End
<1>6. ASSUME NEW l \in Logouts, Forget(l) PROVE EInv'
  BY <1>6, <1>t, <1>loc, EndsKept DEF Forget, Go, history, AfterEnd
<1>7. ASSUME NEW l \in Logouts, NEW s \in SPs, SendRequest(l, s) PROVE EInv'
  <2>1. session = "gone"
    BY <1>7, <1>loc DEF SendRequest, Go, EInv, AfterEnd
  <2>2. session' = "gone"
    BY <1>7, <2>1 DEF SendRequest, db
  <2> QED
    BY <2>2, <1>t DEF EInv, EndsFirst
<1>8. ASSUME NEW l \in Logouts, NEW s \in SPs, Skip(l, s) PROVE EInv'
  BY <1>8, <1>t DEF Skip, EInv, EndsFirst, db, history
<1>9. ASSUME NEW l \in Logouts, Response(l) PROVE EInv'
  BY <1>9, <1>t, <1>loc, EndsKept DEF Response, Go, db, AfterEnd
<1>10. ASSUME NEW l \in Logouts, Finish(l) PROVE EInv'
  BY <1>10, <1>t, <1>loc, EndsKept DEF Finish, Go, db, history, AfterEnd
<1>11. ASSUME NEW l \in Logouts, Abandon(l) PROVE EInv'
  BY <1>11, <1>t, <1>loc, EndsKept DEF Abandon, Go, db, AfterEnd
<1>12. ASSUME NEW e \in Enders, Crash(e) PROVE EInv'
  BY <1>12, <1>t, EndsKept DEF Crash, db, AfterEnd
<1>13. CASE UNCHANGED vars
  BY <1>13, <1>t DEF vars, db, history, EInv, EndsFirst
<1> QED
  BY <1>1, <1>2, <1>3, <1>4, <1>5, <1>6, <1>7, <1>8, <1>9, <1>10, <1>11, <1>12, <1>13, <1>loc
     DEF Next, Logout

(* No SP gets a LogoutRequest while the session lives (endSession: "The IdP session *)
(* ends first"), whatever fails, crashes or races.                                  *)
THEOREM SessionEndsFirst == Spec => []EndsFirst
<1>1. Init => EInv
  BY TInvInit DEF Init, EInv, EndsFirst, AfterEnd
<1> QED
  BY <1>1, EInvStep, PTL DEF Spec, EInv

-----------------------------------------------------------------------------
(* One read holds every SP: with more, the rows another ender has marked ended could *)
(* fill the limit and keep a live one out of a list (Found).                         *)
FewSPs == IsFiniteSet(SPs) /\ Cardinality(SPs) <= MaxParticipants + 1

(* Why a Success is earned: from its list on, a logout that is not known to be partial *)
(* has confirmed, still has to tell, or waits for, every SP it expected.               *)
Unlisted(l) == pc[l] \in {"idle", "list"} => expected[l] = {}
WaitsOnlyWaiting(l) == pc[l] \in {"waiting", "lost"} \/ current[l] = NoSP
Owed(l) ==
  \/ partial[l]
  \/ pc[l] = "failed"
  \/ expected[l] \ {origin[l]} \subseteq confirmed[l] \cup remaining[l] \cup {current[l]}
AnswersLast(l) == answer[l] = "Success" => pc[l] \in {"finished", "noSession"}
Earned(l) == answer[l] = "Success" => expected[l] \ {origin[l]} \subseteq confirmed[l]

LInv(l) == Unlisted(l) /\ WaitsOnlyWaiting(l) /\ Owed(l) /\ AnswersLast(l) /\ Earned(l)
SInv == TInv /\ \A l \in Logouts : LInv(l)

(* With few SPs, a findMany finds every live row. *)
LEMMA FindsAll == FewSPs => Found = {Active}
<1> SUFFICES ASSUME FewSPs PROVE Found = {Active}
  OBVIOUS
<1>1. MaxParticipants \in Nat
  BY ConstantsAssumption DEF ConstantsAssumption
<1> DEFINE rows == {s \in SPs : row[s] # "none"}
<1>2. IsFiniteSet(rows) /\ Cardinality(rows) <= Cardinality(SPs)
  BY FS_Subset DEF FewSPs
<1>3. Cardinality(rows) \in Nat /\ Cardinality(SPs) \in Nat
  BY <1>2, FS_CardinalityType DEF FewSPs
<1>4. ~(Cardinality(rows) > MaxParticipants + 1)
  BY <1>1, <1>2, <1>3 DEF FewSPs
<1>5. FirstOf(rows, MaxParticipants + 1) = {rows}
  BY <1>4 DEF FirstOf
<1>6. rows \cap Active = Active
  BY DEF Active
<1>7. Found = {ps \cap Active : ps \in {rows}}
  BY <1>5 DEF Found
<1> HIDE DEF rows
<1> QED
  BY <1>6, <1>7

(* What a list finds when it is not cut short. *)
LEMMA ListIsComplete ==
  ASSUME FewSPs, NEW S \in Found, ~Truncated(S), NEW ps \in Capped(S)
  PROVE  ps = Active
BY FindsAll DEF Capped, FirstOf, Truncated

(* A list that is complete names every live row but the originator's; or it is partial. *)
LEMMA ListBooks ==
  ASSUME FewSPs, TypeOK, NEW l \in Logouts, List(l)
  PROVE  /\ partial'[l] \/ Active \ {origin[l]} \subseteq remaining'[l]
         /\ \A k \in Logouts \ {l} : partial'[k] = partial[k] /\ remaining'[k] = remaining[k]
<1>1. CASE \E S \in Found :
             /\ \E ps \in Capped(S) : remaining' = [remaining EXCEPT ![l] = ps \ {origin[l]}]
             /\ partial' = [partial EXCEPT ![l] = Truncated(S)]
  <2>1. PICK S \in Found :
          /\ \E ps \in Capped(S) : remaining' = [remaining EXCEPT ![l] = ps \ {origin[l]}]
          /\ partial' = [partial EXCEPT ![l] = Truncated(S)]
    BY <1>1
  <2>2. PICK ps \in Capped(S) : remaining' = [remaining EXCEPT ![l] = ps \ {origin[l]}]
    BY <2>1
  <2>3. partial'[l] = Truncated(S) /\ remaining'[l] = ps \ {origin[l]}
    BY <2>1, <2>2 DEF TypeOK
  <2>4. ~Truncated(S) => ps = Active
    BY ListIsComplete
  <2> QED
    BY <2>1, <2>2, <2>3, <2>4 DEF TypeOK
<1>2. CASE partial' = [partial EXCEPT ![l] = TRUE] /\ UNCHANGED remaining
  BY <1>2 DEF TypeOK
<1> QED
  BY <1>1, <1>2 DEF List

(* A move that leaves the chains alone. *)
LEMMA ChainsKept ==
  ASSUME SInv, TInv', NEW e \in Enders, NEW to, pc' = [pc EXCEPT ![e] = to],
         UNCHANGED <<chain, confirmed, expected>>,
         pc[e] \notin {"waiting"} \cup Terminal, to \notin {"idle", "waiting"},
         to = "list" => pc[e] = "idle"
  PROVE  SInv'
<1> SUFFICES ASSUME NEW l \in Logouts PROVE LInv(l)'
  BY DEF SInv
<1>1. LInv(l) /\ pc' \in [Enders -> Locations] /\ l \in Enders
  BY DEF SInv, TInv, TypeOK, Enders
<1>2. pc'[l] = pc[l] \/ (l = e /\ pc'[l] = to)
  BY <1>1 DEF SInv, TInv, TypeOK
<1>3. /\ remaining'[l] = remaining[l] /\ current'[l] = current[l] /\ partial'[l] = partial[l]
      /\ answer'[l] = answer[l] /\ origin'[l] = origin[l]
      /\ confirmed'[l] = confirmed[l] /\ expected'[l] = expected[l]
  BY DEF chain
<1> QED
  BY <1>1, <1>2, <1>3
     DEF LInv, Unlisted, WaitsOnlyWaiting, Owed, AnswersLast, Earned, Terminal

(* A move of one chain leaves the others alone. *)
LEMMA OthersKept ==
  ASSUME SInv, TInv', NEW l \in Logouts, LInv(l)',
         \A k \in Logouts \ {l} :
           /\ pc'[k] = pc[k] /\ remaining'[k] = remaining[k] /\ current'[k] = current[k]
           /\ partial'[k] = partial[k] /\ answer'[k] = answer[k] /\ origin'[k] = origin[k]
           /\ confirmed'[k] = confirmed[k] /\ expected'[k] = expected[k]
  PROVE  SInv'
<1> SUFFICES ASSUME NEW k \in Logouts \ {l} PROVE LInv(k)'
  BY DEF SInv
<1> QED
  BY DEF SInv, LInv, Unlisted, WaitsOnlyWaiting, Owed, AnswersLast, Earned

LEMMA SInvStep == FewSPs /\ SInv /\ [Next]_vars => SInv'
<1> SUFFICES ASSUME FewSPs, SInv, [Next]_vars PROVE SInv'
  OBVIOUS
<1>t. TInv /\ TypeOK /\ TInv' /\ TypeOK'
  BY TInvStep DEF SInv, TInv
<1>loc. Logouts \subseteq Enders /\ Deleters \subseteq Enders /\ NoSP \notin SPs
  BY ConstantsAssumption DEF Enders, ConstantsAssumption
<1>i. \A l \in Logouts : LInv(l)
  BY DEF SInv
<1> USE DEF LInv
<1>1. ASSUME NEW s \in SPs, Sign(s) \/ Record(s) PROVE SInv'
  BY <1>1, <1>t DEF Sign, Record, SInv, chain, history, Unlisted, WaitsOnlyWaiting, Owed,
     AnswersLast, Earned
<1>2. ASSUME NEW l \in Logouts, Begin(l) \/ SignOut(l) PROVE SInv'
  BY <1>2, <1>t, <1>loc, ChainsKept DEF Begin, SignOut, Go, history, Terminal
<1>3. ASSUME NEW l \in Logouts, BeginNoSession(l) PROVE SInv'
  <2>1. pc[l] = "idle" /\ pc'[l] \in {"noSession", "failed"}
    BY <1>3, <1>t, <1>loc DEF BeginNoSession, Go, TypeOK
  <2>2. \A k \in Logouts \ {l} : pc'[k] = pc[k] /\ answer'[k] = answer[k]
    BY <1>3, <1>t, <1>loc DEF BeginNoSession, Go, TypeOK
  <2>3. pc'[l] = "failed" => answer'[l] = "error"
    BY <1>3, <1>t, <1>loc DEF BeginNoSession, Go, TypeOK
  <2>4. UNCHANGED <<remaining, current, partial, origin, confirmed, expected>>
    BY <1>3 DEF BeginNoSession, history
  <2>5. LInv(l)'
    BY <2>1, <2>3, <2>4, <1>i DEF Unlisted, WaitsOnlyWaiting, Owed, AnswersLast, Earned
  <2> QED
    BY <2>2, <2>4, <2>5, <1>t, OthersKept
<1>4. ASSUME NEW l \in Logouts, List(l) PROVE SInv'
  <2>1. /\ pc[l] = "list" /\ pc'[l] = "lookup" /\ \A k \in Logouts \ {l} : pc'[k] = pc[k]
    BY <1>4, <1>t, <1>loc DEF List, Go, TypeOK
  <2>2. expected'[l] = Active /\ \A k \in Logouts \ {l} : expected'[k] = expected[k]
    BY <1>4, <1>t DEF List, TypeOK
  <2>3. UNCHANGED <<current, answer, origin, confirmed>>
    BY <1>4 DEF List
  <2>4. /\ partial'[l] \/ Active \ {origin[l]} \subseteq remaining'[l]
        /\ \A k \in Logouts \ {l} : partial'[k] = partial[k] /\ remaining'[k] = remaining[k]
    BY <1>4, <1>t, ListBooks
  <2>5. LInv(l)'
    BY <2>1, <2>2, <2>3, <2>4, <1>i DEF Unlisted, WaitsOnlyWaiting, Owed, AnswersLast, Earned
  <2> QED
    BY <2>1, <2>2, <2>3, <2>4, <2>5, <1>t, OthersKept
<1>5. ASSUME NEW d \in Deleters, BeginDelete(d) PROVE SInv'
  BY <1>5, <1>t, <1>loc, ChainsKept DEF BeginDelete, Go, history, Terminal
<1>6. ASSUME NEW e \in Enders, End(e) PROVE SInv'
  <2>h. AfterHook(e) \notin {"idle", "waiting", "list"}
    BY DEF AfterHook
  <2>1. CASE Lookup(e)
    BY <2>1, <1>t, ChainsKept DEF Lookup, Go, history, Terminal
  <2>2. CASE Delete(e)
    <3>1. pc[e] = "delete" /\ pc' = [pc EXCEPT ![e] = IF found[e] THEN "hook" ELSE AfterHook(e)]
      BY <2>2 DEF Delete, Go
    <3>2. UNCHANGED <<chain, confirmed, expected>>
      BY <2>2 DEF Delete, history
    <3> QED
      BY <3>1, <3>2, <2>h, <1>t, ChainsKept DEF Terminal
  <2>3. CASE DeleteFails(e)
    <3>1. pc[e] = "delete" /\ pc' = [pc EXCEPT ![e] = "failed"]
      BY <2>3 DEF DeleteFails, Go
    <3>2. /\ UNCHANGED <<current, partial, answer, origin, confirmed, expected>>
          /\ remaining' = [l \in Logouts |-> IF l = e THEN {} ELSE remaining[l]]
      BY <2>3 DEF DeleteFails, history
    <3> SUFFICES ASSUME NEW l \in Logouts PROVE LInv(l)'
      BY <1>t DEF SInv
    <3>3. CASE l = e
      <4>1. pc[l] = "delete" /\ pc'[l] = "failed"
        BY <3>1, <3>3, <1>t DEF TypeOK
      <4> QED
        BY <3>2, <4>1, <1>i DEF Unlisted, WaitsOnlyWaiting, Owed, AnswersLast, Earned
    <3>4. CASE l # e
      <4>1. pc'[l] = pc[l] /\ remaining'[l] = remaining[l]
        BY <3>1, <3>2, <3>4, <1>t, <1>loc DEF TypeOK
      <4> QED
        BY <3>2, <4>1, <1>i DEF Unlisted, WaitsOnlyWaiting, Owed, AnswersLast, Earned
    <3> QED
      BY <3>3, <3>4
  <2>4. CASE Hook(e)
    <3>1. pc[e] = "hook"
          /\ \E to \in {AfterHook(e), "read"} : pc' = [pc EXCEPT ![e] = to]
      BY <2>4 DEF Hook, Go
    <3>2. UNCHANGED <<chain, confirmed, expected>>
      BY <2>4 DEF Hook, history
    <3> QED
      BY <3>1, <3>2, <2>h, <1>t, ChainsKept DEF Terminal
  <2>5. CASE Read(e)
    <3>1. PICK S \in Found : Go(e, "read", IF S = {} THEN AfterHook(e) ELSE "report")
      BY <2>5 DEF Read
    <3>2. UNCHANGED <<chain, confirmed, expected>>
      BY <2>5 DEF Read, history
    <3> QED
      BY <3>1, <3>2, <2>h, <1>t, ChainsKept DEF Go, Terminal
  <2>6. CASE Report(e)
    BY <2>6, <2>h, <1>t, ChainsKept DEF Report, Go, Terminal
  <2>7. CASE HookFails(e)
    <3>1. PICK here \in {"read", "report"} :
            Go(e, here, IF e \in Logouts THEN "forget" ELSE "failed")
      BY <2>7 DEF HookFails
    <3>2. UNCHANGED <<chain, confirmed, expected>>
      BY <2>7 DEF HookFails, history
    <3>3. PICK to \in {"forget", "failed"} : pc' = [pc EXCEPT ![e] = to]
      BY <3>1 DEF Go
    <3>4. pc[e] \notin {"waiting"} \cup Terminal
      BY <3>1 DEF Go, Terminal
    <3> QED
      BY <3>2, <3>3, <3>4, <1>t, ChainsKept
  <2> QED
    BY <1>6, <2>1, <2>2, <2>3, <2>4, <2>5, <2>6, <2>7 DEF End
<1>7. ASSUME NEW l \in Logouts, Forget(l) PROVE SInv'
  <2>1. pc[l] = "forget" /\ pc' = [pc EXCEPT ![l] = "hop"]
    BY <1>7 DEF Forget, Go
  <2>2. UNCHANGED <<chain, confirmed, expected>>
    BY <1>7 DEF Forget, history
  <2> QED
    BY <2>1, <2>2, <1>t, <1>loc, ChainsKept DEF Terminal
<1>8. ASSUME NEW l \in Logouts, NEW s \in SPs, SendRequest(l, s) PROVE SInv'
  <2>1. pc[l] = "hop" /\ pc'[l] = "waiting" /\ \A k \in Logouts \ {l} : pc'[k] = pc[k]
    BY <1>8, <1>t, <1>loc DEF SendRequest, Go, TypeOK
  <2>2. /\ remaining'[l] = remaining[l] \ {s} /\ current'[l] = s
        /\ \A k \in Logouts \ {l} : remaining'[k] = remaining[k] /\ current'[k] = current[k]
    BY <1>8, <1>t DEF SendRequest, TypeOK
  <2>3. UNCHANGED <<partial, answer, origin, confirmed, expected>>
    BY <1>8 DEF SendRequest
  <2>4. current[l] = NoSP /\ expected[l] \subseteq SPs
    BY <2>1, <1>i, <1>t DEF WaitsOnlyWaiting, TypeOK
  <2>5. LInv(l)'
    BY <2>1, <2>2, <2>3, <2>4, <1>i, <1>loc
       DEF Unlisted, WaitsOnlyWaiting, Owed, AnswersLast, Earned
  <2> QED
    BY <2>1, <2>2, <2>3, <2>5, <1>t, OthersKept
<1>9. ASSUME NEW l \in Logouts, NEW s \in SPs, Skip(l, s) PROVE SInv'
  <2>1. partial'[l] /\ \A k \in Logouts \ {l} :
                         partial'[k] = partial[k] /\ remaining'[k] = remaining[k]
    BY <1>9, <1>t DEF Skip, TypeOK
  <2>2. UNCHANGED <<pc, current, answer, origin, confirmed, expected>>
    BY <1>9 DEF Skip, history
  <2>3. LInv(l)'
    BY <2>1, <2>2, <1>i DEF Unlisted, WaitsOnlyWaiting, Owed, AnswersLast, Earned
  <2> QED
    BY <2>1, <2>2, <2>3, <1>t, OthersKept
<1>10. ASSUME NEW l \in Logouts, Response(l) PROVE SInv'
  <2>1. pc[l] = "waiting" /\ pc'[l] = "hop" /\ \A k \in Logouts \ {l} : pc'[k] = pc[k]
    BY <1>10, <1>t, <1>loc DEF Response, Go, TypeOK
  <2>2. current'[l] = NoSP /\ \A k \in Logouts \ {l} : current'[k] = current[k]
    BY <1>10, <1>t DEF Response, TypeOK
  <2>3. UNCHANGED <<remaining, answer, origin, expected>>
    BY <1>10 DEF Response
  <2>4. /\ partial'[l] \/ (partial'[l] = partial[l] /\ confirmed'[l] = confirmed[l] \cup {current[l]})
        /\ \A k \in Logouts \ {l} : partial'[k] = partial[k] /\ confirmed'[k] = confirmed[k]
    <3>1. CASE confirmed' = [confirmed EXCEPT ![l] = @ \cup {current[l]}] /\ UNCHANGED partial
      BY <3>1, <1>t DEF TypeOK
    <3>2. CASE partial' = [partial EXCEPT ![l] = TRUE] /\ UNCHANGED confirmed
      BY <3>2, <1>t DEF TypeOK
    <3> QED
      BY <1>10, <3>1, <3>2 DEF Response
  <2>5. LInv(l)'
    BY <2>1, <2>2, <2>3, <2>4, <1>i DEF Unlisted, WaitsOnlyWaiting, Owed, AnswersLast, Earned
  <2> QED
    BY <2>1, <2>2, <2>3, <2>4, <2>5, <1>t, OthersKept
<1>11. ASSUME NEW l \in Logouts, Finish(l) PROVE SInv'
  <2>1. pc[l] = "hop" /\ pc'[l] = "finished" /\ \A k \in Logouts \ {l} : pc'[k] = pc[k]
    BY <1>11, <1>t, <1>loc DEF Finish, Go, TypeOK
  <2>2. UNCHANGED <<remaining, current, partial, origin, confirmed, expected>>
    BY <1>11 DEF Finish, history
  <2>3. remaining[l] = {} /\ (answer'[l] = "Success" => ~partial[l])
        /\ \A k \in Logouts \ {l} : answer'[k] = answer[k]
    BY <1>11, <1>t DEF Finish, TypeOK
  <2>4. current[l] = NoSP /\ expected[l] \subseteq SPs
    BY <2>1, <1>i, <1>t DEF WaitsOnlyWaiting, TypeOK
  <2>5. LInv(l)'
    BY <2>1, <2>2, <2>3, <2>4, <1>i, <1>loc
       DEF Unlisted, WaitsOnlyWaiting, Owed, AnswersLast, Earned
  <2> QED
    BY <2>1, <2>2, <2>3, <2>5, <1>t, OthersKept
<1>12. ASSUME NEW l \in Logouts, Abandon(l) PROVE SInv'
  <2>1. pc[l] = "waiting" /\ pc'[l] = "lost" /\ \A k \in Logouts \ {l} : pc'[k] = pc[k]
    BY <1>12, <1>t, <1>loc DEF Abandon, Go, TypeOK
  <2>2. UNCHANGED <<remaining, current, partial, answer, origin, confirmed, expected>>
    BY <1>12 DEF Abandon, chain
  <2>3. LInv(l)'
    BY <2>1, <2>2, <1>i DEF Unlisted, WaitsOnlyWaiting, Owed, AnswersLast, Earned
  <2> QED
    BY <2>1, <2>2, <2>3, <1>t, OthersKept
<1>13. ASSUME NEW e \in Enders, Crash(e) PROVE SInv'
  <2>1. pc[e] \notin {"waiting"} \cup Terminal /\ pc' = [pc EXCEPT ![e] = "lost"]
    BY <1>13 DEF Crash, EndingAt, Terminal
  <2>2. UNCHANGED <<chain, confirmed, expected>>
    BY <1>13 DEF Crash
  <2> QED
    BY <2>1, <2>2, <1>t, ChainsKept
<1>14. CASE UNCHANGED vars
  BY <1>14, <1>t DEF vars, chain, history, SInv, Unlisted, WaitsOnlyWaiting, Owed, AnswersLast,
     Earned
<1> QED
  BY <1>1, <1>2, <1>3, <1>4, <1>5, <1>6, <1>7, <1>8, <1>9, <1>10, <1>11, <1>12, <1>13, <1>14,
     <1>loc DEF Next, Logout

LEMMA SInvInit == Init => SInv
<1> SUFFICES ASSUME Init PROVE SInv
  OBVIOUS
<1>1. TInv
  BY TInvInit
<1>2. ASSUME NEW l \in Logouts PROVE LInv(l)
  BY DEF Init, LInv, Unlisted, WaitsOnlyWaiting, Owed, AnswersLast, Earned, Enders
<1> QED
  BY <1>1, <1>2 DEF SInv

(* An originator is told Success only if every SP its logout listed confirmed, over *)
(* any number of hops, SPs, races and crashes (participantsOf, nextHop, finish).    *)
THEOREM SuccessIsAlwaysEarned == FewSPs => (Spec => []SuccessIsEarned)
<1> SUFFICES ASSUME FewSPs PROVE Spec => []SuccessIsEarned
  OBVIOUS
<1>1. SInv => SuccessIsEarned
  BY DEF SInv, LInv, Earned, SuccessIsEarned
<1>2. SInv /\ [Next]_vars => SInv'
  BY SInvStep
<1> QED
  BY <1>1, <1>2, SInvInit, PTL DEF Spec

-----------------------------------------------------------------------------
(* Every mark was set by a logout of its isolate that listed, and has not taken it back. *)
Unmarked == {"idle", "list", "failed", "noSession"}
MarksAreOwned == \A i \in marked : \E l \in Logouts : home[l] = i /\ pc[l] \notin Unmarked

MInv == TInv /\ MarksAreOwned

(* A move that marks nothing, and leaves no mark behind when it gives up. *)
LEMMA MarksKept ==
  ASSUME MInv, TInv', NEW e \in Enders, NEW to, pc' = [pc EXCEPT ![e] = to], home' = home,
         marked' \subseteq marked,
         to \in Unmarked => e \notin Logouts \/ pc[e] \in Unmarked \/ home[e] \notin marked'
  PROVE  MInv'
<1> SUFFICES ASSUME NEW i \in marked' PROVE \E l \in Logouts : home[l] = i /\ pc'[l] \notin Unmarked
  BY DEF MInv, MarksAreOwned
<1>1. PICK l \in Logouts : home[l] = i /\ pc[l] \notin Unmarked
  BY DEF MInv, MarksAreOwned
<1>2. pc'[l] = pc[l] \/ (l = e /\ pc'[l] = to)
  BY DEF MInv, TInv, TypeOK, Enders
<1> QED
  BY <1>1, <1>2

LEMMA MInvStep == MInv /\ [Next]_vars => MInv'
<1> SUFFICES ASSUME MInv, [Next]_vars PROVE MInv'
  OBVIOUS
<1>t. TInv /\ TypeOK /\ TInv'
  BY TInvStep DEF MInv, TInv
<1>loc. Logouts \subseteq Enders /\ Deleters \subseteq Enders
  BY DEF Enders
<1>1. ASSUME NEW s \in SPs, Sign(s) \/ Record(s) PROVE MInv'
  BY <1>1, <1>t DEF Sign, Record, MInv, MarksAreOwned
<1>2. ASSUME NEW l \in Logouts, Begin(l) \/ SignOut(l) \/ BeginNoSession(l) PROVE MInv'
  <2>1. PICK to \in Unmarked : pc[l] \in Unmarked /\ pc' = [pc EXCEPT ![l] = to]
    BY <1>2 DEF Begin, SignOut, BeginNoSession, Go, Unmarked
  <2>2. home' = home /\ marked' = marked
    BY <1>2 DEF Begin, SignOut, BeginNoSession
  <2> QED
    BY <2>1, <2>2, <1>t, <1>loc, MarksKept
<1>3. ASSUME NEW l \in Logouts, List(l) PROVE MInv'
  <2>1. /\ pc' = [pc EXCEPT ![l] = "lookup"] /\ home' = home
        /\ marked' = marked \cup {home[l]}
    BY <1>3 DEF List, Go
  <2>2. pc'[l] = "lookup" /\ \A k \in Logouts : pc'[k] = pc[k] \/ pc'[k] = "lookup"
    BY <2>1, <1>t, <1>loc DEF TypeOK
  <2> QED
    BY <2>1, <2>2, <1>t DEF MInv, MarksAreOwned, Unmarked
<1>4. ASSUME NEW d \in Deleters, BeginDelete(d) PROVE MInv'
  BY <1>4, <1>t, <1>loc, MarksKept DEF BeginDelete, Go, Unmarked
<1>5. ASSUME NEW e \in Enders, End(e) PROVE MInv'
  <2>h. AfterHook(e) \in {"forget", "finished"}
    BY DEF AfterHook
  <2>1. CASE Lookup(e)
    BY <2>1, <1>t, MarksKept DEF Lookup, Go, Unmarked
  <2>2. CASE Delete(e)
    BY <2>2, <2>h, <1>t, MarksKept DEF Delete, Go, Unmarked
  <2>3. CASE DeleteFails(e)
    BY <2>3, <1>t, MarksKept DEF DeleteFails, Go, Unmarked
  <2>4. CASE Hook(e)
    BY <2>4, <2>h, <1>t, MarksKept DEF Hook, Go, Unmarked
  <2>5. CASE Read(e)
    <3>1. PICK S \in Found : Go(e, "read", IF S = {} THEN AfterHook(e) ELSE "report")
      BY <2>5 DEF Read
    <3> QED
      BY <2>5, <3>1, <2>h, <1>t, MarksKept DEF Read, Go, Unmarked
  <2>6. CASE Report(e)
    BY <2>6, <2>h, <1>t, MarksKept DEF Report, Go, Unmarked
  <2>7. CASE HookFails(e)
    <3>1. PICK here \in {"read", "report"} :
            Go(e, here, IF e \in Logouts THEN "forget" ELSE "failed")
      BY <2>7 DEF HookFails
    <3> QED
      BY <2>7, <3>1, <1>t, MarksKept DEF HookFails, Go, Unmarked
  <2> QED
    BY <1>5, <2>1, <2>2, <2>3, <2>4, <2>5, <2>6, <2>7 DEF End
<1>6. ASSUME NEW l \in Logouts, Forget(l) \/ Response(l) \/ Finish(l) \/ Abandon(l) PROVE MInv'
  <2>1. PICK to \in {"hop", "finished", "lost"} : pc' = [pc EXCEPT ![l] = to]
    BY <1>6 DEF Forget, Response, Finish, Abandon, Go
  <2>2. home' = home /\ marked' = marked
    BY <1>6 DEF Forget, Response, Finish, Abandon
  <2> QED
    BY <2>1, <2>2, <1>t, <1>loc, MarksKept DEF Unmarked
<1>7. ASSUME NEW l \in Logouts, NEW s \in SPs, SendRequest(l, s) PROVE MInv'
  BY <1>7, <1>t, <1>loc, MarksKept DEF SendRequest, Go, Unmarked
<1>8. ASSUME NEW l \in Logouts, NEW s \in SPs, Skip(l, s) PROVE MInv'
  BY <1>8, <1>t DEF Skip, MInv, MarksAreOwned
<1>9. ASSUME NEW e \in Enders, Crash(e) PROVE MInv'
  BY <1>9, <1>t, MarksKept DEF Crash, Unmarked
<1>10. CASE UNCHANGED vars
  BY <1>10, <1>t DEF vars, MInv, MarksAreOwned
<1> QED
  BY <1>1, <1>2, <1>3, <1>4, <1>5, <1>6, <1>7, <1>8, <1>9, <1>10, <1>loc DEF Next, Logout

(* Only a hook that runs takes a deletion of the host from its hook to its end. *)
LEMMA OnlyHookFinishes ==
  ASSUME TInv, Next, NEW d \in Deleters, pc[d] = "hook", pc'[d] = "finished"
  PROVE  Hook(d)
<1>t. TypeOK /\ d \in Enders /\ d \notin Logouts /\ Logouts \subseteq Enders /\ Deleters \subseteq Enders
  BY ConstantsAssumption DEF TInv, Enders, ConstantsAssumption
<1>m. ASSUME NEW e, NEW from, NEW to, Go(e, from, to) PROVE e = d /\ from = "hook" /\ to = "finished"
  BY <1>m, <1>t DEF Go, TypeOK
<1>1. ASSUME NEW s \in SPs, Sign(s) \/ Record(s) PROVE FALSE
  BY <1>1 DEF Sign, Record
<1>2. ASSUME NEW l \in Logouts, Begin(l) \/ SignOut(l) \/ BeginNoSession(l) \/ List(l)
                                \/ Forget(l) \/ Response(l) \/ Finish(l) \/ Abandon(l) PROVE FALSE
  BY <1>2, <1>m, <1>t
     DEF Begin, SignOut, BeginNoSession, List, Forget, Response, Finish, Abandon
<1>3. ASSUME NEW l \in Logouts, NEW s \in SPs, SendRequest(l, s) \/ Skip(l, s) PROVE FALSE
  BY <1>3, <1>m, <1>t DEF SendRequest, Skip
<1>4. ASSUME NEW e \in Deleters, BeginDelete(e) PROVE FALSE
  BY <1>4, <1>m DEF BeginDelete
<1>5. ASSUME NEW e \in Enders, Crash(e) PROVE FALSE
  BY <1>5, <1>t DEF Crash, TypeOK
<1>6. ASSUME NEW e \in Enders, End(e) PROVE Hook(d)
  <2>1. ~ Lookup(e) /\ ~ DeleteFails(e) /\ ~ Report(e) /\ ~ Delete(e)
    BY <1>m DEF Lookup, DeleteFails, Report, Delete
  <2>2. ~ Read(e) /\ ~ HookFails(e)
    BY <1>m DEF Read, HookFails
  <2>3. Hook(e) => e = d
    BY <1>m DEF Hook
  <2> QED
    BY <1>6, <2>1, <2>2, <2>3 DEF End
<1> QED
  BY <1>1, <1>2, <1>3, <1>4, <1>5, <1>6, <1>t DEF Next, Logout

(* A deletion by the host ends silently only in an isolate where a logout of the *)
(* session listed its SPs and did not fail (markEndingBySlo, endSession's catch). *)
THEOREM HidingIsEarned == Spec => OnlyLogoutsSilence
<1> DEFINE Hides(d) ==
      pc[d] = "hook" /\ pc'[d] = "finished" =>
        \E l \in Logouts : home[l] = home[d] /\ pc[l] \notin {"idle", "list", "failed", "noSession"}
<1>1. Init => MInv
  BY TInvInit DEF Init, MInv, MarksAreOwned
<1>2. MInv /\ Next => \A d \in Deleters : Hides(d)
  <2> SUFFICES ASSUME MInv, Next, NEW d \in Deleters, pc[d] = "hook", pc'[d] = "finished"
               PROVE  \E l \in Logouts :
                        home[l] = home[d] /\ pc[l] \notin {"idle", "list", "failed", "noSession"}
    OBVIOUS
  <2>1. Hook(d)
    BY OnlyHookFinishes DEF MInv
  <2>2. home[d] \in marked
    BY <2>1 DEF Hook, Go, MInv, TInv, TypeOK, Enders
  <2> QED
    BY <2>2 DEF MInv, MarksAreOwned, Unmarked
<1>3. MInv /\ [Next]_vars => [\A d \in Deleters : Hides(d)]_vars
  BY <1>2
<1> QED
  BY <1>1, <1>3, MInvStep, PTL DEF Spec, OnlyLogoutsSilence

-----------------------------------------------------------------------------
(* A logout that is alone finds its own mark when its hook runs, and never reads unless *)
(* the mark had grown stale.                                                            *)
Alone(l) ==
  Begun \subseteq {l} /\ ~slow =>
    /\ reported = {}
    /\ pc[l] \notin {"read", "report"}
    /\ pc[l] \in {"lookup", "delete", "hook"} => home[l] \in marked

AInv == TInv /\ IsFiniteSet(Begun) /\ \A l \in Logouts : Alone(l)

(* A move of one ender: if no other has begun, it must keep its own promise. *)
LEMMA AloneKept ==
  ASSUME AInv, TInv', NEW e \in Enders, NEW to, pc' = [pc EXCEPT ![e] = to], to # "idle",
         ~slow' => ~slow,
         e \in Logouts /\ Alone(e) /\ Begun \subseteq {e} /\ ~slow' =>
           /\ reported' = {}
           /\ to \notin {"read", "report"}
           /\ to \in {"lookup", "delete", "hook"} => home'[e] \in marked'
  PROVE  AInv'
<1>1. pc'[e] = to /\ \A f \in Enders : f # e => pc'[f] = pc[f]
  BY DEF AInv, TInv, TypeOK
<1>2. Begun' = Begun \cup {e}
  BY <1>1 DEF Begun
<1>3. IsFiniteSet(Begun')
  BY <1>2, FS_AddElement DEF AInv
<1>4. ASSUME NEW l \in Logouts, Begun' \subseteq {l}, ~slow' PROVE Alone(l)'
  <2>1. l = e /\ Begun \subseteq {e}
    BY <1>2, <1>4
  <2> QED
    BY <1>1, <2>1 DEF AInv, Alone
<1> QED
  BY <1>3, <1>4 DEF AInv, Alone

LEMMA AInvStep == AInv /\ [Next]_vars => AInv'
<1> SUFFICES ASSUME AInv, [Next]_vars PROVE AInv'
  OBVIOUS
<1>t. TInv /\ TypeOK /\ TInv'
  BY TInvStep DEF AInv, TInv
<1>loc. Logouts \subseteq Enders /\ Deleters \subseteq Enders
  BY DEF Enders
<1>d. \A d \in Deleters : d \notin Logouts
  BY ConstantsAssumption DEF ConstantsAssumption
<1>1. ASSUME NEW s \in SPs, Sign(s) \/ Record(s) PROVE AInv'
  BY <1>1, <1>t DEF Sign, Record, AInv, Alone, Begun, history
<1>2. ASSUME NEW l \in Logouts, Begin(l) \/ SignOut(l) \/ BeginNoSession(l) PROVE AInv'
  <2>1. PICK to \in {"list", "noSession", "failed"} : pc' = [pc EXCEPT ![l] = to]
    BY <1>2 DEF Begin, SignOut, BeginNoSession, Go
  <2>2. UNCHANGED <<reported, slow>>
    BY <1>2 DEF Begin, SignOut, BeginNoSession, history
  <2> QED
    BY <2>1, <2>2, <1>t, <1>loc, AloneKept DEF Alone
<1>3. ASSUME NEW l \in Logouts, List(l) PROVE AInv'
  BY <1>3, <1>t, <1>loc, AloneKept DEF List, Go, Alone
<1>4. ASSUME NEW d \in Deleters, BeginDelete(d) PROVE AInv'
  BY <1>4, <1>t, <1>loc, <1>d, AloneKept DEF BeginDelete, Go, history
<1>5. ASSUME NEW e \in Enders, End(e) PROVE AInv'
  <2>h. AfterHook(e) \in {"forget", "finished"}
    BY DEF AfterHook
  <2>1. CASE Lookup(e)
    BY <2>1, <1>t, AloneKept DEF Lookup, Go, Alone, history
  <2>2. CASE Delete(e)
    BY <2>2, <2>h, <1>t, AloneKept DEF Delete, Go, Alone, history
  <2>3. CASE DeleteFails(e)
    BY <2>3, <1>t, AloneKept DEF DeleteFails, Go, Alone, history
  <2>4. CASE Hook(e)
    <3>1. PICK to \in {AfterHook(e), "read"} : pc[e] = "hook" /\ pc' = [pc EXCEPT ![e] = to]
      BY <2>4 DEF Hook, Go
    <3>2. UNCHANGED reported /\ (~slow' => ~slow)
      <4>1. slow' = slow \/ slow' = (slow \/ home[e] \in marked)
        BY <2>4 DEF Hook
      <4>2. slow \in BOOLEAN
        BY <1>t DEF TypeOK
      <4> QED
        BY <2>4, <4>1, <4>2 DEF Hook
    <3>3. to = "read" => slow' \/ home[e] \notin marked
      BY <2>4, <2>h, <3>1, <1>t, <1>5 DEF Hook, Go, TypeOK
    <3> QED
      BY <3>1, <3>2, <3>3, <2>h, <1>t, AloneKept DEF Alone
  <2>5. CASE Read(e)
    <3>1. PICK S \in Found : Go(e, "read", IF S = {} THEN AfterHook(e) ELSE "report")
      BY <2>5 DEF Read
    <3> QED
      BY <2>5, <3>1, <2>h, <1>t, AloneKept DEF Read, Go, Alone, history
  <2>6. CASE Report(e)
    BY <2>6, <2>h, <1>t, AloneKept DEF Report, Go, Alone
  <2>7. CASE HookFails(e)
    <3>1. PICK here \in {"read", "report"} :
            Go(e, here, IF e \in Logouts THEN "forget" ELSE "failed")
      BY <2>7 DEF HookFails
    <3> QED
      BY <2>7, <3>1, <1>t, AloneKept DEF HookFails, Go, Alone, history
  <2> QED
    BY <1>5, <2>1, <2>2, <2>3, <2>4, <2>5, <2>6, <2>7 DEF End
<1>6. ASSUME NEW l \in Logouts, Forget(l) \/ Response(l) \/ Finish(l) \/ Abandon(l) PROVE AInv'
  <2>1. PICK to \in {"hop", "finished", "lost"} : pc' = [pc EXCEPT ![l] = to]
    BY <1>6 DEF Forget, Response, Finish, Abandon, Go
  <2>2. UNCHANGED <<reported, slow>>
    BY <1>6 DEF Forget, Response, Finish, Abandon, history
  <2> QED
    BY <2>1, <2>2, <1>t, <1>loc, AloneKept DEF Alone
<1>7. ASSUME NEW l \in Logouts, NEW s \in SPs, SendRequest(l, s) PROVE AInv'
  BY <1>7, <1>t, <1>loc, AloneKept DEF SendRequest, Go, Alone
<1>8. ASSUME NEW l \in Logouts, NEW s \in SPs, Skip(l, s) PROVE AInv'
  BY <1>8, <1>t DEF Skip, AInv, Alone, Begun, history
<1>9. ASSUME NEW e \in Enders, Crash(e) PROVE AInv'
  BY <1>9, <1>t, AloneKept DEF Crash, Alone
<1>10. CASE UNCHANGED vars
  BY <1>10, <1>t DEF vars, AInv, Alone, Begun, history
<1> QED
  BY <1>1, <1>2, <1>3, <1>4, <1>5, <1>6, <1>7, <1>8, <1>9, <1>10, <1>loc DEF Next, Logout

(* A logout that nobody races names no SP in session.ended: the event stays for ends *)
(* that the plugin did not bring about itself (markEndingBySlo, the delete hook).    *)
THEOREM AloneIsSilent == Spec => []OwnLogoutIsSilent
<1>1. Init => AInv
  <2> SUFFICES ASSUME Init PROVE AInv
    OBVIOUS
  <2>1. Begun = {}
    BY DEF Init, Begun
  <2>2. IsFiniteSet(Begun)
    BY <2>1, FS_EmptySet
  <2>3. \A l \in Logouts : Alone(l)
    BY DEF Init, Alone, Enders
  <2> QED
    BY <2>2, <2>3, TInvInit DEF AInv
<1>2. AInv => OwnLogoutIsSilent
  <2> SUFFICES ASSUME AInv, Begun \subseteq Logouts, Cardinality(Begun) = 1, ~slow
               PROVE  reported = {}
    BY DEF OwnLogoutIsSilent
  <2>1. PICK l : Begun = {l}
    BY FS_Singleton DEF AInv
  <2> QED
    BY <2>1 DEF AInv, Alone
<1> QED
  BY <1>1, <1>2, AInvStep, PTL DEF Spec

-----------------------------------------------------------------------------
(* Why nobody is forgotten. An SP is timely if it was recorded in time. Up to the time  *)
(* a logout forgets the rows it expects every timely SP that is still listed; a row is  *)
(* marked ended only when a report named it, or was full; and once a row is dropped the *)
(* logout that dropped it keeps the SP, until it is told or the chain is lost.          *)
BeforeForget == {"lookup", "delete", "hook", "read", "report", "forget"}

Timely(s) == signOn[s] = "issued" /\ s \notin late
Full(S) == Cardinality(S) >= MaxParticipants
Noticed(s) == s \in reported \/ Full(reported)

Booked(l) == pc[l] \in BeforeForget => partial[l] \/ expected[l] \ {origin[l]} \subseteq remaining[l]
Kept(l, s) ==
  /\ s \in expected[l]
  /\ \/ partial[l]
     \/ s \in told[l]
     \/ origin[l] = s /\ pc[l] \in {"hop", "waiting", "finished", "lost"}
     \/ s \in remaining[l] /\ pc[l] \in {"hop", "waiting"}

Recorded(s) == row[s] # "none" => signOn[s] = "issued"
Listed(s) ==
  \A l \in Logouts : pc[l] \in BeforeForget /\ Timely(s) /\ row[s] = "active" => s \in expected[l]
Hooked(s) ==
  \A e \in Enders : pc[e] = "report" /\ Timely(s) /\ row[s] = "active" =>
    s \in reporting[e] \/ Full(reporting[e])
EndIsNoticed(s) == Timely(s) /\ row[s] = "ended" => Noticed(s)
DropIsKnown(s) ==
  Timely(s) /\ row[s] = "none" => s \in stranded \/ Noticed(s) \/ \E l \in Logouts : Kept(l, s)

Placed(s) == Recorded(s) /\ Listed(s) /\ Hooked(s) /\ EndIsNoticed(s) /\ DropIsKnown(s)

NInv ==
  /\ EInv /\ SInv
  /\ \A l \in Logouts : Booked(l)
  /\ \A s \in SPs : Placed(s)

LEMMA FullGrows ==
  ASSUME FewSPs, NEW T \in SUBSET SPs, NEW S \in SUBSET T, Full(S)
  PROVE  Full(T)
<1>1. IsFiniteSet(T) /\ Cardinality(S) <= Cardinality(T)
  BY FS_Subset DEF FewSPs
<1>2. IsFiniteSet(S)
  BY <1>1, FS_Subset
<1>3. Cardinality(S) \in Nat /\ Cardinality(T) \in Nat /\ MaxParticipants \in Nat
  BY <1>1, <1>2, FS_CardinalityType, ConstantsAssumption DEF ConstantsAssumption
<1> QED
  BY <1>1, <1>3 DEF Full

(* A move of one ender that leaves the rows, the sign-ons and the report alone. *)
LEMMA PlacesKept ==
  ASSUME NInv, EInv', SInv', NEW e \in Enders, NEW to, pc' = [pc EXCEPT ![e] = to],
         UNCHANGED <<row, signOn, late, expected, origin, reported>>,
         stranded \subseteq stranded',
         \A l \in Logouts :
           /\ told[l] \subseteq told'[l]
           /\ partial[l] => partial'[l]
           /\ l # e => remaining'[l] = remaining[l],
         \A f \in Enders : f # e => reporting'[f] = reporting[f],
         to = "report" => \A s \in Active : s \in reporting'[e] \/ Full(reporting'[e]),
         e \in Logouts =>
           /\ to \in BeforeForget => pc[e] \in BeforeForget /\ remaining'[e] = remaining[e]
           /\ \A s \in SPs : Kept(e, s) => s \in stranded' \/ Kept(e, s)'
  PROVE  NInv'
<1>1. pc'[e] = to /\ \A f \in Enders : f # e => pc'[f] = pc[f]
  BY DEF NInv, EInv, TInv, TypeOK
<1>2. Logouts \subseteq Enders
  BY DEF Enders
<1>3. ASSUME NEW l \in Logouts PROVE Booked(l)'
  BY <1>1, <1>2 DEF NInv, Booked
<1>4. ASSUME NEW s \in SPs PROVE Placed(s)'
  <2>1. Placed(s) /\ (Timely(s)' <=> Timely(s)) /\ (Noticed(s)' <=> Noticed(s))
    BY DEF NInv, Timely, Noticed, Full
  <2>2. Recorded(s)' /\ EndIsNoticed(s)'
    BY <2>1 DEF Placed, Recorded, EndIsNoticed
  <2>3. Listed(s)'
    BY <1>1, <1>2, <2>1 DEF Placed, Listed
  <2>4. Hooked(s)'
    BY <1>1, <2>1 DEF Placed, Hooked, Active, Full
  <2>5. ASSUME NEW l \in Logouts, Kept(l, s) PROVE s \in stranded' \/ Kept(l, s)'
    <3>1. CASE l = e
      BY <2>5, <3>1
    <3>2. CASE l # e
      BY <1>1, <1>2, <2>5, <3>2 DEF Kept
    <3> QED
      BY <3>1, <3>2
  <2>6. DropIsKnown(s)'
    BY <2>1, <2>5 DEF Placed, DropIsKnown
  <2> QED
    BY <2>2, <2>3, <2>4, <2>6 DEF Placed
<1> QED
  BY <1>3, <1>4 DEF NInv

(* A Response that is issued records its participant in time, or the SP is late. *)
LEMMA RecordKeeps ==
  ASSUME NInv, EInv', SInv', NEW s \in SPs, Record(s)
  PROVE  NInv'
<1>t. TypeOK /\ TypeOK' /\ Placed(s)
  BY DEF NInv, EInv, TInv
<1>1. /\ UNCHANGED <<session, pc, reporting, origin, remaining, partial, told, expected, reported,
                     stranded>>
      /\ signOn[s] = "signed" /\ row[s] = "none"
  BY <1>t DEF Record, chain, Placed, Recorded
<1>2. \A x \in SPs \ {s} : row'[x] = row[x] /\ signOn'[x] = signOn[x] /\ (x \in late' <=> x \in late)
  BY <1>t DEF Record, TypeOK
<1>3. \A l \in Logouts : Booked(l)'
  BY <1>1 DEF NInv, Booked
<1>4. ASSUME NEW x \in SPs \ {s} PROVE Placed(x)'
  <2>1. Placed(x) /\ (Timely(x)' <=> Timely(x)) /\ (Noticed(x)' <=> Noticed(x))
    BY <1>1, <1>2 DEF NInv, Timely, Noticed, Full
  <2>2. \A l \in Logouts : Kept(l, x)' <=> Kept(l, x)
    BY <1>1 DEF Kept
  <2> QED
    BY <1>1, <1>2, <2>1, <2>2
       DEF Placed, Recorded, Listed, Hooked, EndIsNoticed, DropIsKnown, Full
<1>5. Placed(s)'
  <2>1. CASE signOn' = [signOn EXCEPT ![s] = "refused"] /\ UNCHANGED <<row, late>>
    <3>1. signOn'[s] = "refused" /\ row'[s] = "none"
      BY <1>1, <1>t, <2>1 DEF TypeOK
    <3> QED
      BY <3>1 DEF Placed, Recorded, Listed, Hooked, EndIsNoticed, DropIsKnown, Timely
  <2>2. CASE /\ row' = [row EXCEPT ![s] = IF @ = "none" THEN "active" ELSE @]
             /\ signOn' = [signOn EXCEPT ![s] = "issued"]
             /\ late' = late \cup {x \in {s} : TooLate}
    <3>1. signOn'[s] = "issued" /\ row'[s] = "active"
      BY <1>1, <1>t, <2>2 DEF TypeOK
    <3>2. CASE TooLate
      <4>1. s \in late'
        BY <2>2, <3>2
      <4> QED
        BY <3>1, <4>1 DEF Placed, Recorded, Listed, Hooked, EndIsNoticed, DropIsKnown, Timely
    <3>3. CASE ~TooLate
      <4>1. \A l \in Logouts : pc[l] \notin BeforeForget
        BY <3>3 DEF TooLate, BeforeForget
      <4>2. \A e \in Enders : pc[e] # "report"
        BY <3>3 DEF TooLate, NInv, EInv, AfterEnd
      <4> QED
        BY <1>1, <3>1, <4>1, <4>2 DEF Placed, Recorded, Listed, Hooked, EndIsNoticed, DropIsKnown
    <3> QED
      BY <3>2, <3>3
  <2> QED
    BY <2>1, <2>2 DEF Record
<1> QED
  BY <1>3, <1>4, <1>5 DEF NInv

(* A list expects every row that is live, and is partial if it does not book them all. *)
LEMMA ListKeeps ==
  ASSUME FewSPs, NInv, EInv', SInv', NEW l \in Logouts, List(l)
  PROVE  NInv'
<1>t. TypeOK /\ LInv(l) /\ Logouts \subseteq Enders
  BY DEF NInv, EInv, TInv, SInv, Enders
<1>1. /\ UNCHANGED <<session, row, signOn, reporting, origin, told, reported, stranded, late>>
      /\ pc[l] = "list" /\ pc' = [pc EXCEPT ![l] = "lookup"]
  BY DEF List, Go, db
<1>2. pc'[l] = "lookup" /\ \A f \in Enders \ {l} : pc'[f] = pc[f]
  BY <1>1, <1>t DEF TypeOK
<1>3. /\ expected[l] = {} /\ expected'[l] = Active
      /\ \A k \in Logouts \ {l} : expected'[k] = expected[k]
  BY <1>1, <1>t DEF List, TypeOK, LInv, Unlisted
<1>4. /\ partial'[l] \/ Active \ {origin[l]} \subseteq remaining'[l]
      /\ \A k \in Logouts \ {l} : partial'[k] = partial[k] /\ remaining'[k] = remaining[k]
  BY <1>t, ListBooks
<1>5. ASSUME NEW k \in Logouts PROVE Booked(k)'
  BY <1>1, <1>2, <1>3, <1>4, <1>t DEF NInv, Booked
<1>6. ASSUME NEW s \in SPs PROVE Placed(s)'
  <2>1. Placed(s) /\ (Timely(s)' <=> Timely(s)) /\ (Noticed(s)' <=> Noticed(s))
    BY <1>1 DEF NInv, Timely, Noticed, Full
  <2>2. Recorded(s)' /\ EndIsNoticed(s)'
    BY <1>1, <2>1 DEF Placed, Recorded, EndIsNoticed
  <2>3. Listed(s)'
    BY <1>1, <1>2, <1>3, <1>t, <2>1 DEF Placed, Listed, Active
  <2>4. Hooked(s)'
    BY <1>1, <1>2, <2>1 DEF Placed, Hooked, Full
  <2>5. ASSUME NEW k \in Logouts, Kept(k, s) PROVE Kept(k, s)'
    <3>1. k # l
      BY <1>3, <2>5 DEF Kept
    <3> QED
      BY <1>1, <1>2, <1>3, <1>4, <1>t, <2>5, <3>1 DEF Kept
  <2>6. DropIsKnown(s)'
    BY <1>1, <2>1, <2>5 DEF Placed, DropIsKnown
  <2> QED
    BY <2>2, <2>3, <2>4, <2>6 DEF Placed
<1> QED
  BY <1>5, <1>6 DEF NInv

(* Rows are marked ended only as they are reported, or the report is full. *)
LEMMA ReportKeeps ==
  ASSUME FewSPs, NInv, EInv', SInv', NEW e \in Enders, Report(e)
  PROVE  NInv'
<1>t. TypeOK /\ TypeOK' /\ Logouts \subseteq Enders
  BY DEF NInv, EInv, TInv, Enders
<1>1. /\ UNCHANGED <<session, signOn, reporting, chain, told, expected, stranded, late>>
      /\ pc[e] = "report" /\ pc' = [pc EXCEPT ![e] = AfterHook(e)]
  BY DEF Report, Go
<1>2. /\ pc'[e] = AfterHook(e) /\ AfterHook(e) \in {"forget", "finished"}
      /\ \A f \in Enders \ {e} : pc'[f] = pc[f]
      /\ e \in Logouts => pc'[e] = "forget"
  BY <1>1, <1>t DEF TypeOK, AfterHook
<1>3. \A s \in SPs : row'[s] = IF row[s] = "none" THEN "none" ELSE "ended"
  BY DEF Report
<1>4. reported' = reported \cup reporting[e] /\ reported' \in SUBSET SPs
      /\ reported \in SUBSET reported' /\ reporting[e] \in SUBSET reported'
  BY <1>t DEF Report, TypeOK
<1>5. (Full(reported) => Full(reported')) /\ (Full(reporting[e]) => Full(reported'))
  BY <1>4, FullGrows
<1>6. ASSUME NEW l \in Logouts PROVE Booked(l)'
  BY <1>1, <1>2, <1>t DEF NInv, Booked, BeforeForget, chain
<1>7. ASSUME NEW s \in SPs PROVE Placed(s)'
  <2>1. Placed(s) /\ (Timely(s)' <=> Timely(s)) /\ (Noticed(s) => Noticed(s)')
    BY <1>1, <1>4, <1>5 DEF NInv, Timely, Noticed, Full
  <2>2. Recorded(s)' /\ Listed(s)' /\ Hooked(s)'
    BY <1>1, <1>3, <2>1 DEF Placed, Recorded, Listed, Hooked
  <2>3. EndIsNoticed(s)'
    <3>1. CASE row[s] = "active" /\ Timely(s)
      <4>1. s \in reporting[e] \/ Full(reporting[e])
        BY <1>1, <2>1, <3>1 DEF Placed, Hooked
      <4>2. s \in reported' \/ Full(reported')
        BY <1>4, <1>5, <4>1
      <4> QED
        BY <4>2 DEF EndIsNoticed, Noticed, Full
    <3>2. CASE row[s] # "active" \/ ~Timely(s)
      BY <1>3, <1>t, <2>1, <3>2 DEF Placed, EndIsNoticed, TypeOK
    <3> QED
      BY <3>1, <3>2
  <2>4. ASSUME NEW l \in Logouts, Kept(l, s) PROVE Kept(l, s)'
    BY <1>1, <1>2, <1>t, <2>4 DEF Kept, chain
  <2>5. DropIsKnown(s)'
    BY <1>1, <1>3, <2>1, <2>4 DEF Placed, DropIsKnown
  <2> QED
    BY <2>2, <2>3, <2>5 DEF Placed
<1> QED
  BY <1>6, <1>7 DEF NInv

(* Whoever's row a logout drops, that logout expects: it has them booked, or is partial. *)
LEMMA ForgetKeeps ==
  ASSUME NInv, EInv', SInv', NEW l \in Logouts, Forget(l)
  PROVE  NInv'
<1>t. TypeOK /\ Logouts \subseteq Enders
  BY DEF NInv, EInv, TInv, Enders
<1>1. /\ UNCHANGED <<session, signOn, reporting, chain, told, expected, reported, stranded, late>>
      /\ pc[l] = "forget" /\ pc' = [pc EXCEPT ![l] = "hop"]
  BY DEF Forget, Go, history
<1>2. pc'[l] = "hop" /\ \A f \in Enders \ {l} : pc'[f] = pc[f]
  BY <1>1, <1>t DEF TypeOK
<1>3. \A s \in SPs : row'[s] = row[s] \/ row'[s] = "none"
  BY DEF Forget
<1>4. ASSUME NEW k \in Logouts PROVE Booked(k)'
  BY <1>1, <1>2, <1>t DEF NInv, Booked, BeforeForget, chain
<1>5. ASSUME NEW s \in SPs PROVE Placed(s)'
  <2>1. Placed(s) /\ (Timely(s)' <=> Timely(s)) /\ (Noticed(s)' <=> Noticed(s))
    BY <1>1 DEF NInv, Timely, Noticed, Full
  <2>2. Recorded(s)' /\ EndIsNoticed(s)'
    BY <1>1, <1>3, <2>1 DEF Placed, Recorded, EndIsNoticed
  <2>3. Listed(s)' /\ Hooked(s)'
    BY <1>1, <1>2, <1>3, <1>t, <2>1 DEF Placed, Listed, Hooked, BeforeForget, Full
  <2>4. ASSUME NEW k \in Logouts, Kept(k, s) PROVE Kept(k, s)'
    BY <1>1, <1>2, <1>t, <2>4 DEF Kept, chain
  <2>5. DropIsKnown(s)'
    <3>1. CASE row[s] = "none"
      BY <1>1, <2>1, <2>4, <3>1 DEF Placed, DropIsKnown
    <3>2. CASE row[s] = "ended"
      BY <2>1, <3>2 DEF Placed, EndIsNoticed, DropIsKnown
    <3>3. CASE row[s] = "active" /\ Timely(s)
      <4>1. s \in expected[l]
        BY <1>1, <2>1, <3>3 DEF Placed, Listed, BeforeForget
      <4>2. partial[l] \/ expected[l] \ {origin[l]} \subseteq remaining[l]
        BY <1>1 DEF NInv, Booked, BeforeForget
      <4>3. Kept(l, s)'
        BY <1>1, <1>2, <4>1, <4>2 DEF Kept, chain
      <4> QED
        BY <4>3 DEF DropIsKnown
    <3>4. CASE ~Timely(s)
      BY <2>1, <3>4 DEF DropIsKnown
    <3> QED
      BY <1>t, <3>1, <3>2, <3>3, <3>4 DEF TypeOK
  <2> QED
    BY <2>2, <2>3, <2>5 DEF Placed
<1> QED
  BY <1>4, <1>5 DEF NInv

LEMMA NInvStep == FewSPs /\ NInv /\ [Next]_vars => NInv'
<1> SUFFICES ASSUME FewSPs, NInv, [Next]_vars PROVE NInv'
  OBVIOUS
<1>t. TypeOK /\ EInv' /\ SInv'
  BY EInvStep, SInvStep DEF NInv, EInv, TInv
<1>loc. Logouts \subseteq Enders /\ Deleters \subseteq Enders /\ \A d \in Deleters : d \notin Logouts
  BY ConstantsAssumption DEF ConstantsAssumption, Enders
<1>n. \A l \in Logouts : pc[l] \in {"idle", "list"} => expected[l] = {}
  BY DEF NInv, SInv, LInv, Unlisted
<1>1. ASSUME NEW s \in SPs, Sign(s) PROVE NInv'
  <2>1. /\ UNCHANGED <<session, row, pc, reporting, chain, history>>
        /\ signOn[s] = "none" /\ signOn' = [signOn EXCEPT ![s] = "signed"]
    BY <1>1 DEF Sign, db
  <2>2. \A x \in SPs : signOn'[x] = "issued" <=> signOn[x] = "issued"
    BY <2>1, <1>t DEF TypeOK
  <2>3. \A l \in Logouts : Booked(l)'
    BY <2>1 DEF NInv, Booked, chain, history
  <2>4. ASSUME NEW x \in SPs PROVE Placed(x)'
    <3>1. Placed(x) /\ (Timely(x)' <=> Timely(x)) /\ (Noticed(x)' <=> Noticed(x))
      BY <2>1, <2>2 DEF NInv, Timely, Noticed, Full, history
    <3>2. \A l \in Logouts : Kept(l, x)' <=> Kept(l, x)
      BY <2>1 DEF Kept, chain, history
    <3> QED
      BY <2>1, <2>2, <3>1, <3>2
         DEF Placed, Recorded, Listed, Hooked, EndIsNoticed, DropIsKnown, Full, history
  <2> QED
    BY <2>3, <2>4, <1>t DEF NInv
<1>2. ASSUME NEW s \in SPs, Record(s) PROVE NInv'
  BY <1>2, <1>t, RecordKeeps
<1>3. ASSUME NEW l \in Logouts, Begin(l) \/ SignOut(l) \/ BeginNoSession(l) PROVE NInv'
  <2>1. PICK to \in {"list", "noSession", "failed"} : pc[l] = "idle" /\ pc' = [pc EXCEPT ![l] = to]
    BY <1>3 DEF Begin, SignOut, BeginNoSession, Go
  <2>2. UNCHANGED <<db, signOn, reporting, origin, remaining, partial, history>>
    BY <1>3 DEF Begin, SignOut, BeginNoSession, chain
  <2>3. \A s \in SPs : ~Kept(l, s)
    BY <2>1, <1>n DEF Kept
  <2> QED
    BY <2>1, <2>2, <2>3, <1>t, <1>loc, PlacesKept DEF db, history, BeforeForget
<1>4. ASSUME NEW l \in Logouts, List(l) PROVE NInv'
  BY <1>4, <1>t, ListKeeps
<1>5. ASSUME NEW d \in Deleters, BeginDelete(d) PROVE NInv'
  BY <1>5, <1>t, <1>loc, PlacesKept DEF BeginDelete, Go, db, chain, history
<1>6. ASSUME NEW e \in Enders, End(e) PROVE NInv'
  <2>h. AfterHook(e) \in {"forget", "finished"} /\ (e \in Logouts => AfterHook(e) = "forget")
    BY DEF AfterHook
  <2>k. ASSUME NEW to, pc[e] \in BeforeForget, pc' = [pc EXCEPT ![e] = to],
               UNCHANGED <<row, signOn, told, expected, reported, stranded, late>>,
               UNCHANGED <<origin, partial>>,
               \A l \in Logouts : l # e => remaining'[l] = remaining[l],
               to \in BeforeForget => remaining' = remaining,
               \A f \in Enders : f # e => reporting'[f] = reporting[f],
               to = "report" => \A s \in Active : s \in reporting'[e] \/ Full(reporting'[e])
        PROVE  NInv'
    <3>1. ASSUME NEW s \in SPs, e \in Logouts, Kept(e, s) PROVE Kept(e, s)'
      <4>1. partial[e] \/ s \in told[e]
        BY <2>k, <3>1 DEF Kept, BeforeForget
      <4> QED
        BY <2>k, <3>1, <4>1 DEF Kept
    <3> QED
      BY <2>k, <3>1, <1>t, PlacesKept
  <2>1. CASE Lookup(e)
    BY <2>1, <2>k DEF Lookup, Go, db, chain, BeforeForget, history
  <2>2. CASE Delete(e)
    <3>1. PICK to \in {"hook", "forget", "finished"} : pc' = [pc EXCEPT ![e] = to]
      BY <2>2, <2>h DEF Delete, Go
    <3>2. pc[e] \in BeforeForget /\ UNCHANGED <<row, signOn, reporting, chain, history>>
      BY <2>2 DEF Delete, Go, BeforeForget
    <3> QED
      BY <2>k, <3>1, <3>2 DEF chain, history
  <2>3. CASE DeleteFails(e)
    <3>1. pc[e] \in BeforeForget /\ "failed" \notin BeforeForget /\ pc' = [pc EXCEPT ![e] = "failed"]
      BY <2>3 DEF DeleteFails, Go, BeforeForget
    <3>2. /\ UNCHANGED <<row, signOn, reporting, origin, partial, history>>
          /\ \A l \in Logouts : l # e => remaining'[l] = remaining[l]
      BY <2>3 DEF DeleteFails, db
    <3> QED
      BY <2>k, <3>1, <3>2 DEF history
  <2>4. CASE Hook(e)
    <3>1. PICK to \in {"read", "forget", "finished"} : pc' = [pc EXCEPT ![e] = to]
      BY <2>4, <2>h DEF Hook, Go
    <3>2. /\ pc[e] \in BeforeForget
          /\ UNCHANGED <<row, signOn, reporting, chain, told, expected, reported, stranded, late>>
      BY <2>4 DEF Hook, Go, db, BeforeForget
    <3> QED
      BY <2>k, <3>1, <3>2 DEF chain
  <2>5. CASE Read(e)
    <3>1. /\ Go(e, "read", IF Active = {} THEN AfterHook(e) ELSE "report")
          /\ \E ps \in Capped(Active) : reporting' = [reporting EXCEPT ![e] = ps]
      BY <2>5, FindsAll DEF Read
    <3>2. PICK ps \in Capped(Active) : reporting' = [reporting EXCEPT ![e] = ps]
      BY <3>1
    <3>3. ps = Active \/ Full(ps)
      <4>1. MaxParticipants \in Nat
        BY ConstantsAssumption DEF ConstantsAssumption
      <4> QED
        BY <3>2, <4>1 DEF Capped, FirstOf, Full
    <3>4. reporting'[e] = ps /\ \A f \in Enders : f # e => reporting'[f] = reporting[f]
      BY <3>2, <1>t DEF TypeOK
    <3>5. UNCHANGED <<row, signOn, chain, history>>
      BY <2>5 DEF Read, db
    <3>6. pc[e] \in BeforeForget
          /\ \E to \in {"report", "forget", "finished"} : pc' = [pc EXCEPT ![e] = to]
      BY <2>h, <3>1 DEF Go, BeforeForget
    <3>7. \A s \in Active : s \in reporting'[e] \/ Full(reporting'[e])
      BY <3>3, <3>4
    <3> QED
      BY <2>k, <3>4, <3>5, <3>6, <3>7 DEF chain, history
  <2>6. CASE Report(e)
    BY <2>6, <1>t, ReportKeeps
  <2>7. CASE HookFails(e)
    <3>1. PICK here \in {"read", "report"} :
            Go(e, here, IF e \in Logouts THEN "forget" ELSE "failed")
      BY <2>7 DEF HookFails
    <3>2. UNCHANGED <<row, signOn, reporting, chain, history>>
      BY <2>7 DEF HookFails, db
    <3>3. PICK to \in {"forget", "failed"} : pc' = [pc EXCEPT ![e] = to]
      BY <3>1 DEF Go
    <3>4. pc[e] \in BeforeForget
      BY <3>1 DEF Go, BeforeForget
    <3> QED
      BY <2>k, <3>2, <3>3, <3>4 DEF chain, history
  <2> QED
    BY <1>6, <2>1, <2>2, <2>3, <2>4, <2>5, <2>6, <2>7 DEF End
<1>7. ASSUME NEW l \in Logouts, Forget(l) PROVE NInv'
  BY <1>7, <1>t, ForgetKeeps
<1>c. ASSUME NEW l \in Logouts, NEW to, to \notin BeforeForget, pc' = [pc EXCEPT ![l] = to],
             UNCHANGED <<row, signOn, reporting, origin, expected, reported, late>>,
             stranded \subseteq stranded',
             \A k \in Logouts :
               /\ told[k] \subseteq told'[k]
               /\ partial[k] => partial'[k]
               /\ k # l => remaining'[k] = remaining[k],
             \A s \in SPs : Kept(l, s) => s \in stranded' \/ Kept(l, s)'
      PROVE  NInv'
  BY <1>c, <1>t, <1>loc, PlacesKept DEF BeforeForget
<1>p. \A l \in Logouts : l \in Enders /\ pc \in [Enders -> Locations]
  BY <1>t, <1>loc DEF TypeOK
<1>8. ASSUME NEW l \in Logouts, NEW s \in SPs, SendRequest(l, s) PROVE NInv'
  <2>1. pc[l] = "hop" /\ pc' = [pc EXCEPT ![l] = "waiting"] /\ pc'[l] = "waiting"
    BY <1>8, <1>p DEF SendRequest, Go
  <2>2. /\ remaining'[l] = remaining[l] \ {s} /\ told'[l] = told[l] \cup {s}
        /\ \A k \in Logouts : k # l => remaining'[k] = remaining[k] /\ told'[k] = told[k]
    BY <1>8, <1>t DEF SendRequest, TypeOK
  <2>3. UNCHANGED <<row, signOn, reporting, origin, partial, expected, reported, stranded, late>>
    BY <1>8 DEF SendRequest, db
  <2>4. \A x \in SPs : Kept(l, x) => Kept(l, x)'
    BY <2>1, <2>2, <2>3 DEF Kept
  <2> QED
    BY <2>1, <2>2, <2>3, <2>4, <1>c DEF BeforeForget
<1>9. ASSUME NEW l \in Logouts, NEW s \in SPs, Skip(l, s) PROVE NInv'
  <2>1. pc[l] = "hop" /\ pc' = [pc EXCEPT ![l] = "hop"] /\ pc'[l] = "hop"
    BY <1>9, <1>p DEF Skip
  <2>2. /\ partial'[l]
        /\ \A k \in Logouts : k # l => remaining'[k] = remaining[k] /\ partial'[k] = partial[k]
    BY <1>9, <1>t DEF Skip, TypeOK
  <2>3. UNCHANGED <<row, signOn, reporting, origin, history>>
    BY <1>9 DEF Skip, db
  <2>4. \A x \in SPs : Kept(l, x) => Kept(l, x)'
    BY <2>2, <2>3 DEF Kept, history
  <2> QED
    BY <2>1, <2>2, <2>3, <2>4, <1>c DEF BeforeForget, history
<1>10. ASSUME NEW l \in Logouts, Response(l) PROVE NInv'
  <2>1. pc[l] = "waiting" /\ pc' = [pc EXCEPT ![l] = "hop"] /\ pc'[l] = "hop"
    BY <1>10, <1>p DEF Response, Go
  <2>2. \A k \in Logouts : partial[k] => partial'[k]
    BY <1>10, <1>t DEF Response, TypeOK
  <2>3. UNCHANGED <<row, signOn, reporting, origin, remaining, told, expected, reported, stranded,
                    late>>
    BY <1>10 DEF Response, db
  <2>4. \A x \in SPs : Kept(l, x) => Kept(l, x)'
    BY <2>1, <2>2, <2>3 DEF Kept
  <2> QED
    BY <2>1, <2>2, <2>3, <2>4, <1>c DEF BeforeForget
<1>11. ASSUME NEW l \in Logouts, Finish(l) PROVE NInv'
  <2>1. /\ pc[l] = "hop" /\ pc' = [pc EXCEPT ![l] = "finished"] /\ pc'[l] = "finished"
        /\ remaining[l] = {}
    BY <1>11, <1>p DEF Finish, Go
  <2>2. UNCHANGED <<row, signOn, reporting, origin, remaining, partial, history>>
    BY <1>11 DEF Finish, db
  <2>3. \A x \in SPs : Kept(l, x) => Kept(l, x)'
    BY <2>1, <2>2 DEF Kept, history
  <2> QED
    BY <2>1, <2>2, <2>3, <1>c DEF BeforeForget, history
<1>12. ASSUME NEW l \in Logouts, Abandon(l) PROVE NInv'
  <2>1. pc[l] = "waiting" /\ pc' = [pc EXCEPT ![l] = "lost"] /\ pc'[l] = "lost"
    BY <1>12, <1>p DEF Abandon, Go
  <2>2. /\ stranded' = stranded \cup remaining[l]
        /\ UNCHANGED <<row, signOn, reporting, origin, remaining, partial, told, expected, reported,
                       late>>
    BY <1>12 DEF Abandon, db, chain
  <2>3. \A x \in SPs : Kept(l, x) => x \in stranded' \/ Kept(l, x)'
    BY <2>1, <2>2 DEF Kept
  <2> QED
    BY <2>1, <2>2, <2>3, <1>c DEF BeforeForget
<1>13. ASSUME NEW e \in Enders, Crash(e) PROVE NInv'
  <2>1. pc[e] \in EndingAt /\ pc' = [pc EXCEPT ![e] = "lost"] /\ pc'[e] = "lost"
    BY <1>13, <1>t DEF Crash, TypeOK
  <2>2. /\ stranded' = stranded \cup (IF pc[e] = "hop" THEN remaining[e] ELSE {})
        /\ UNCHANGED <<row, signOn, reporting, origin, remaining, partial, told, expected, reported,
                       late>>
    BY <1>13 DEF Crash, db, chain
  <2>3. ASSUME NEW x \in SPs, e \in Logouts, Kept(e, x) PROVE x \in stranded' \/ Kept(e, x)'
    BY <2>1, <2>2, <2>3 DEF Kept, EndingAt
  <2>4. stranded \subseteq stranded'
    BY <2>2
  <2> QED
    BY <2>1, <2>2, <2>3, <2>4, <1>t, PlacesKept DEF BeforeForget
<1>14. CASE UNCHANGED vars
  BY <1>14, <1>t DEF vars, db, chain, history, NInv, Booked, Placed, Recorded, Listed, Hooked,
     EndIsNoticed, DropIsKnown, Timely, Noticed, Full, Kept
<1> QED
  BY <1>1, <1>2, <1>3, <1>4, <1>5, <1>6, <1>7, <1>8, <1>9, <1>10, <1>11, <1>12, <1>13, <1>14,
     <1>loc DEF Next, Logout

(* Whatever races, fails or crashes, an SP recorded in time is told, reported, listed *)
(* or in the hands of a logout that is partial, unless its chain was lost on its way. *)
THEOREM NobodyIsForgotten == FewSPs => (Spec => []NobodyForgotten)
<1> SUFFICES ASSUME FewSPs PROVE Spec => []NobodyForgotten
  OBVIOUS
<1>1. Init => NInv
  <2> SUFFICES ASSUME Init PROVE NInv
    OBVIOUS
  <2>1. EInv
    BY TInvInit DEF Init, EInv, EndsFirst, AfterEnd
  <2>2. SInv
    BY SInvInit
  <2>3. ASSUME NEW l \in Logouts PROVE Booked(l)
    BY DEF Init, Booked, BeforeForget, Enders
  <2>4. ASSUME NEW s \in SPs PROVE Placed(s)
    BY DEF Init, Placed, Recorded, Listed, Hooked, EndIsNoticed, DropIsKnown, Timely
  <2> QED
    BY <2>1, <2>2, <2>3, <2>4 DEF NInv
<1>2. NInv => NobodyForgotten
  <2> SUFFICES ASSUME NInv, NEW s \in SPs \ (stranded \cup late), signOn[s] = "issued"
               PROVE  Pending(s) \/ Accounted(s)
    BY DEF NobodyForgotten
  <2>1. Placed(s) /\ Timely(s)
    BY DEF NInv, Timely
  <2>2. CASE row[s] # "none"
    BY <2>2 DEF Accounted
  <2>3. CASE row[s] = "none"
    <3>1. Noticed(s) \/ \E l \in Logouts : Kept(l, s)
      BY <2>1, <2>3 DEF Placed, DropIsKnown
    <3>2. CASE Noticed(s)
      BY <3>2 DEF Noticed, Full, Accounted
    <3>3. CASE \E l \in Logouts : Kept(l, s)
      BY <3>3 DEF Kept, Pending, Accounted
    <3> QED
      BY <3>1, <3>2, <3>3
  <2> QED
    BY <2>2, <2>3
<1>3. NInv /\ [Next]_vars => NInv'
  BY NInvStep
<1> QED
  BY <1>1, <1>2, <1>3, PTL DEF Spec
=============================================================================
