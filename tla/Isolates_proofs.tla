---------------------------- MODULE Isolates_proofs ----------------------------
(***************************************************************************)
(* What isolates that share one database decide, each on its own, for any  *)
(* number of requests, assertions, isolates and calls, and every length of *)
(* the times. The two directories are in Directories_proofs.               *)
(*                                                                         *)
(* Replay guard: the inductive invariant says what a row's expiry means    *)
(* for its request: while the row exists, it outlives the instants at      *)
(* which the request can pass the window check; once it is swept, those    *)
(* instants are past, by more than the lag of any handler that passed the  *)
(* check before.                                                           *)
(*                                                                         *)
(* Exchange: an assertion is given a record once, before it is sent. While *)
(* there is a record nobody has used it; whoever takes it is the only call *)
(* that asks for the assertion's principal, and its verdict is the first.  *)
(***************************************************************************)
EXTENDS MCIsolates, Directories_proofs, TLAPS

-----------------------------------------------------------------------------
(* The replay guard. *)

(* The last instant a row of r may have been written for, as an expiry. *)
Covered(r) == issued[r] - SpAhead + MaxAge + 2 * Skew

(* A handler's clock value is past, and its request was issued by then. *)
ClocksOK ==
  \A h \in Handlers :
    /\ at[h] <= now
    /\ pc[h] \in {"sweeping", "arrived", "checked"} =>
         issued[request[h]] <= at[h] + SpAhead

(* A handler before its INSERT passed the window check at most MaxLag ago. *)
CheckedOK ==
  \A h \in Handlers :
    pc[h] = "checked" =>
      /\ now - at[h] <= MaxLag
      /\ ~TooNew(request[h], at[h])
      /\ ~TooOld(request[h], at[h])

(* A row outlives its request's window. *)
RowsOK ==
  \A r \in Requests :
    seenUntil[r] # NotSeen =>
      /\ r \in written
      /\ seenUntil[r] >= Covered(r)
      /\ seenUntil[r] >= issued[r] + MaxAge + Skew

(* A swept request's window is past. *)
SweptOK ==
  \A r \in written :
    seenUntil[r] = NotSeen =>
      /\ now > Covered(r)
      /\ now > issued[r] + MaxAge + Skew

IInv == TypeOK /\ ClocksOK /\ CheckedOK /\ RowsOK /\ SweptOK

-----------------------------------------------------------------------------
LEMMA TypeInit == Init => TypeOK
<1> SUFFICES ASSUME Init PROVE TypeOK
  OBVIOUS
<1>1. issued \in [Requests -> Int]
  BY ConstantsAssumption DEF ConstantsAssumption, Init
<1>2. last \in [Instances -> Int]
  BY ConstantsAssumption DEF ConstantsAssumption, Init
<1>3. seenUntil \in [Requests -> Nat \cup {NotSeen}]
  BY DEF Init
<1> QED
  BY <1>1, <1>2, <1>3 DEF Init, TypeOK, Locations

LEMMA TypeStep == TypeOK /\ [Next]_vars => TypeOK'
<1> SUFFICES ASSUME TypeOK, [Next]_vars PROVE TypeOK'
  OBVIOUS
<1> USE ConstantsAssumption DEF ConstantsAssumption, TypeOK, Locations, Outcomes
<1>1. CASE UNCHANGED vars
  BY <1>1 DEF vars
<1>2. ASSUME NEW h \in Handlers, Handle(h) PROVE TypeOK'
  <2>1. ASSUME NEW r \in Requests, Arrive(h, r) PROVE TypeOK'
    <3>1. h[1] \in Instances
      BY DEF Handlers
    <3> QED
      BY <2>1, <3>1 DEF Arrive
  <2>2. CASE Sweep(h)
    BY <2>2 DEF Sweep
  <2>3. CASE Validate(h)
    BY <2>3 DEF Validate
  <2>4. CASE Insert(h)
    BY <2>4 DEF Insert, ExpiresAt
  <2>5. CASE InsertUnheard(h)
    BY <2>5 DEF InsertUnheard, ExpiresAt
  <2>6. CASE InsertFails(h)
    BY <2>6 DEF InsertFails
  <2>7. CASE Classify(h)
    BY <2>7 DEF Classify
  <2>8. CASE Respond(h)
    BY <2>8 DEF Respond
  <2> QED
    BY <1>2, <2>1, <2>2, <2>3, <2>4, <2>5, <2>6, <2>7, <2>8 DEF Handle
<1>3. ASSUME NEW i \in Instances, Restart(i) PROVE TypeOK'
  BY <1>3 DEF Restart
<1>4. CASE Tick
  BY <1>4 DEF Tick
<1> QED
  BY <1>1, <1>2, <1>3, <1>4 DEF Next

-----------------------------------------------------------------------------
LEMMA IInvInit == Init => IInv
<1> SUFFICES ASSUME Init PROVE IInv
  OBVIOUS
<1>1. TypeOK
  BY TypeInit
<1>2. ClocksOK /\ CheckedOK
  BY <1>1 DEF Init, TypeOK, ClocksOK, CheckedOK
<1>3. RowsOK /\ SweptOK
  BY <1>1 DEF Init, TypeOK, RowsOK, SweptOK
<1> QED
  BY <1>1, <1>2, <1>3 DEF IInv

LEMMA IInvStep == IInv /\ [Next]_vars => IInv'
<1> SUFFICES ASSUME IInv, [Next]_vars PROVE IInv'
  OBVIOUS
<1>0. TypeOK'
  BY TypeStep DEF IInv
<1> USE <1>0, ConstantsAssumption
    DEF ConstantsAssumption, IInv, TypeOK, TooNew, TooOld, Covered
<1>1. CASE UNCHANGED vars
  BY <1>1 DEF vars, ClocksOK, CheckedOK, RowsOK, SweptOK
<1>2. ASSUME NEW h \in Handlers, NEW r \in Requests, Arrive(h, r) PROVE IInv'
  <2>1. ClocksOK'
    BY <1>2 DEF Arrive, ClocksOK
  <2>2. CheckedOK'
    BY <1>2 DEF Arrive, CheckedOK
  <2>3. RowsOK' /\ SweptOK'
    BY <1>2 DEF Arrive, RowsOK, SweptOK
  <2> QED
    BY <2>1, <2>2, <2>3
<1>3. ASSUME NEW h \in Handlers, Sweep(h) PROVE IInv'
  <2>1. ClocksOK' /\ CheckedOK'
    BY <1>3 DEF Sweep, ClocksOK, CheckedOK
  <2>2. CASE UNCHANGED seenUntil
    BY <1>3, <2>1, <2>2 DEF Sweep, RowsOK, SweptOK
  <2>3. CASE seenUntil' = [r \in Requests |->
                             IF seenUntil[r] < at[h] THEN NotSeen ELSE seenUntil[r]]
    <3>1. RowsOK'
      BY <1>3, <2>3 DEF Sweep, RowsOK, NotSeen
    <3>2. SweptOK'
      <4> SUFFICES ASSUME NEW r \in written', seenUntil'[r] = NotSeen
                   PROVE  now' > Covered(r)' /\ now' > (issued[r] + MaxAge + Skew)'
        BY DEF SweptOK
      <4>1. r \in written /\ r \in Requests /\ UNCHANGED <<now, issued>>
        BY <1>3 DEF Sweep
      <4>2. CASE seenUntil[r] = NotSeen
        BY <4>1, <4>2 DEF SweptOK
      <4>3. CASE seenUntil[r] # NotSeen
        <5>1. seenUntil[r] < at[h] /\ at[h] <= now
          BY <2>3, <4>1, <4>3 DEF ClocksOK
        <5> QED
          BY <4>1, <4>3, <5>1 DEF RowsOK, NotSeen
      <4> QED
        BY <4>2, <4>3
    <3> QED
      BY <2>1, <3>1, <3>2
  <2> QED
    BY <1>3, <2>1, <2>2, <2>3 DEF Sweep
<1>4. ASSUME NEW h \in Handlers, Validate(h) PROVE IInv'
  <2>1. ClocksOK'
    BY <1>4 DEF Validate, ClocksOK
  <2>2. CheckedOK'
    BY <1>4 DEF Validate, CheckedOK
  <2>3. RowsOK' /\ SweptOK'
    BY <1>4 DEF Validate, RowsOK, SweptOK
  <2> QED
    BY <2>1, <2>2, <2>3
<1>5. ASSUME NEW h \in Handlers, Insert(h) \/ InsertUnheard(h) PROVE IInv'
  <2>1. ClocksOK' /\ CheckedOK'
    BY <1>5 DEF Insert, InsertUnheard, ClocksOK, CheckedOK
  <2>2. ExpiresAt(at[h]) >= Covered(request[h])
    BY <1>5 DEF Insert, InsertUnheard, ExpiresAt, ClocksOK
  <2>3. ExpiresAt(at[h]) >= issued[request[h]] + MaxAge + Skew
    BY <1>5 DEF Insert, InsertUnheard, ExpiresAt, CheckedOK
  <2>4. ExpiresAt(at[h]) \in Nat
    BY DEF ExpiresAt
  <2>5. RowsOK' /\ SweptOK'
    BY <1>5, <2>2, <2>3, <2>4 DEF Insert, InsertUnheard, RowsOK, SweptOK, NotSeen
  <2> QED
    BY <2>1, <2>5
<1>6. ASSUME NEW h \in Handlers, InsertFails(h) \/ Classify(h) \/ Respond(h) PROVE IInv'
  <2>1. ClocksOK' /\ CheckedOK'
    BY <1>6 DEF InsertFails, Classify, Respond, ClocksOK, CheckedOK, Outcomes
  <2>2. RowsOK' /\ SweptOK'
    BY <1>6 DEF InsertFails, Classify, Respond, RowsOK, SweptOK
  <2> QED
    BY <2>1, <2>2
<1>7. ASSUME NEW i \in Instances, Restart(i) PROVE IInv'
  <2>1. ClocksOK' /\ CheckedOK'
    BY <1>7 DEF Restart, ClocksOK, CheckedOK
  <2>2. RowsOK' /\ SweptOK'
    BY <1>7 DEF Restart, RowsOK, SweptOK
  <2> QED
    BY <2>1, <2>2
<1>8. CASE Tick
  <2>1. ClocksOK' /\ CheckedOK'
    BY <1>8 DEF Tick, ClocksOK, CheckedOK
  <2>2. RowsOK' /\ SweptOK'
    BY <1>8 DEF Tick, RowsOK, SweptOK
  <2> QED
    BY <2>1, <2>2
<1> QED
  BY <1>1, <1>2, <1>3, <1>4, <1>5, <1>6, <1>7, <1>8 DEF Next, Handle

LEMMA Inductive == Spec => []IInv
  BY IInvInit, IInvStep, PTL DEF Spec

-----------------------------------------------------------------------------
(* A swept request could no longer pass the IssueInstant check: the row     *)
(* lifetime of handleSso and handleSlo covers the window of request.ts,     *)
(* for every MaxAge and Skew and however far the SP's clock is off.         *)
THEOREM SweepsOnlyStale == Spec => []SweptIsStale
<1>1. IInv => SweptIsStale
  BY ConstantsAssumption
     DEF ConstantsAssumption, IInv, TypeOK, SweptOK, SweptIsStale, TooOld
<1> QED
  BY <1>1, Inductive, PTL

(* With slack, a handler that passed the window check still finds the row   *)
(* of a request that was recorded before.                                   *)
LEMMA StillThere ==
  ASSUME IInv, Slack, NEW h \in Handlers, pc[h] = "checked", request[h] \in written
  PROVE  seenUntil[request[h]] # NotSeen
<1> SUFFICES ASSUME seenUntil[request[h]] = NotSeen PROVE FALSE
  OBVIOUS
<1> DEFINE r == request[h]
<1>1. /\ now - at[h] <= MaxLag
      /\ issued[r] >= at[h] - MaxAge - Skew
  BY ConstantsAssumption DEF ConstantsAssumption, IInv, TypeOK, CheckedOK, TooOld
<1>2. now > issued[r] - SpAhead + MaxAge + 2 * Skew
  BY DEF IInv, SweptOK, Covered
<1>3. now \in Nat /\ at[h] \in Nat /\ issued[r] \in Int
  BY DEF IInv, TypeOK
<1> QED
  BY <1>1, <1>2, <1>3, ConstantsAssumption DEF ConstantsAssumption, Slack

(* No request is accepted twice (R2 of sso.ts), when the SP's clock and the *)
(* handlers' lag together stay within the skew allowance.                   *)
THEOREM ReplaysAreRefused == ASSUME Slack PROVE Spec => FirstSightWins
<1>1. IInv /\ [Next]_vars =>
        [\A h \in Handlers :
           pc[h] = "checked" /\ pc'[h] = "accepted" => request[h] \notin written]_vars
  <2> SUFFICES ASSUME IInv, Next, NEW h \in Handlers,
                      pc[h] = "checked", pc'[h] = "accepted"
               PROVE  request[h] \notin written
    BY DEF vars
  <2> USE DEF IInv, TypeOK
  <2>1. ASSUME NEW g \in Handlers, Handle(g) PROVE Insert(h)
    <3>1. CASE Insert(g)
      BY <3>1 DEF Insert
    <3>2. CASE ~Insert(g)
      BY <2>1, <3>2 DEF Handle, Arrive, Sweep, Validate, InsertUnheard, InsertFails,
                        Classify, Respond
    <3> QED
      BY <3>1, <3>2
  <2>2. ~Tick /\ \A i \in Instances : ~Restart(i)
    BY DEF Tick, Restart
  <2>3. Insert(h)
    BY <2>1, <2>2 DEF Next
  <2> QED
    BY <2>3, StillThere, Slack DEF Insert
<1> QED
  BY <1>1, Inductive, PTL DEF Spec, FirstSightWins

(* Every step of the guard is a step of the atomic test-and-set register,   *)
(* or changes nothing the register shows.                                   *)
THEOREM GuardIsTestAndSet == ASSUME Slack PROVE Spec => ImplementsFirstSight
<1>1. Init => FS!Init
  BY DEF Init, FS!Init, verdict
<1>2. IInv /\ [Next]_vars => [FS!Next]_FS!vars
  <2> SUFFICES ASSUME IInv, [Next]_vars PROVE [FS!Next]_FS!vars
    OBVIOUS
  <2> USE DEF IInv, TypeOK, FS!vars, verdict
  <2>1. CASE UNCHANGED vars
    BY <2>1 DEF vars
  <2>2. ASSUME NEW h \in Handlers, NEW r \in Requests, Arrive(h, r)
        PROVE  FS!Next
    <3>1. FS!Ask(h, r)
      BY <2>2 DEF Arrive, FS!Ask
    <3> QED
      BY <3>1 DEF FS!Next
  <2>3. ASSUME NEW h \in Handlers,
               Sweep(h) \/ Validate(h) \/ InsertFails(h)
        PROVE  UNCHANGED FS!vars
    <3>1. verdict' = verdict
      BY <2>3 DEF Sweep, Validate, InsertFails
    <3> QED
      BY <2>3, <3>1 DEF Sweep, Validate, InsertFails
  <2>4. ASSUME NEW h \in Handlers, Insert(h) PROVE FS!Next
    <3>1. request[h] \notin written
      BY <2>4, StillThere, Slack DEF Insert
    <3>2. FS!Accept(h)
      BY <2>4, <3>1 DEF Insert, FS!Accept
    <3> QED
      BY <3>2 DEF FS!Next
  <2>5. ASSUME NEW h \in Handlers, InsertUnheard(h) PROVE FS!Next
    <3>1. request[h] \notin written
      BY <2>5, StillThere, Slack DEF InsertUnheard
    <3>2. FS!Spend(h)
      BY <2>5, <3>1 DEF InsertUnheard, FS!Spend
    <3> QED
      BY <3>2 DEF FS!Next
  <2>6. ASSUME NEW h \in Handlers, Classify(h) PROVE FS!Next
    <3>1. CASE seenUntil[request[h]] # NotSeen
      <4>1. request[h] \in written
        BY <3>1 DEF RowsOK
      <4>2. FS!Refuse(h)
        BY <2>6, <3>1, <4>1 DEF Classify, FS!Refuse
      <4> QED
        BY <4>2 DEF FS!Next
    <3>2. CASE seenUntil[request[h]] = NotSeen
      <4>1. FS!Break(h)
        BY <2>6, <3>2 DEF Classify, FS!Break
      <4> QED
        BY <4>1 DEF FS!Next
    <3> QED
      BY <3>1, <3>2
  <2>7. ASSUME NEW h \in Handlers, Respond(h) PROVE FS!Next
    <3>1. FS!Forget({h})
      BY <2>7 DEF Respond, FS!Forget
    <3> QED
      BY <3>1 DEF FS!Next
  <2>8. ASSUME NEW i \in Instances, Restart(i) PROVE FS!Next
    <3>1. FS!Forget({h \in Handlers : h[1] = i})
      BY <2>8 DEF Restart, FS!Forget
    <3> QED
      BY <3>1 DEF FS!Next
  <2>9. CASE Tick
    BY <2>9 DEF Tick
  <2> QED
    BY <2>1, <2>2, <2>3, <2>4, <2>5, <2>6, <2>7, <2>8, <2>9 DEF Next, Handle
<1> QED
  BY <1>1, <1>2, Inductive, PTL DEF Spec, ImplementsFirstSight, FS!Spec

-----------------------------------------------------------------------------
(* The exchange of assertions. *)

(* A call that has taken the record of a. *)
Busy(x, a) == exchange[x].of = a /\ exchange[x].pc \in Checks
Sum(a) == verdicts[a].exchanged + verdicts[a].refused

CallsOK == \A x \in Exchangers : ~At(x, "idle") => exchange[x].of \in Assertions
StagesOK == \A a \in recorded : assertion[a].stage \notin {"none", "record"}

FreshOK ==
  \A a \in Assertions \ recorded :
    exRecord[a] = Nil /\ Sum(a) = 0 /\ \A x \in Exchangers : ~Busy(x, a)

RecordsOK ==
  \A a \in Assertions :
    exRecord[a] # Nil =>
      /\ exRecord[a] = assertion[a].until + Leeway
      /\ Sum(a) = 0
      /\ \A x \in Exchangers : ~Busy(x, a)

OnceOK ==
  \A a \in Assertions :
    /\ Sum(a) <= 1
    /\ \A x \in Exchangers : Busy(x, a) => Sum(a) = 0 /\ \A y \in Exchangers : Busy(y, a) => x = y

(* A record that is gone has expired, or was taken. *)
GoneOK ==
  \A a \in recorded :
    exRecord[a] = Nil =>
      \/ exNow > assertion[a].until + Leeway
      \/ Sum(a) = 1 \/ a \in wasted
      \/ \E x \in Exchangers : Busy(x, a)

ExInv == ExchangeTypeOK /\ CallsOK /\ StagesOK /\ FreshOK /\ RecordsOK /\ OnceOK /\ GoneOK

-----------------------------------------------------------------------------
LEMMA ExchangeInvInit == ExchangeInit => ExInv
<1> SUFFICES ASSUME ExchangeInit PROVE ExInv
  OBVIOUS
<1> USE ExchangeAssumption DEF ExchangeAssumption
<1>1. /\ assertion \in [Assertions -> [stage : Stages, key : 0..ExMaxKeys, until : Nat]]
      /\ exchange \in [Exchangers -> [pc : ExchangeSteps, of : Assertions \cup {Nil},
                                      client : Clients \cup {Nil}, now : Nat]]
      /\ verdicts \in [Assertions -> [exchanged : Nat, refused : Nat]]
  BY DEF ExchangeInit, Unsigned, NoExchange, Stages, ExchangeSteps
<1>2. ExchangeTypeOK
  BY <1>1 DEF ExchangeInit, ExchangeTypeOK
<1> QED
  BY <1>2 DEF ExchangeInit, ExInv, CallsOK, StagesOK, FreshOK, RecordsOK, OnceOK, GoneOK, Busy, Sum,
       At, NoExchange, Checks

(* A step that leaves assertions, their records and verdicts alone keeps the invariant, *)
(* if it makes no call one that has taken a record.                                     *)
LEMMA HarmlessStep ==
  ASSUME ExInv,
         UNCHANGED <<assertion, exRecord, recorded, wasted, verdicts>>,
         exNow' \in Nat, exNow' >= exNow,
         optIn' \in Clients \cup {Nil}, signer' \in 1..ExMaxKeys, standing' \subseteq Checks,
         exchange' \in [Exchangers -> [pc : ExchangeSteps, of : Assertions \cup {Nil},
                                       client : Clients \cup {Nil}, now : Nat]],
         \A x \in Exchangers :
           \/ exchange'[x] = exchange[x]
           \/ exchange'[x].pc \notin Checks /\ exchange[x].pc \notin Checks
              /\ (exchange'[x].pc # "idle" => exchange'[x].of \in Assertions)
           \/ exchange'[x].pc \in Checks /\ exchange[x].pc \in Checks
              /\ exchange'[x].of = exchange[x].of
  PROVE  ExInv'
<1> USE DEF ExInv
<1>1. \A x \in Exchangers, a \in Assertions : Busy(x, a)' <=> Busy(x, a)
  BY DEF Busy
<1>2. \A a \in Assertions : Sum(a)' = Sum(a)
  BY DEF Sum
<1>3. ExchangeTypeOK'
  BY DEF ExchangeTypeOK
<1>4. CallsOK'
  BY DEF CallsOK, At, Checks
<1>5. StagesOK' /\ FreshOK' /\ RecordsOK' /\ OnceOK'
  BY <1>1, <1>2 DEF StagesOK, FreshOK, RecordsOK, OnceOK
<1>6. GoneOK'
  <2>1. \A a \in recorded : assertion[a].until + Leeway \in Nat
    BY ExchangeAssumption DEF ExchangeTypeOK, ExchangeAssumption
  <2> QED
    BY <1>1, <1>2, <2>1 DEF GoneOK, ExchangeTypeOK
<1> QED
  BY <1>3, <1>4, <1>5, <1>6

LEMMA ExchangeInvStep == ExInv /\ [ExchangeNext]_exchangeVars => ExInv'
<1> SUFFICES ASSUME ExInv, [ExchangeNext]_exchangeVars PROVE ExInv'
  OBVIOUS
<1> USE ExchangeAssumption DEF ExchangeAssumption
<1>t. ExchangeTypeOK
  BY DEF ExInv
<1>r. recorded \subseteq Assertions
  BY <1>t DEF ExchangeTypeOK
<1>1. CASE UNCHANGED exchangeVars
  BY <1>1, <1>t, HarmlessStep DEF exchangeVars, ExchangeTypeOK
<1>2. ASSUME NEW a \in Assertions, SignAssertion(a) PROVE ExInv'
  <2>1. a \notin recorded
    BY <1>2 DEF ExInv, StagesOK, SignAssertion
  <2>2. /\ assertion' \in [Assertions -> [stage : Stages, key : 0..ExMaxKeys, until : Nat]]
        /\ \A b \in Assertions \ {a} : assertion'[b] = assertion[b]
    BY <1>2, <1>t DEF SignAssertion, ExchangeTypeOK, Stages
  <2>3. exRecord[a] = Nil
    BY <2>1 DEF ExInv, FreshOK
  <2>4. \A x \in Exchangers, b \in Assertions : Busy(x, b)' = Busy(x, b) /\ Sum(b)' = Sum(b)
    BY <1>2 DEF SignAssertion, Busy, Sum
  <2>5. \A b \in Assertions : Sum(b)' = Sum(b)
    BY <1>2 DEF SignAssertion, Sum
  <2>6. ExchangeTypeOK' /\ CallsOK' /\ StagesOK'
    BY <1>2, <2>1, <2>2 DEF SignAssertion, ExInv, ExchangeTypeOK, CallsOK, StagesOK, At
  <2>7. FreshOK'
    BY <1>2, <2>4, <2>5 DEF SignAssertion, ExInv, FreshOK
  <2>8. RecordsOK'
    BY <1>2, <2>2, <2>3, <2>4, <2>5 DEF SignAssertion, ExInv, RecordsOK
  <2>9. OnceOK'
    BY <1>2, <2>4, <2>5 DEF ExInv, OnceOK
  <2>10. GoneOK'
    BY <1>2, <1>r, <2>1, <2>2, <2>4, <2>5 DEF SignAssertion, ExInv, GoneOK
  <2> QED
    BY <2>6, <2>7, <2>8, <2>9, <2>10 DEF ExInv
<1>3. ASSUME NEW a \in Assertions, RecordExchangeable(a) PROVE ExInv'
  <2>1. a \notin recorded /\ exRecord[a] = Nil /\ Sum(a) = 0 /\ \A x \in Exchangers : ~Busy(x, a)
    BY <1>3 DEF ExInv, StagesOK, FreshOK, RecordExchangeable
  <2>2. /\ assertion' \in [Assertions -> [stage : Stages, key : 0..ExMaxKeys, until : Nat]]
        /\ \A b \in Assertions : assertion'[b].until = assertion[b].until
        /\ assertion'[a].stage = "participant"
        /\ \A b \in Assertions \ {a} : assertion'[b] = assertion[b]
    BY <1>3, <1>t DEF RecordExchangeable, ExchangeTypeOK, Stages
  <2>3. \A x \in Exchangers, b \in Assertions : Busy(x, b)' = Busy(x, b)
    BY <1>3 DEF RecordExchangeable, Busy
  <2>4. \A b \in Assertions : Sum(b)' = Sum(b)
    BY <1>3 DEF RecordExchangeable, Sum
  <2>5. CASE UNCHANGED <<exRecord, recorded>>
    <3>1. ExchangeTypeOK' /\ CallsOK' /\ StagesOK'
      BY <1>3, <2>1, <2>2, <2>5 DEF RecordExchangeable, ExInv, ExchangeTypeOK, CallsOK, StagesOK, At
    <3>2. FreshOK' /\ RecordsOK' /\ OnceOK'
      BY <1>3, <2>2, <2>3, <2>4, <2>5 DEF RecordExchangeable, ExInv, FreshOK, RecordsOK, OnceOK
    <3>3. GoneOK'
      BY <1>3, <1>r, <2>2, <2>3, <2>4, <2>5 DEF RecordExchangeable, ExInv, GoneOK
    <3> QED
      BY <3>1, <3>2, <3>3 DEF ExInv
  <2>6. CASE exRecord' = [exRecord EXCEPT ![a] = RecordExpiry(a)] /\ recorded' = recorded \cup {a}
    <3>1. RecordExpiry(a) \in Nat /\ RecordExpiry(a) # Nil
      BY <1>t DEF RecordExpiry, ExchangeTypeOK
    <3>2. exRecord'[a] = assertion'[a].until + Leeway /\ \A b \in Assertions \ {a} : exRecord'[b] = exRecord[b]
      BY <2>2, <2>6, <1>t DEF RecordExpiry, ExchangeTypeOK
    <3>3. ExchangeTypeOK' /\ CallsOK' /\ StagesOK'
      BY <1>3, <2>1, <2>2, <2>6, <3>1 DEF RecordExchangeable, ExInv, ExchangeTypeOK, CallsOK, StagesOK, At
    <3>4. FreshOK' /\ RecordsOK'
      BY <1>3, <2>1, <2>2, <2>3, <2>4, <2>6, <3>1, <3>2 DEF RecordExchangeable, ExInv, FreshOK, RecordsOK
    <3>5. exRecord'[a] # Nil
      BY <2>6, <3>1, <1>t DEF ExchangeTypeOK
    <3>6. OnceOK'
      BY <2>3, <2>4 DEF ExInv, OnceOK
    <3>7. GoneOK'
      BY <1>3, <1>r, <2>2, <2>3, <2>4, <2>6, <3>2, <3>5 DEF RecordExchangeable, ExInv, GoneOK
    <3> QED
      BY <3>3, <3>4, <3>6, <3>7 DEF ExInv
  <2> QED
    BY <1>3, <2>5, <2>6 DEF RecordExchangeable
<1>4. ASSUME NEW a \in Assertions, IssueAssertion(a) PROVE ExInv'
  <2>2. /\ assertion' \in [Assertions -> [stage : Stages, key : 0..ExMaxKeys, until : Nat]]
        /\ \A b \in Assertions : assertion'[b].until = assertion[b].until
        /\ assertion'[a].stage \notin {"none", "record"}
        /\ \A b \in Assertions \ {a} : assertion'[b] = assertion[b]
    BY <1>4, <1>t DEF IssueAssertion, ExchangeTypeOK, Stages
  <2>3. \A x \in Exchangers, b \in Assertions : Busy(x, b)' = Busy(x, b)
    BY <1>4 DEF IssueAssertion, Busy
  <2>4. \A b \in Assertions : Sum(b)' = Sum(b)
    BY <1>4 DEF IssueAssertion, Sum
  <2>5. ExchangeTypeOK' /\ CallsOK' /\ StagesOK'
    BY <1>4, <2>2 DEF IssueAssertion, ExInv, ExchangeTypeOK, CallsOK, StagesOK, At
  <2>6. FreshOK' /\ RecordsOK' /\ OnceOK' /\ GoneOK'
    BY <1>4, <1>t, <2>2, <2>3, <2>4 DEF IssueAssertion, ExInv, FreshOK, RecordsOK, OnceOK, GoneOK, ExchangeTypeOK
  <2> QED
    BY <2>5, <2>6 DEF ExInv
<1>5. ASSUME NEW x \in Exchangers, NEW a \in Assertions, NEW client \in Clients,
             PresentAssertion(x, a, client)
      PROVE  ExInv'
  <2>1. exchange' \in [Exchangers -> [pc : ExchangeSteps, of : Assertions \cup {Nil},
                                      client : Clients \cup {Nil}, now : Nat]]
    BY <1>5, <1>t DEF PresentAssertion, ExchangeTypeOK, ExchangeSteps
  <2>2. \A y \in Exchangers :
          \/ exchange'[y] = exchange[y]
          \/ exchange'[y].pc \notin Checks /\ exchange[y].pc \notin Checks /\ exchange'[y].of \in Assertions
    BY <1>5, <1>t DEF PresentAssertion, ExchangeTypeOK, At, Checks
  <2> QED
    BY <1>5, <1>t, <2>1, <2>2, HarmlessStep DEF PresentAssertion, ExchangeTypeOK
<1>6. ASSUME NEW x \in Exchangers, Recognise(x) \/ FindOptIn(x) PROVE ExInv'
  <2>1. exchange[x].of \in Assertions
    BY <1>6 DEF ExInv, CallsOK, At, Recognise, FindOptIn
  <2>2. exchange' \in [Exchangers -> [pc : ExchangeSteps, of : Assertions \cup {Nil},
                                      client : Clients \cup {Nil}, now : Nat]]
    <3>1. \/ exchange' = [exchange EXCEPT ![x].pc = "findSp"]
          \/ exchange' = [exchange EXCEPT ![x].pc = "consume"]
          \/ exchange' = [exchange EXCEPT ![x] = NoExchange]
      BY <1>6 DEF Recognise, FindOptIn, Onward, EndExchange
    <3>2. exchange \in [Exchangers -> [pc : ExchangeSteps, of : Assertions \cup {Nil},
                                       client : Clients \cup {Nil}, now : Nat]]
      BY <1>t DEF ExchangeTypeOK
    <3>3. {"findSp", "consume"} \subseteq ExchangeSteps
      BY DEF ExchangeSteps
    <3>4. NoExchange \in [pc : ExchangeSteps, of : Assertions \cup {Nil},
                           client : Clients \cup {Nil}, now : Nat]
      BY DEF NoExchange, ExchangeSteps
    <3>5. CASE exchange' = [exchange EXCEPT ![x] = NoExchange]
      BY <3>2, <3>4, <3>5
    <3>6. CASE exchange' = [exchange EXCEPT ![x].pc = "findSp"]
      BY <3>2, <3>3, <3>6
    <3>7. CASE exchange' = [exchange EXCEPT ![x].pc = "consume"]
      BY <3>2, <3>3, <3>7
    <3> QED
      BY <3>1, <3>5, <3>6, <3>7
  <2>3. \A y \in Exchangers :
          \/ exchange'[y] = exchange[y]
          \/ exchange'[y].pc \notin Checks /\ exchange[y].pc \notin Checks
             /\ (exchange'[y].pc # "idle" => exchange'[y].of \in Assertions)
    BY <1>6, <1>t, <2>1 DEF Recognise, FindOptIn, Onward, EndExchange, NoExchange, ExchangeTypeOK, At, Checks
  <2> QED
    BY <1>6, <1>t, <2>2, <2>3, HarmlessStep DEF Recognise, FindOptIn, ExchangeTypeOK
<1>7. ASSUME NEW x \in Exchangers, Consume(x) PROVE ExInv'
  <2> DEFINE a == exchange[x].of
  <2>1. a \in Assertions /\ exchange[x].pc \notin Checks
    BY <1>7 DEF ExInv, CallsOK, At, Consume, Checks
  <2>2. /\ exRecord' \in [Assertions -> Nat \cup {Nil}]
        /\ exRecord'[a] = Nil
        /\ \A b \in Assertions \ {a} : exRecord'[b] = exRecord[b]
    BY <1>7, <1>t, <2>1 DEF Consume, ExchangeTypeOK
  <2>3. \A b \in Assertions : Sum(b)' = Sum(b)
    BY <1>7 DEF Consume, Sum
  <2>4. CASE RecordOf(a) # Nil
    <3>1. exchange' = [exchange EXCEPT ![x].pc = "user"]
      BY <1>7, <2>4 DEF Consume, Onward
    <3>2. /\ exchange' \in [Exchangers -> [pc : ExchangeSteps, of : Assertions \cup {Nil},
                                          client : Clients \cup {Nil}, now : Nat]]
          /\ exchange'[x].of = a /\ exchange'[x].pc = "user"
          /\ \A y \in Exchangers \ {x} : exchange'[y] = exchange[y]
      <4>1. exchange \in [Exchangers -> [pc : ExchangeSteps, of : Assertions \cup {Nil},
                                          client : Clients \cup {Nil}, now : Nat]]
        BY <1>t DEF ExchangeTypeOK
      <4>2. "user" \in ExchangeSteps
        BY DEF ExchangeSteps, Checks
      <4> QED
        BY <3>1, <4>1, <4>2
    <3>3. exRecord[a] # Nil /\ a \in recorded
      BY <2>1, <2>4 DEF RecordOf, ExInv, FreshOK
    <3>4. Sum(a) = 0 /\ \A y \in Exchangers : ~Busy(y, a)
      BY <2>1, <3>3 DEF ExInv, RecordsOK
    <3>5. /\ Busy(x, a)'
          /\ \A y \in Exchangers, b \in Assertions : Busy(y, b)' <=> Busy(y, b) \/ (y = x /\ b = a)
      BY <2>1, <3>2 DEF Busy, Checks
    <3>6. ExchangeTypeOK' /\ CallsOK' /\ StagesOK'
      BY <1>7, <2>1, <2>2, <3>2 DEF Consume, ExInv, ExchangeTypeOK, CallsOK, StagesOK, At
    <3>7. FreshOK' /\ RecordsOK'
      BY <1>7, <2>2, <2>3, <3>3, <3>5 DEF Consume, ExInv, FreshOK, RecordsOK
    <3>8. OnceOK'
      BY <2>3, <3>4, <3>5 DEF ExInv, OnceOK
    <3>9. GoneOK'
      BY <1>7, <1>r, <2>1, <2>2, <2>3, <3>5 DEF Consume, ExInv, GoneOK
    <3> QED
      BY <3>6, <3>7, <3>8, <3>9 DEF ExInv
  <2>5. CASE RecordOf(a) = Nil
    <3>1. exchange' = [exchange EXCEPT ![x] = NoExchange]
      BY <1>7, <2>5 DEF Consume, EndExchange
    <3>2. /\ exchange' \in [Exchangers -> [pc : ExchangeSteps, of : Assertions \cup {Nil},
                                          client : Clients \cup {Nil}, now : Nat]]
          /\ exchange'[x].pc = "idle"
          /\ \A y \in Exchangers \ {x} : exchange'[y] = exchange[y]
      BY <3>1, <1>t DEF ExchangeTypeOK, ExchangeSteps, NoExchange
    <3>3. exRecord[a] # Nil => exNow > assertion[a].until + Leeway
      BY <2>1, <2>5, <1>t DEF RecordOf, ExInv, RecordsOK, ExchangeTypeOK
    <3>4. \A y \in Exchangers, b \in Assertions : Busy(y, b)' <=> Busy(y, b)
      BY <2>1, <3>2 DEF Busy, Checks
    <3>5. ExchangeTypeOK' /\ CallsOK' /\ StagesOK'
      BY <1>7, <2>2, <3>2 DEF Consume, ExInv, ExchangeTypeOK, CallsOK, StagesOK, At
    <3>6. FreshOK' /\ RecordsOK' /\ OnceOK'
      BY <1>7, <2>2, <2>3, <3>4 DEF Consume, ExInv, FreshOK, RecordsOK, OnceOK
    <3>7. GoneOK'
      BY <1>7, <1>r, <2>1, <2>2, <2>3, <3>3, <3>4 DEF Consume, ExInv, GoneOK
    <3> QED
      BY <3>5, <3>6, <3>7 DEF ExInv
  <2> QED
    BY <2>4, <2>5
<1>8. ASSUME NEW x \in Exchangers, CheckPrincipal(x) PROVE ExInv'
  <2>0. exchange[x].of \in Assertions
    BY <1>8 DEF ExInv, CallsOK, At, CheckPrincipal, Checks
  <2> PICK a \in Assertions : a = exchange[x].of
    BY <2>0
  <2>1. Busy(x, a) /\ exchange[x].pc \in Checks
    BY <1>8 DEF CheckPrincipal, Busy
  <2>2. CASE \E judged \in {"exchanged", "refused"} : Judge(x, judged)
    <3> PICK judged \in {"exchanged", "refused"} : Judge(x, judged)
      BY <2>2
    <3>1. /\ verdicts' \in [Assertions -> [exchanged : Nat, refused : Nat]]
          /\ \A b \in Assertions \ {a} : verdicts'[b] = verdicts[b]
      BY <2>1, <1>t DEF Judge, ExchangeTypeOK
    <3>2. Sum(a) = 0 /\ \A y \in Exchangers : Busy(y, a) => y = x
      BY <2>1 DEF ExInv, OnceOK
    <3>3. Sum(a)' = 1 /\ \A b \in Assertions \ {a} : Sum(b)' = Sum(b)
      <4>1. verdicts[a].exchanged = 0 /\ verdicts[a].refused = 0
        BY <2>1, <3>2, <1>t DEF Sum, ExchangeTypeOK
      <4>2. verdicts'[a] = [verdicts[a] EXCEPT ![judged] = 1]
        <5>1. verdicts' = [verdicts EXCEPT ![a][judged] = verdicts[a][judged] + 1]
          BY DEF Judge
        <5>2. verdicts[a][judged] = 0
          BY <4>1
        <5>3. verdicts' = [verdicts EXCEPT ![a][judged] = 1]
          BY <5>1, <5>2
        <5> QED
          BY <2>1, <5>3, <1>t DEF ExchangeTypeOK
      <4>3. verdicts[a] \in [exchanged : Nat, refused : Nat]
        BY <2>1, <1>t DEF ExchangeTypeOK
      <4>4. Sum(a)' = 1
        <5>1. CASE judged = "exchanged"
          BY <4>1, <4>2, <4>3, <5>1 DEF Sum
        <5>2. CASE judged = "refused"
          BY <4>1, <4>2, <4>3, <5>2 DEF Sum
        <5> QED
          BY <5>1, <5>2
      <4> QED
        BY <3>1, <4>4 DEF Sum
    <3>4. /\ exchange' \in [Exchangers -> [pc : ExchangeSteps, of : Assertions \cup {Nil},
                                          client : Clients \cup {Nil}, now : Nat]]
          /\ exchange'[x].pc = "idle"
          /\ \A y \in Exchangers \ {x} : exchange'[y] = exchange[y]
      BY <1>t DEF Judge, EndExchange, ExchangeTypeOK, ExchangeSteps, NoExchange
    <3>5. \A y \in Exchangers, b \in Assertions : Busy(y, b)' <=> Busy(y, b) /\ y # x
      BY <3>4 DEF Busy, Checks
    <3>6. a \in recorded
      BY <2>1 DEF ExInv, FreshOK
    <3>7. exRecord[a] = Nil
      BY <2>1 DEF ExInv, RecordsOK
    <3>8. ExchangeTypeOK' /\ CallsOK' /\ StagesOK'
      BY <1>8, <3>1, <3>4 DEF CheckPrincipal, ExInv, ExchangeTypeOK, CallsOK, StagesOK, At
    <3>9. FreshOK' /\ RecordsOK'
      BY <1>8, <3>3, <3>5, <3>6, <3>7 DEF CheckPrincipal, ExInv, FreshOK, RecordsOK
    <3>10. OnceOK'
      <4>1. \A b \in Assertions : Sum(b)' <= 1
        BY <3>3 DEF ExInv, OnceOK
      <4>2. \A y \in Exchangers : ~Busy(y, a)'
        BY <2>1, <3>2, <3>5
      <4> QED
        BY <3>3, <3>5, <4>1, <4>2 DEF ExInv, OnceOK
    <3>11. GoneOK'
      <4> SUFFICES ASSUME NEW b \in recorded, exRecord[b] = Nil, b # a
                   PROVE  \/ exNow > assertion[b].until + Leeway
                          \/ Sum(b)' = 1 \/ b \in wasted \/ \E y \in Exchangers : Busy(y, b)'
        BY <1>8, <2>1, <3>3 DEF CheckPrincipal, GoneOK
      <4>1. b \in Assertions /\ ~Busy(x, b)
        BY <1>t DEF ExchangeTypeOK, Busy
      <4> QED
        BY <3>3, <3>5, <4>1 DEF ExInv, GoneOK
    <3> QED
      BY <3>8, <3>9, <3>10, <3>11 DEF ExInv
  <2>3. CASE UNCHANGED verdicts /\ \E step \in Checks : Onward(x, step)
    <3> PICK step \in Checks : Onward(x, step)
      BY <2>3
    <3>1. exchange' \in [Exchangers -> [pc : ExchangeSteps, of : Assertions \cup {Nil},
                                        client : Clients \cup {Nil}, now : Nat]]
      BY <1>t DEF Onward, ExchangeTypeOK, ExchangeSteps
    <3>2. \A y \in Exchangers :
            \/ exchange'[y] = exchange[y]
            \/ exchange'[y].pc \in Checks /\ exchange[y].pc \in Checks /\ exchange'[y].of = exchange[y].of
      BY <1>t, <2>1 DEF Onward, ExchangeTypeOK
    <3> QED
      BY <1>8, <1>t, <2>3, <3>1, <3>2, HarmlessStep DEF CheckPrincipal, ExchangeTypeOK
  <2> QED
    BY <1>8, <2>1, <2>2, <2>3 DEF CheckPrincipal, At, Checks
<1>9. ASSUME NEW x \in Exchangers, CrashExchange(x) PROVE ExInv'
  <2>1. exchange[x].of \in Assertions
    BY <1>9 DEF ExInv, CallsOK, CrashExchange
  <2>2. /\ exchange' \in [Exchangers -> [pc : ExchangeSteps, of : Assertions \cup {Nil},
                                        client : Clients \cup {Nil}, now : Nat]]
        /\ exchange'[x].pc = "idle"
        /\ \A y \in Exchangers \ {x} : exchange'[y] = exchange[y]
    BY <1>9, <1>t DEF CrashExchange, EndExchange, ExchangeTypeOK, ExchangeSteps, NoExchange
  <2>3. \A y \in Exchangers, b \in Assertions : Busy(y, b)' <=> Busy(y, b) /\ y # x
    BY <2>2 DEF Busy, Checks
  <2>4. /\ wasted \subseteq wasted' /\ wasted' \subseteq Assertions
        /\ \A b \in Assertions : Busy(x, b) => b \in wasted'
    BY <1>9, <1>t, <2>1 DEF CrashExchange, ExchangeTypeOK, Busy
  <2>5. \A b \in Assertions : Sum(b)' = Sum(b)
    BY <1>9 DEF CrashExchange, Sum
  <2>6. ExchangeTypeOK' /\ CallsOK' /\ StagesOK'
    BY <1>9, <2>2, <2>4 DEF CrashExchange, ExInv, ExchangeTypeOK, CallsOK, StagesOK, At
  <2>7. FreshOK' /\ RecordsOK' /\ OnceOK'
    BY <1>9, <2>3, <2>5 DEF CrashExchange, ExInv, FreshOK, RecordsOK, OnceOK
  <2>8. GoneOK'
    BY <1>9, <1>t, <2>3, <2>4, <2>5 DEF CrashExchange, ExInv, GoneOK, ExchangeTypeOK
  <2> QED
    BY <2>6, <2>7, <2>8 DEF ExInv
<1>10. CASE SweepRecords
  <2>1. /\ exRecord' \in [Assertions -> Nat \cup {Nil}]
        /\ \A a \in Assertions :
             \/ exRecord'[a] = exRecord[a]
             \/ exRecord'[a] = Nil /\ exRecord[a] # Nil /\ exRecord[a] < exNow
    BY <1>10, <1>t DEF SweepRecords, ExchangeTypeOK
  <2>2. \A x \in Exchangers, b \in Assertions : Busy(x, b)' = Busy(x, b)
    BY <1>10 DEF SweepRecords, Busy
  <2>3. \A b \in Assertions : Sum(b)' = Sum(b)
    BY <1>10 DEF SweepRecords, Sum
  <2>4. ExchangeTypeOK' /\ CallsOK' /\ StagesOK'
    BY <1>10, <2>1 DEF SweepRecords, ExInv, ExchangeTypeOK, CallsOK, StagesOK, At
  <2>5. FreshOK' /\ RecordsOK' /\ OnceOK'
    BY <1>10, <2>1, <2>2, <2>3 DEF SweepRecords, ExInv, FreshOK, RecordsOK, OnceOK
  <2>6. GoneOK'
    <3>1. \A a \in Assertions :
            exRecord[a] # Nil /\ exRecord[a] < exNow => exNow > assertion[a].until + Leeway
      BY <1>t DEF ExInv, RecordsOK, ExchangeTypeOK
    <3> QED
      BY <1>10, <1>t, <2>1, <2>2, <2>3, <3>1 DEF SweepRecords, ExInv, GoneOK, ExchangeTypeOK
  <2> QED
    BY <2>4, <2>5, <2>6 DEF ExInv
<1>11. CASE RotateKey \/ ExTick
  BY <1>11, <1>t, HarmlessStep DEF RotateKey, ExTick, ExchangeTypeOK
<1>12. ASSUME NEW client \in Clients \cup {Nil}, EditOptIn(client) PROVE ExInv'
  BY <1>12, <1>t, HarmlessStep DEF EditOptIn, ExchangeTypeOK
<1>13. ASSUME NEW check \in Checks, ChangeStanding(check) PROVE ExInv'
  BY <1>13, <1>t, HarmlessStep DEF ChangeStanding, ExchangeTypeOK
<1> QED
  BY <1>1, <1>2, <1>3, <1>4, <1>5, <1>6, <1>7, <1>8, <1>9, <1>10, <1>11, <1>12, <1>13 DEF ExchangeNext

LEMMA ExchangeInductive == ExchangeSpec => []ExInv
  BY ExchangeInvInit, ExchangeInvStep, PTL DEF ExchangeSpec

-----------------------------------------------------------------------------
(* Whatever calls overlap, in however many isolates, an assertion is exchanged once or  *)
(* refused once for its principal, and never again.                                     *)
THEOREM ExchangedOnce == ExchangeSpec => []OneVerdict
<1>1. ExInv => OneVerdict
  BY DEF ExInv, OnceOK, OneVerdict, Sum
<1> QED
  BY <1>1, ExchangeInductive, PTL

(* A record outlives its assertion's window, for every lifetime, leeway and sweep.      *)
THEOREM RecordsOutliveWindows == ExchangeSpec => []KeptWhileValid
<1>1. ExInv => KeptWhileValid
  <2> SUFFICES ASSUME ExInv, NEW a \in recorded, exNow < assertion[a].until + Leeway,
                      RecordOf(a) = Nil
               PROVE  \/ Sum(a) = 1 \/ a \in wasted
                      \/ \E x \in Exchangers : exchange[x].of = a /\ exchange[x].pc \in Checks
    BY DEF KeptWhileValid, Sum
  <2>1. /\ a \in Assertions /\ exNow \in Nat /\ assertion[a].until + Leeway \in Nat
        /\ exRecord[a] \in Nat \cup {Nil}
    BY ExchangeAssumption DEF ExInv, ExchangeTypeOK, ExchangeAssumption
  <2>2. exRecord[a] = Nil
    BY <2>1 DEF RecordOf, ExInv, RecordsOK
  <2> QED
    BY <2>1, <2>2 DEF ExInv, GoneOK, Busy
<1> QED
  BY <1>1, ExchangeInductive, PTL

-----------------------------------------------------------------------------
(* Requests, assertions and both directories keep their types together, with every     *)
(* part's own state.                                                                     *)
THEOREM TypeCorrect == IsolatesSpec => []WellTyped
<1> DEFINE Inv == part \in Parts /\ TypeOK /\ ExInv /\ DInv /\ SpInv
           allVars == <<vars, exchangeVars, directoryVars, spVars, part>>
<1>1. IsolatesInit => Inv
  BY TypeInit, ExchangeInvInit, DirInit, SpDirInit DEF IsolatesInit
<1>2. Inv /\ [IsolatesNext]_allVars => Inv'
  <2> SUFFICES ASSUME Inv, [IsolatesNext]_allVars PROVE Inv'
    OBVIOUS
  <2>1. part' = part
    BY DEF IsolatesNext
  <2>2. [Next]_vars /\ [ExchangeNext]_exchangeVars /\ [DirectoryNext]_directoryVars /\ [SpNext]_spVars
    BY DEF IsolatesNext
  <2>3. TypeOK' /\ ExInv'
    BY <2>2, TypeStep, ExchangeInvStep
  <2>4. DInv' /\ SpInv'
    BY <2>2, DirStep, SpStep
  <2> QED
    BY <2>1, <2>3, <2>4
<1>3. Inv => WellTyped
  BY DEF ExInv, DInv, SpInv, WellTyped
<1> QED
  BY <1>1, <1>2, <1>3, PTL DEF IsolatesSpec
=============================================================================
