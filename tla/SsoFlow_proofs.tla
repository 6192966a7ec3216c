-------------------------- MODULE SsoFlow_proofs ----------------------------
(***************************************************************************)
(* The sign-on flow's theorems, for any number of requests, browsers,      *)
(* sessions and handlers.                                                  *)
(***************************************************************************)
EXTENDS SsoFlow, TLAPS

(* The fields a handler relies on at its place are there. *)
JobOK(j) ==
  /\ j.pc \in Holding \cup {"record"} => j.req \in Requests /\ j.browser \in Browsers
  /\ j.pc = "resume" => j.value \in Values /\ j.browser \in Browsers
  /\ j.pc \in {"resume", "issue", "decide", "signed"} => j.session \in Sessions

TInv ==
  /\ TypeOK
  /\ \A h \in Handlers : JobOK(job[h])

-----------------------------------------------------------------------------
LEMMA IdleIsJob == Idle \in Jobs /\ JobOK(Idle)
  BY DEF Idle, Jobs, JobOK, Locations, Holding

(* A step that gives one handler a proper job keeps the jobs proper. *)
LEMMA NewJob ==
  ASSUME TInv, NEW h \in Handlers, NEW j \in Jobs, JobOK(j), job' = [job EXCEPT ![h] = j]
  PROVE  job' \in [Handlers -> Jobs] /\ \A g \in Handlers : JobOK(job'[g])
  BY DEF TInv, TypeOK

LEMMA DoneJob ==
  ASSUME TInv, NEW h \in Handlers, Done(h)
  PROVE  job' \in [Handlers -> Jobs] /\ \A g \in Handlers : JobOK(job'[g])
  BY IdleIsJob, NewJob DEF Done

LEMMA GotoJob ==
  ASSUME TInv, NEW h \in Handlers, NEW l \in Locations, Goto(h, l),
         JobOK([job[h] EXCEPT !.pc = l])
  PROVE  job' \in [Handlers -> Jobs] /\ \A g \in Handlers : JobOK(job'[g])
<1>1. [job[h] EXCEPT !.pc = l] \in Jobs
  BY DEF TInv, TypeOK, Jobs
<1>2. job' = [job EXCEPT ![h] = [job[h] EXCEPT !.pc = l]]
  BY DEF Goto
<1> QED
  BY <1>1, <1>2, NewJob

LEMMA TInvInit == Init => TInv
  BY IdleIsJob DEF Init, TInv, TypeOK

LEMMA AnswerType ==
  ASSUME TInv, NEW h \in Handlers, job[h].req \in Requests,
         Answer(h), UNCHANGED <<now, attr, recorded, hosts>>
  PROVE  TInv'
<1>1. job' \in [Handlers -> Jobs] /\ \A g \in Handlers : JobOK(job'[g])
  BY DoneJob DEF Answer
<1> QED
  BY <1>1 DEF Answer, TInv, TypeOK, hosts, JobOK

LEMMA FailType ==
  ASSUME TInv, NEW h \in Handlers, Fail(h), UNCHANGED <<now, attr, recorded, hosts>>
  PROVE  TInv'
<1>1. job' \in [Handlers -> Jobs] /\ \A g \in Handlers : JobOK(job'[g])
  BY DoneJob DEF Fail
<1> QED
  BY <1>1 DEF Fail, TInv, TypeOK, hosts, history, JobOK

LEMMA StoreType ==
  ASSUME TInv, NEW h \in Handlers, job[h].req \in Requests,
         NEW kind \in {"continue", "pending"}, NEW browser \in Browsers \cup {None},
         Store(h, kind, browser)
  PROVE  values' \subseteq Values /\ stored' \in [Requests -> Nat]
<1>1. job[h] \in Jobs
  BY DEF TInv, TypeOK
<1> QED
  BY <1>1 DEF TInv, TypeOK, Store, Values, Jobs

LEMMA ParkAgainType ==
  ASSUME TInv, NEW h \in Handlers, At(h, "decide"),
         ParkAgain(h), UNCHANGED <<now, attr, recorded, hosts>>
  PROVE  TInv'
<1>1. job[h] \in Jobs /\ JobOK(job[h]) /\ job[h].req \in Requests /\ job[h].now \in Nat
  BY DEF TInv, TypeOK, JobOK, Jobs, At, Holding
<1> DEFINE j == [job[h] EXCEPT !.pc = "park", !.force = TRUE, !.since = job[h].now]
<1>2. j \in Jobs
  BY <1>1 DEF Jobs, Locations, Holding
<1>3. JobOK(j)
  BY <1>1 DEF Jobs, JobOK, At, Holding
<1>4. job' = [job EXCEPT ![h] = j]
  BY DEF ParkAgain
<1>5. job' \in [Handlers -> Jobs] /\ \A g \in Handlers : JobOK(job'[g])
  BY <1>2, <1>3, <1>4, NewJob
<1> QED
  BY <1>1, <1>5 DEF ParkAgain, TInv, TypeOK, hosts, JobOK

LEMMA TInvStep == TInv /\ [Next]_vars => TInv'
<1> SUFFICES ASSUME TInv, [Next]_vars PROVE TInv'
  OBVIOUS
<1> USE DEF TInv, TypeOK
<1>1. CASE UNCHANGED vars
  BY <1>1 DEF vars, hosts, history, JobOK
<1>2. ASSUME NEW h \in Handlers, NEW r \in Requests, NEW b \in Browsers, Receive(h, r, b)
      PROVE  TInv'
  <2> DEFINE j == [Idle EXCEPT !.pc = "record", !.req = r, !.browser = b,
                                !.force = attr[r].force, !.since = now]
  <2>1. j \in Jobs /\ JobOK(j)
    BY DEF Jobs, JobOK, Idle, Locations, Holding, Attributes
  <2>2. job' \in [Handlers -> Jobs] /\ \A g \in Handlers : JobOK(job'[g])
    BY <1>2, <2>1, NewJob DEF Receive
  <2> QED
    BY <1>2, <2>2 DEF Receive, hosts, history, JobOK
<1>3. ASSUME NEW h \in Handlers, NEW r \in Requests, NEW b \in Browsers, Launch(h, r, b)
      PROVE  TInv'
  <2> DEFINE j == [Idle EXCEPT !.pc = "proceed", !.req = r, !.browser = b, !.since = now]
  <2>1. j \in Jobs /\ JobOK(j)
    BY DEF Jobs, JobOK, Idle, Locations, Holding
  <2>2. job' \in [Handlers -> Jobs] /\ \A g \in Handlers : JobOK(job'[g])
    BY <1>3, <2>1, NewJob DEF Launch
  <2> QED
    BY <1>3, <2>2 DEF Launch, hosts, history, JobOK
<1>4. ASSUME NEW h \in Handlers, NEW v \in values, NEW b \in Browsers, Reenter(h, v, b)
      PROVE  TInv'
  <2> DEFINE j == [Idle EXCEPT !.pc = "proceed", !.req = v.req, !.browser = b,
                                !.force = v.force, !.since = v.since]
  <2>1. j \in Jobs /\ JobOK(j)
    BY DEF Jobs, JobOK, Idle, Locations, Holding, Values
  <2>2. job' \in [Handlers -> Jobs] /\ \A g \in Handlers : JobOK(job'[g])
    BY <1>4, <2>1, NewJob DEF Reenter, JobOK
  <2> QED
    BY <1>4, <2>2 DEF Reenter, hosts, history, JobOK
<1>5. ASSUME NEW h \in Handlers, NEW v \in values, NEW b \in Browsers, Resume(h, v, b)
      PROVE  TInv'
  <2>1. PICK s \in Sessions :
          job' = [job EXCEPT ![h] = [Idle EXCEPT !.pc = "resume", !.value = v, !.browser = b,
                                                  !.session = s]]
    BY <1>5 DEF Resume, SessionOf
  <2> DEFINE j == [Idle EXCEPT !.pc = "resume", !.value = v, !.browser = b, !.session = s]
  <2>2. j \in Jobs /\ JobOK(j)
    BY DEF Jobs, JobOK, Idle, Locations, Holding
  <2>3. job' \in [Handlers -> Jobs] /\ \A g \in Handlers : JobOK(job'[g])
    BY <2>1, <2>2, NewJob
  <2> QED
    BY <1>5, <2>3 DEF Resume, hosts, history, JobOK
<1>6. ASSUME NEW h \in Handlers, Record(h) PROVE TInv'
  <2>1. job[h] \in Jobs /\ job[h].req \in Requests /\ job[h].browser \in Browsers
    BY <1>6 DEF Record, At, JobOK
  <2>2. CASE Goto(h, "validated")
    <3>1. JobOK([job[h] EXCEPT !.pc = "validated"])
      BY <2>1 DEF JobOK, Jobs, Holding
    <3>2. job' \in [Handlers -> Jobs] /\ \A g \in Handlers : JobOK(job'[g])
      BY <2>2, <3>1, GotoJob DEF Locations, Holding
    <3>3. freshFrom' \in [Requests -> Nat] /\ recorded' \subseteq Requests
      BY <1>6, <2>1 DEF Record, Jobs, Fail, history
    <3> QED
      BY <1>6, <3>2, <3>3 DEF Record, Fail, hosts, history, JobOK
  <2>3. CASE Fail(h) /\ UNCHANGED recorded
    BY <1>6, <2>3, FailType DEF Record
  <2> QED
    BY <1>6, <2>2, <2>3 DEF Record
<1>7. ASSUME NEW h \in Handlers, Validated(h) PROVE TInv'
  <2>1. job[h] \in Jobs /\ job[h].req \in Requests /\ job[h].browser \in Browsers
    BY <1>7 DEF Validated, At, JobOK, Holding
  <2>2. CASE Answer(h)
    BY <1>7, <2>1, <2>2, AnswerType DEF Validated
  <2>3. CASE Store(h, "continue", None) /\ Done(h) /\ UNCHANGED history
    BY <1>7, <2>1, <2>3, StoreType, DoneJob DEF Validated, hosts, history, JobOK
  <2>4. CASE Goto(h, "proceed") /\ UNCHANGED <<values, stored, history>>
    <3>1. JobOK([job[h] EXCEPT !.pc = "proceed"])
      BY <2>1 DEF JobOK, Jobs, Holding
    <3>2. job' \in [Handlers -> Jobs] /\ \A g \in Handlers : JobOK(job'[g])
      BY <2>4, <3>1, GotoJob DEF Locations, Holding
    <3> QED
      BY <1>7, <2>4, <3>2 DEF Validated, hosts, history, JobOK
  <2> QED
    BY <1>7, <2>2, <2>3, <2>4 DEF Validated
<1>8. ASSUME NEW h \in Handlers, Proceed(h) PROVE TInv'
  <2>1. job[h] \in Jobs /\ job[h].req \in Requests /\ job[h].browser \in Browsers
    BY <1>8 DEF Proceed, At, JobOK, Holding
  <2>2. ASSUME NEW s \in Sessions, BeginIssue(h, s), UNCHANGED <<values, stored, history>>
        PROVE  TInv'
    <3> DEFINE j == [job[h] EXCEPT !.pc = "issue", !.session = s, !.now = now,
                                   !.ended = {t \in Sessions : status[t] = "gone"}]
    <3>1. j \in Jobs /\ JobOK(j)
      BY <2>1 DEF Jobs, JobOK, Locations, Holding
    <3>2. job' = [job EXCEPT ![h] = j]
      BY <2>2 DEF BeginIssue
    <3>3. job' \in [Handlers -> Jobs] /\ \A g \in Handlers : JobOK(job'[g])
      BY <3>1, <3>2, NewJob
    <3> QED
      BY <1>8, <2>2, <3>3 DEF Proceed, hosts, history, JobOK
  <2>3. CASE Answer(h)
    BY <1>8, <2>1, <2>3, AnswerType DEF Proceed
  <2>4. CASE Goto(h, "park") /\ UNCHANGED <<values, stored, history>>
    <3>1. JobOK([job[h] EXCEPT !.pc = "park"])
      BY <2>1 DEF JobOK, Jobs, Holding
    <3>2. job' \in [Handlers -> Jobs] /\ \A g \in Handlers : JobOK(job'[g])
      BY <2>4, <3>1, GotoJob DEF Locations, Holding
    <3> QED
      BY <1>8, <2>4, <3>2 DEF Proceed, hosts, history, JobOK
  <2> QED
    BY <1>8, <2>2, <2>3, <2>4 DEF Proceed, SessionOf
<1>9. ASSUME NEW h \in Handlers, Park(h) PROVE TInv'
  <2>1. job[h] \in Jobs /\ job[h].req \in Requests /\ job[h].browser \in Browsers
    BY <1>9 DEF Park, At, JobOK, Holding
  <2>2. values' \subseteq Values /\ stored' \in [Requests -> Nat]
    BY <1>9, <2>1, StoreType DEF Park
  <2>3. job' \in [Handlers -> Jobs] /\ \A g \in Handlers : JobOK(job'[g])
    BY <1>9, DoneJob DEF Park
  <2>4. parks' \in [Requests -> Nat] /\ boundTo' \in [Requests -> Browsers \cup {None}]
    BY <1>9, <2>1 DEF Park
  <2> QED
    BY <1>9, <2>2, <2>3, <2>4 DEF Park, hosts, JobOK
<1>10. ASSUME NEW h \in Handlers, Consume(h) PROVE TInv'
  <2>1. job[h] \in Jobs /\ JobOK(job[h]) /\ job[h].value \in Values
        /\ job[h].session \in Sessions /\ job[h].browser \in Browsers
    BY <1>10 DEF Consume, At, JobOK
  <2>2. CASE Done(h)
    BY <1>10, <2>2, DoneJob DEF Consume, hosts, history, JobOK
  <2>3. CASE ~Done(h)
    <3> DEFINE v == job[h].value
               j == [job[h] EXCEPT !.pc = "issue", !.req = v.req, !.force = v.force,
                                   !.since = v.since, !.now = now, !.value = None,
                                   !.ended = {t \in Sessions : status[t] = "gone"}]
    <3>1. v.req \in Requests /\ v.force \in BOOLEAN /\ v.since \in Nat
      BY <2>1 DEF Values
    <3>2. j \in Jobs
      BY <2>1, <3>1 DEF Jobs, Locations, Holding
    <3>3. JobOK(j)
      BY <2>1, <3>1 DEF Jobs, JobOK, Holding
    <3>4. job' = [job EXCEPT ![h] = j]
      BY <1>10, <2>3 DEF Consume
    <3>5. job' \in [Handlers -> Jobs] /\ \A g \in Handlers : JobOK(job'[g])
      BY <3>2, <3>3, <3>4, NewJob
    <3> QED
      BY <1>10, <3>5 DEF Consume, hosts, history, JobOK
  <2> QED
    BY <2>2, <2>3
<1>11. ASSUME NEW h \in Handlers, Eligible(h) PROVE TInv'
  <2>1. job[h] \in Jobs /\ JobOK(job[h])
    BY DEF JobOK
  <2>2. CASE Done(h)
    BY <1>11, <2>2, DoneJob DEF Eligible, hosts, history, JobOK
  <2>3. CASE Goto(h, "decide")
    <3>1. JobOK([job[h] EXCEPT !.pc = "decide"])
      BY <1>11, <2>1 DEF Eligible, At, JobOK, Jobs, Holding
    <3>2. job' \in [Handlers -> Jobs] /\ \A g \in Handlers : JobOK(job'[g])
      BY <2>3, <3>1, GotoJob DEF Locations, Holding
    <3> QED
      BY <1>11, <3>2 DEF Eligible, hosts, history, JobOK
  <2> QED
    BY <1>11, <2>2, <2>3 DEF Eligible
<1>12. ASSUME NEW h \in Handlers, Decide(h) PROVE TInv'
  <2>1. job[h] \in Jobs /\ JobOK(job[h]) /\ job[h].req \in Requests
    BY <1>12 DEF Decide, At, JobOK, Holding
  <2>2. CASE Answer(h)
    BY <1>12, <2>1, <2>2, AnswerType DEF Decide
  <2>3. CASE Fail(h)
    BY <1>12, <2>3, FailType DEF Decide
  <2>4. CASE ParkAgain(h)
    BY <1>12, <2>4, ParkAgainType DEF Decide
  <2>5. CASE Goto(h, "signed") /\ UNCHANGED <<values, stored, history>>
    <3>1. JobOK([job[h] EXCEPT !.pc = "signed"])
      BY <1>12, <2>1 DEF Decide, At, JobOK, Jobs, Holding
    <3>2. job' \in [Handlers -> Jobs] /\ \A g \in Handlers : JobOK(job'[g])
      BY <2>5, <3>1, GotoJob DEF Locations, Holding
    <3> QED
      BY <1>12, <2>5, <3>2 DEF Decide, hosts, history, JobOK
  <2> QED
    BY <1>12, <2>2, <2>3, <2>4, <2>5 DEF Decide, Reauthenticate, StepUp
<1>13. ASSUME NEW h \in Handlers, Respond(h) PROVE TInv'
  <2>1. job[h].req \in Requests
    BY <1>13 DEF Respond, At, JobOK, Holding
  <2> QED
    BY <1>13, <2>1, AnswerType, FailType DEF Respond
<1>14. ASSUME NEW h \in Handlers, Crash(h) PROVE TInv'
  BY <1>14, DoneJob DEF Crash, hosts, history, JobOK
<1>15. ASSUME NEW v \in values, Expire(v) PROVE TInv'
  BY <1>15 DEF Expire, hosts, history, JobOK
<1>16. ASSUME NEW s \in Sessions, NEW b \in Browsers, Login(b, s) PROVE TInv'
  BY <1>16 DEF Login, history, JobOK
<1>17. ASSUME NEW s \in Sessions, End(s) PROVE TInv'
  BY <1>17 DEF End, history, JobOK
<1>18. CASE Tick
  BY <1>18 DEF Tick, hosts, history, JobOK
<1>19. ASSUME NEW h \in Handlers, NEW v \in values, NEW b \in Browsers, SendBack(h, v, b)
      PROVE  TInv'
  BY <1>19 DEF SendBack, hosts, JobOK, Values
<1> QED
  BY <1>1, <1>2, <1>3, <1>4, <1>5, <1>6, <1>7, <1>8, <1>9, <1>10, <1>11, <1>12, <1>13,
     <1>14, <1>15, <1>16, <1>17, <1>18, <1>19 DEF Next, Handle

(* Every variable of the sign-on flow keeps its type, and every handler the *)
(* fields its place in the code reads.                                      *)
THEOREM TypeCorrect == Spec => []TypeOK
<1>1. TInv => TypeOK
  BY DEF TInv
<1> QED
  BY <1>1, TInvInit, TInvStep, PTL DEF Spec

-----------------------------------------------------------------------------
(***************************************************************************)
(* One answer per request.  A request's right to be answered is one token: *)
(* it comes into being with the first sight, is held by one handler or     *)
(* stored in one value, and is spent by the answer.                        *)
(***************************************************************************)
Holds(h, r) == job[h].pc \in Holding /\ job[h].req = r

(* No right without a first sight. *)
Unseen ==
  \A r \in Requests \ recorded :
    /\ answers[r] = 0
    /\ \A h \in Handlers : ~Holds(h, r)
    /\ \A v \in values : v.req # r

(* One holder, and then no stored value and no answer. *)
OneHolder ==
  \A r \in Requests, h \in Handlers :
    Holds(h, r) =>
      /\ answers[r] = 0
      /\ \A g \in Handlers : Holds(g, r) => g = h
      /\ \A v \in values : v.req # r

(* One stored value, and then no answer. *)
OneValue ==
  \A v \in values :
    /\ answers[v.req] = 0
    /\ \A w \in values : w.req = v.req => w = v

RInv == TInv /\ Unseen /\ OneHolder /\ OneValue /\ OneAnswer

(* Handlers may lose rights or keep them, values may go. *)
LEMMA KeepRight ==
  ASSUME RInv, TInv', values' \subseteq values, UNCHANGED <<answers, recorded>>,
         \A g \in Handlers, q \in Requests : Holds(g, q)' => Holds(g, q)
  PROVE  RInv'
<1>1. Unseen' /\ OneValue' /\ OneAnswer'
  BY DEF RInv, Unseen, OneValue, OneAnswer
<1>2. OneHolder'
  BY DEF RInv, OneHolder
<1> QED
  BY <1>1, <1>2 DEF RInv

(* A first sight gives the right to one handler. *)
LEMMA NewRight ==
  ASSUME RInv, TInv', NEW r \in Requests, r \notin recorded, NEW h \in Handlers,
         recorded' = recorded \cup {r}, UNCHANGED <<answers, values>>,
         \A g \in Handlers, q \in Requests :
           Holds(g, q)' => Holds(g, q) \/ (g = h /\ q = r)
  PROVE  RInv'
<1>1. Unseen' /\ OneValue' /\ OneAnswer'
  BY DEF RInv, Unseen, OneValue, OneAnswer
<1>2. OneHolder'
  BY DEF RInv, OneHolder, Unseen
<1> QED
  BY <1>1, <1>2 DEF RInv

(* A holder turns its right into a stored value. *)
LEMMA StoreRight ==
  ASSUME RInv, TInv', NEW r \in Requests, NEW h \in Handlers, Holds(h, r),
         NEW v, v.req = r, values' = values \cup {v}, UNCHANGED <<answers, recorded>>,
         \A g \in Handlers, q \in Requests : Holds(g, q)' => Holds(g, q) /\ g # h
  PROVE  RInv'
<1>1. r \in recorded /\ answers[r] = 0 /\ \A w \in values : w.req # r
  BY DEF RInv, Unseen, OneHolder
<1>2. Unseen' /\ OneAnswer'
  BY <1>1 DEF RInv, Unseen, OneAnswer
<1>3. OneValue'
  BY <1>1 DEF RInv, OneValue
<1>4. OneHolder'
  BY DEF RInv, OneHolder
<1> QED
  BY <1>2, <1>3, <1>4 DEF RInv

(* A consumer takes the right out of a stored value. *)
LEMMA TakeRight ==
  ASSUME RInv, TInv', NEW v \in values, NEW h \in Handlers,
         values' = values \ {v}, UNCHANGED <<answers, recorded>>,
         \A g \in Handlers, q \in Requests :
           Holds(g, q)' => Holds(g, q) \/ (g = h /\ q = v.req)
  PROVE  RInv'
<1>1. v.req \in Requests
  BY DEF RInv, TInv, TypeOK, Values
<1>2. v.req \in recorded /\ answers[v.req] = 0 /\ \A g \in Handlers : ~Holds(g, v.req)
  BY <1>1 DEF RInv, Unseen, OneValue, OneHolder
<1>3. Unseen' /\ OneValue' /\ OneAnswer'
  BY <1>2 DEF RInv, Unseen, OneValue, OneAnswer
<1>4. OneHolder'
  BY <1>2 DEF RInv, OneHolder, OneValue
<1> QED
  BY <1>3, <1>4 DEF RInv

(* An answer spends the right of its holder. *)
LEMMA SpendRight ==
  ASSUME RInv, TInv', NEW r \in Requests, NEW h \in Handlers, Holds(h, r),
         answers' = [answers EXCEPT ![r] = @ + 1], UNCHANGED <<values, recorded>>,
         \A g \in Handlers, q \in Requests : Holds(g, q)' => Holds(g, q) /\ g # h
  PROVE  RInv'
<1>1. r \in recorded /\ answers[r] = 0 /\ \A v \in values : v.req # r
  BY DEF RInv, Unseen, OneHolder
<1>2. answers' = [answers EXCEPT ![r] = 1]
  BY <1>1 DEF RInv, TInv, TypeOK
<1>3. Unseen' /\ OneAnswer'
  BY <1>1, <1>2 DEF RInv, TInv, TypeOK, Unseen, OneAnswer
<1>4. OneValue'
  BY <1>1, <1>2 DEF RInv, TInv, TypeOK, OneValue
<1>5. OneHolder'
  BY <1>2 DEF RInv, TInv, TypeOK, OneHolder
<1> QED
  BY <1>3, <1>4, <1>5 DEF RInv

-----------------------------------------------------------------------------
(* What a handler's new job holds. *)
LEMMA JobHolds ==
  ASSUME TypeOK, NEW h \in Handlers, NEW j, job' = [job EXCEPT ![h] = j]
  PROVE  \A g \in Handlers, q \in Requests :
           Holds(g, q)' => \/ Holds(g, q) /\ g # h
                           \/ g = h /\ j.pc \in Holding /\ q = j.req
  BY DEF TypeOK, Holds

LEMMA DoneHolds ==
  ASSUME TypeOK, NEW h \in Handlers, Done(h)
  PROVE  \A g \in Handlers, q \in Requests : Holds(g, q)' => Holds(g, q) /\ g # h
<1>1. Idle.pc \notin Holding
  BY DEF Idle, Holding
<1>2. job' = [job EXCEPT ![h] = Idle]
  BY DEF Done
<1> QED
  BY <1>1, <1>2, JobHolds

LEMMA GotoHolds ==
  ASSUME TypeOK, NEW h \in Handlers, job[h].pc \in Holding, NEW l, Goto(h, l)
  PROVE  \A g \in Handlers, q \in Requests : Holds(g, q)' => Holds(g, q)
<1>1. job' = [job EXCEPT ![h] = [job[h] EXCEPT !.pc = l]]
  BY DEF Goto
<1>2. job[h] \in Jobs
  BY DEF TypeOK
<1>3. [job[h] EXCEPT !.pc = l].req = job[h].req
  BY <1>2 DEF Jobs
<1> QED
  BY <1>1, <1>3, JobHolds DEF Holds

LEMMA RInvInit == Init => RInv
  BY TInvInit DEF Init, RInv, Unseen, OneHolder, OneValue, OneAnswer, Holds, Idle, Holding

LEMMA RInvStep == RInv /\ [Next]_vars => RInv'
<1> SUFFICES ASSUME RInv, [Next]_vars PROVE RInv'
  OBVIOUS
<1>t. TInv /\ TypeOK /\ TInv'
  BY TInvStep DEF RInv, TInv
<1> USE <1>t
<1>1. CASE UNCHANGED vars
  BY <1>1, KeepRight DEF vars, history, Holds
<1>2. ASSUME NEW h \in Handlers, NEW r \in Requests, NEW b \in Browsers, Receive(h, r, b)
      PROVE  RInv'
  <2> DEFINE j == [Idle EXCEPT !.pc = "record", !.req = r, !.browser = b,
                                !.force = attr[r].force, !.since = now]
  <2>1. j.pc \notin Holding
    BY DEF Idle, Holding
  <2>2. job' = [job EXCEPT ![h] = j]
    BY <1>2 DEF Receive
  <2> HIDE DEF j
  <2>3. \A g \in Handlers, q \in Requests : Holds(g, q)' => Holds(g, q)
    BY <2>1, <2>2, JobHolds
  <2> QED
    BY <1>2, <2>3, KeepRight DEF Receive, history
<1>3. ASSUME NEW h \in Handlers, NEW r \in Requests, NEW b \in Browsers, Launch(h, r, b)
      PROVE  RInv'
  <2>1. \A g \in Handlers, q \in Requests : Holds(g, q)' => Holds(g, q) \/ (g = h /\ q = r)
    <3> DEFINE j == [Idle EXCEPT !.pc = "proceed", !.req = r, !.browser = b, !.since = now]
    <3>1. j.req = r
      BY DEF Idle
    <3>2. job' = [job EXCEPT ![h] = j]
      BY <1>3 DEF Launch
    <3> HIDE DEF j
    <3> QED
      BY <3>1, <3>2, JobHolds
  <2> QED
    BY <1>3, <2>1, NewRight DEF Launch, history
<1>4. ASSUME NEW h \in Handlers, NEW v \in values, NEW b \in Browsers, Reenter(h, v, b)
      PROVE  RInv'
  <2>1. \A g \in Handlers, q \in Requests :
          Holds(g, q)' => Holds(g, q) \/ (g = h /\ q = v.req)
    <3>1. CASE UNCHANGED job
      BY <3>1 DEF Holds
    <3>2. CASE ~UNCHANGED job
      <4> DEFINE j == [Idle EXCEPT !.pc = "proceed", !.req = v.req, !.browser = b,
                                    !.force = v.force, !.since = v.since]
      <4>1. j.req = v.req
        BY DEF Idle
      <4>2. job' = [job EXCEPT ![h] = j]
        BY <1>4, <3>2 DEF Reenter
      <4> HIDE DEF j
      <4> QED
        BY <4>1, <4>2, JobHolds
    <3> QED
      BY <3>1, <3>2
  <2> QED
    BY <1>4, <2>1, TakeRight DEF Reenter, history
<1>5. ASSUME NEW h \in Handlers, NEW v \in values, NEW b \in Browsers, Resume(h, v, b)
      PROVE  RInv'
  <2>1. \A g \in Handlers, q \in Requests : Holds(g, q)' => Holds(g, q)
    <3>1. PICK s \in Sessions :
            job' = [job EXCEPT ![h] = [Idle EXCEPT !.pc = "resume", !.value = v,
                                                    !.browser = b, !.session = s]]
      BY <1>5 DEF Resume, SessionOf
    <3> DEFINE j == [Idle EXCEPT !.pc = "resume", !.value = v, !.browser = b, !.session = s]
    <3>2. j.pc \notin Holding /\ job' = [job EXCEPT ![h] = j]
      BY <3>1 DEF Idle, Holding
    <3> HIDE DEF j
    <3> QED
      BY <3>2, JobHolds
  <2> QED
    BY <1>5, <2>1, KeepRight DEF Resume, history
<1>6. ASSUME NEW h \in Handlers, Record(h) PROVE RInv'
  <2>1. job[h] \in Jobs /\ job[h].req \in Requests
    BY <1>6 DEF Record, At, JobOK, TInv, TypeOK
  <2> DEFINE r == job[h].req
  <2>2. CASE r \notin recorded
    <3>1. Goto(h, "validated") /\ recorded' = recorded \cup {r}
          /\ UNCHANGED <<answers, values>>
      BY <1>6, <2>2 DEF Record
    <3>2. job' = [job EXCEPT ![h] = [job[h] EXCEPT !.pc = "validated"]]
      BY <3>1 DEF Goto
    <3>3. [job[h] EXCEPT !.pc = "validated"].req = r
      BY <2>1 DEF Jobs
    <3>4. \A g \in Handlers, q \in Requests : Holds(g, q)' => Holds(g, q) \/ (g = h /\ q = r)
      BY <3>2, <3>3, JobHolds
    <3> QED
      BY <2>1, <2>2, <3>1, <3>4, NewRight
  <2>3. CASE r \in recorded
    BY <1>6, <2>3, DoneHolds, KeepRight DEF Record, Fail, history
  <2> QED
    BY <2>2, <2>3
<1>a. ASSUME NEW h \in Handlers, job[h].pc \in Holding, Answer(h), UNCHANGED recorded
      PROVE  RInv'
  <2>1. Holds(h, job[h].req) /\ job[h].req \in Requests
    BY <1>a DEF Holds, TInv, JobOK
  <2> QED
    BY <1>a, <2>1, DoneHolds, SpendRight DEF Answer
<1>b. ASSUME NEW h \in Handlers, Done(h), values' \subseteq values,
             UNCHANGED <<answers, recorded>>
      PROVE  RInv'
  BY <1>b, DoneHolds, KeepRight
<1>c. ASSUME NEW h \in Handlers, job[h].pc \in Holding, NEW l, Goto(h, l),
             UNCHANGED <<values, answers, recorded>>
      PROVE  RInv'
  BY <1>c, GotoHolds, KeepRight
<1>d. ASSUME NEW h \in Handlers, job[h].pc \in Holding, Done(h),
             NEW kind, NEW browser, Store(h, kind, browser), UNCHANGED <<answers, recorded>>
      PROVE  RInv'
  <2>1. Holds(h, job[h].req) /\ job[h].req \in Requests
    BY <1>d DEF Holds, TInv, JobOK
  <2> DEFINE v == [id |-> stored[job[h].req] + 1, kind |-> kind, req |-> job[h].req,
                   browser |-> browser, force |-> job[h].force, since |-> job[h].since]
  <2>2. values' = values \cup {v} /\ v.req = job[h].req
    BY <1>d DEF Store
  <2> HIDE DEF v
  <2>3. \A g \in Handlers, q \in Requests : Holds(g, q)' => Holds(g, q) /\ g # h
    BY <1>d, DoneHolds
  <2> QED
    BY <1>d, <2>1, <2>2, <2>3, StoreRight
<1>7. ASSUME NEW h \in Handlers, Validated(h) PROVE RInv'
  BY <1>7, <1>a, <1>c, <1>d DEF Validated, At, Holding, history
<1>8. ASSUME NEW h \in Handlers, Proceed(h) PROVE RInv'
  <2>1. job[h] \in Jobs /\ job[h].pc \in Holding
    BY <1>8 DEF Proceed, At, Holding, TypeOK
  <2>2. ASSUME NEW s, BeginIssue(h, s), UNCHANGED <<values, stored, history>>
        PROVE  RInv'
    <3>1. \A g \in Handlers, q \in Requests : Holds(g, q)' => Holds(g, q)
      <4> DEFINE j == [job[h] EXCEPT !.pc = "issue", !.session = s, !.now = now,
                                     !.ended = {t \in Sessions : status[t] = "gone"}]
      <4>1. j.req = job[h].req
        BY <2>1 DEF Jobs
      <4>2. job' = [job EXCEPT ![h] = j]
        BY <2>2 DEF BeginIssue
      <4> HIDE DEF j
      <4> QED
        BY <2>1, <4>1, <4>2, JobHolds DEF Holds
    <3> QED
      BY <1>8, <2>2, <3>1, KeepRight DEF Proceed, history
  <2> QED
    BY <1>8, <2>1, <2>2, <1>a, <1>c DEF Proceed, history
<1>9. ASSUME NEW h \in Handlers, Park(h) PROVE RInv'
  BY <1>9, <1>d DEF Park, At, Holding
<1>10. ASSUME NEW h \in Handlers, Consume(h) PROVE RInv'
  <2> DEFINE v == job[h].value
  <2>1. job[h] \in Jobs
    BY DEF TypeOK
  <2>2. CASE Done(h)
    BY <1>10, <2>2, <1>b DEF Consume, history
  <2>3. CASE ~Done(h)
    <3>1. v \in values
      BY <1>10, <2>3 DEF Consume
    <3>2. \A g \in Handlers, q \in Requests :
            Holds(g, q)' => Holds(g, q) \/ (g = h /\ q = v.req)
      <4> DEFINE j == [job[h] EXCEPT !.pc = "issue", !.req = v.req, !.force = v.force,
                                     !.since = v.since, !.now = now, !.value = None,
                                     !.ended = {t \in Sessions : status[t] = "gone"}]
      <4>1. j.req = v.req
        BY <2>1 DEF Jobs
      <4>2. job' = [job EXCEPT ![h] = j]
        BY <1>10, <2>3 DEF Consume
      <4> HIDE DEF j
      <4> QED
        BY <4>1, <4>2, JobHolds
    <3> QED
      BY <1>10, <3>1, <3>2, TakeRight DEF Consume, history
  <2> QED
    BY <2>2, <2>3
<1>11. ASSUME NEW h \in Handlers, Eligible(h) PROVE RInv'
  BY <1>11, <1>b, <1>c DEF Eligible, At, Holding, history
<1>12. ASSUME NEW h \in Handlers, Decide(h) PROVE RInv'
  <2>1. job[h] \in Jobs /\ job[h].pc \in Holding
    BY <1>12 DEF Decide, At, Holding, TypeOK
  <2>2. CASE ParkAgain(h)
    <3>1. \A g \in Handlers, q \in Requests : Holds(g, q)' => Holds(g, q)
      <4> DEFINE j == [job[h] EXCEPT !.pc = "park", !.force = TRUE, !.since = job[h].now]
      <4>1. j.req = job[h].req
        BY <2>1 DEF Jobs
      <4>2. job' = [job EXCEPT ![h] = j]
        BY <2>2 DEF ParkAgain
      <4> HIDE DEF j
      <4> QED
        BY <2>1, <4>1, <4>2, JobHolds DEF Holds
    <3> QED
      BY <1>12, <2>2, <3>1, KeepRight DEF Decide, ParkAgain
  <2>3. CASE Fail(h)
    BY <1>12, <2>3, <1>b DEF Decide, Fail, history
  <2> QED
    BY <1>12, <2>1, <2>2, <2>3, <1>a, <1>c DEF Decide, Reauthenticate, StepUp, history
<1>13. ASSUME NEW h \in Handlers, Respond(h) PROVE RInv'
  BY <1>13, <1>a, <1>b DEF Respond, Fail, At, Holding, history
<1>14. ASSUME NEW h \in Handlers, Crash(h) PROVE RInv'
  BY <1>14, <1>b DEF Crash, history
<1>15. ASSUME NEW v \in values, Expire(v) PROVE RInv'
  BY <1>15, KeepRight DEF Expire, history, Holds
<1>16. ASSUME NEW s \in Sessions, NEW b \in Browsers, Login(b, s) PROVE RInv'
  BY <1>16, KeepRight DEF Login, history, Holds
<1>17. ASSUME NEW s \in Sessions, End(s) PROVE RInv'
  BY <1>17, KeepRight DEF End, history, Holds
<1>18. CASE Tick
  BY <1>18, KeepRight DEF Tick, history, Holds
<1>19. ASSUME NEW h \in Handlers, NEW v \in values, NEW b \in Browsers, SendBack(h, v, b)
      PROVE  RInv'
  BY <1>19, KeepRight DEF SendBack, Holds
<1> QED
  BY <1>1, <1>2, <1>3, <1>4, <1>5, <1>6, <1>7, <1>8, <1>9, <1>10, <1>11, <1>12, <1>13,
     <1>14, <1>15, <1>16, <1>17, <1>18, <1>19 DEF Next, Handle

(* A request gets at most one SAML Response, for any number of requests,    *)
(* handlers, browsers and sessions: R1 and R2 of sso.ts and resume.ts.      *)
THEOREM AtMostOneAnswer == Spec => []OneAnswer
<1>1. RInv => OneAnswer
  BY DEF RInv
<1> QED
  BY <1>1, RInvInit, RInvStep, PTL DEF Spec

-----------------------------------------------------------------------------
(***************************************************************************)
(* What a right carries.  The histories of a request say what its one      *)
(* holder, handler or value, still owes: how fresh the session must be,    *)
(* which browser it is for, and how often its user was sent to sign in.    *)
(***************************************************************************)
OwedSince(force, since) == IF force THEN since ELSE 0

(* How often a request can have been parked by the time it is issued: again only by *)
(* issueResponse, which makes a ForceAuthn request of one that was none.            *)
ParksBy(r, force) == IF force /\ ~attr[r].force THEN 2 ELSE 1

(* A request that was never parked is as its message was. *)
AsReceived(r, force) == boundTo[r] = None /\ parks[r] = 0 /\ force = attr[r].force

HolderOK(j) ==
  LET r == j.req IN
  /\ freshFrom[r] = OwedSince(j.force, j.since)
  /\ attr[r].force => j.force
  /\ boundTo[r] \in {None, j.browser}
  /\ j.pc \in {"validated", "proceed"} => AsReceived(r, j.force)
  /\ j.pc = "park" => ~attr[r].passive /\ parks[r] < ParksBy(r, j.force)
  /\ j.pc \in {"issue", "decide", "signed"} =>
       (j.force => Fresh(j.session, j.since)) /\ parks[r] <= ParksBy(r, j.force)

JobGood(j) ==
  /\ j.pc \in Holding => HolderOK(j)
  /\ j.pc = "record" => j.force = attr[j.req].force
  /\ j.pc \in {"resume", "issue", "decide", "signed"} => status[j.session] # "unused"
  /\ j.pc = "issue" => \A t \in j.ended : status[t] = "gone"
  /\ j.pc \in {"decide", "signed"} => j.session \notin j.ended

ValueGood(v) ==
  LET r == v.req IN
  /\ freshFrom[r] = OwedSince(v.force, v.since)
  /\ attr[r].force => v.force
  /\ v.kind = "continue" => AsReceived(r, v.force)
  /\ v.kind = "pending" => boundTo[r] = v.browser /\ parks[r] <= ParksBy(r, v.force)

Untouched(r) == boundTo[r] = None /\ parks[r] = 0 /\ freshFrom[r] = 0

(* The bound on the parks themselves. *)
ParkBound ==
  \A r \in Requests :
    parks[r] <= IF attr[r].passive THEN 0 ELSE IF attr[r].force THEN 1 ELSE 2

GInv ==
  /\ RInv
  /\ \A h \in Handlers : JobGood(job[h])
  /\ \A v \in values : ValueGood(v)
  /\ \A r \in Requests \ recorded : Untouched(r)
  /\ ParkBound

LEMMA IdleIsGood == JobGood(Idle)
  BY DEF JobGood, Idle, Holding

LEMMA GInvInit == Init => GInv
<1> SUFFICES ASSUME Init PROVE GInv
  OBVIOUS
<1>1. RInv /\ TypeOK
  BY RInvInit DEF RInv, TInv
<1>2. ParkBound
  <2> SUFFICES ASSUME NEW r \in Requests
               PROVE  parks[r] <= IF attr[r].passive THEN 0 ELSE IF attr[r].force THEN 1 ELSE 2
    BY DEF ParkBound
  <2>1. parks[r] = 0
    BY DEF Init
  <2>2. CASE attr[r].passive
    BY <2>1, <2>2
  <2>3. CASE ~attr[r].passive
    BY <2>1, <2>3
  <2> QED
    BY <2>2, <2>3
<1> QED
  BY <1>1, <1>2, IdleIsGood DEF Init, GInv, Untouched

LEMMA SameJob ==
  ASSUME NEW j, JobGood(j), UNCHANGED <<attr, status, created, parks, boundTo, freshFrom>>
  PROVE  JobGood(j)'
  BY DEF JobGood, HolderOK, ParksBy, AsReceived, Fresh, OwedSince

LEMMA SameValue ==
  ASSUME NEW v, ValueGood(v), UNCHANGED <<attr, parks, boundTo, freshFrom>>
  PROVE  ValueGood(v)'
  BY DEF ValueGood, ParksBy, AsReceived, OwedSince

(* A step that leaves the histories alone, and gives one handler a good job. *)
LEMMA QuietStep ==
  ASSUME GInv, RInv', NEW h \in Handlers, NEW j, JobGood(j), job' = [job EXCEPT ![h] = j],
         UNCHANGED <<attr, hosts, parks, boundTo, freshFrom>>,
         recorded \subseteq recorded', \A v \in values' \ values : ValueGood(v)
  PROVE  GInv'
<1> USE DEF hosts
<1>1. \A g \in Handlers : JobGood(job'[g])
  BY DEF GInv, RInv, TInv, TypeOK
<1>2. \A g \in Handlers : JobGood(job[g])'
  BY <1>1, SameJob
<1>3. \A v \in values' : ValueGood(v)
  BY DEF GInv
<1>4. \A v \in values' : ValueGood(v)'
  BY <1>3, SameValue
<1>5. (\A r \in Requests \ recorded : Untouched(r))' /\ ParkBound'
  BY DEF GInv, Untouched, ParkBound
<1> QED
  BY <1>2, <1>4, <1>5 DEF GInv

(* A step of the holder of a right, which may write the histories of its request. *)
LEMMA HolderStep ==
  ASSUME GInv, RInv', NEW h \in Handlers, NEW r \in Requests, Holds(h, r) \/ r \notin recorded,
         NEW j, JobGood(j)', job' = [job EXCEPT ![h] = j], UNCHANGED <<attr, hosts>>,
         \A q \in Requests \ {r} :
           parks'[q] = parks[q] /\ boundTo'[q] = boundTo[q] /\ freshFrom'[q] = freshFrom[q],
         recorded' = recorded \cup {r}, \A v \in values' \ values : ValueGood(v)',
         parks'[r] <= IF attr[r].passive THEN 0 ELSE IF attr[r].force THEN 1 ELSE 2
  PROVE  GInv'
<1> USE DEF hosts
<1>1. \A g \in Handlers \ {h} : ~Holds(g, r)
  BY DEF GInv, RInv, Unseen, OneHolder
<1>2. \A v \in values : v.req \in Requests \ {r}
  BY DEF GInv, RInv, Unseen, OneHolder, TInv, TypeOK, Values
<1>3. ASSUME NEW g \in Handlers PROVE JobGood(job[g])'
  <2>1. CASE g = h
    BY <2>1 DEF GInv, RInv, TInv, TypeOK
  <2>2. CASE g # h
    <3>1. job'[g] = job[g] /\ JobGood(job[g]) /\ JobOK(job[g])
      BY <2>2 DEF GInv, RInv, TInv, TypeOK
    <3>2. job[g].pc \in Holding => job[g].req \in Requests \ {r}
      BY <1>1, <2>2, <3>1 DEF Holds, JobOK
    <3> QED
      BY <3>1, <3>2 DEF JobGood, HolderOK, ParksBy, AsReceived, Fresh, Holding
  <2> QED
    BY <2>1, <2>2
<1>4. ASSUME NEW v \in values' PROVE ValueGood(v)'
  <2>1. CASE v \in values
    BY <1>2, <2>1 DEF GInv, ValueGood, ParksBy, AsReceived
  <2> QED
    BY <2>1
<1>5. (\A q \in Requests \ recorded : Untouched(q))'
  BY DEF GInv, Untouched
<1>6. ParkBound'
  BY DEF GInv, ParkBound
<1> QED
  BY <1>3, <1>4, <1>5, <1>6 DEF GInv

(* A step that moves no handler: the sessions may change as they do. *)
LEMMA StillStep ==
  ASSUME GInv, RInv', UNCHANGED <<attr, recorded, job, parks, boundTo, freshFrom>>,
         values' \subseteq values,
         \A s \in Sessions :
           /\ status[s] # "unused" => status'[s] # "unused" /\ created'[s] = created[s]
           /\ status[s] = "gone" => status'[s] = "gone"
  PROVE  GInv'
<1>1. ASSUME NEW h \in Handlers PROVE JobGood(job[h])'
  <2>1. JobGood(job[h]) /\ JobOK(job[h]) /\ job[h] \in Jobs
    BY DEF GInv, RInv, TInv, TypeOK
  <2>2. job[h].ended \subseteq Sessions
    BY <2>1 DEF Jobs
  <2>3. job[h].pc \in {"resume", "issue", "decide", "signed"} =>
          job[h].session \in Sessions /\ status[job[h].session] # "unused"
    BY <2>1 DEF JobOK, JobGood
  <2> QED
    BY <2>1, <2>2, <2>3 DEF JobGood, HolderOK, ParksBy, AsReceived, Fresh, OwedSince
<1>2. (\A v \in values : ValueGood(v))'
  BY SameValue DEF GInv
<1>3. (\A r \in Requests \ recorded : Untouched(r))' /\ ParkBound'
  BY DEF GInv, Untouched, ParkBound
<1> QED
  BY <1>1, <1>2, <1>3 DEF GInv

(* A handler that is done, or that goes on with the right it has. *)
LEMMA DoneStep ==
  ASSUME GInv, RInv', NEW h \in Handlers, Done(h),
         UNCHANGED <<attr, hosts, parks, boundTo, freshFrom>>,
         recorded \subseteq recorded', \A v \in values' \ values : ValueGood(v)
  PROVE  GInv'
  BY IdleIsGood, QuietStep DEF Done

LEMMA GotoStep ==
  ASSUME GInv, RInv', NEW h \in Handlers, NEW l, Goto(h, l), JobGood([job[h] EXCEPT !.pc = l]),
         UNCHANGED <<attr, hosts, parks, boundTo, freshFrom, recorded, values>>
  PROVE  GInv'
<1>1. job' = [job EXCEPT ![h] = [job[h] EXCEPT !.pc = l]]
  BY DEF Goto
<1> QED
  BY <1>1, QuietStep

LEMMA GInvStep == GInv /\ [Next]_vars => GInv'
<1> SUFFICES ASSUME GInv, [Next]_vars PROVE GInv'
  OBVIOUS
<1>t. /\ RInv' /\ RInv /\ TInv /\ TypeOK
      /\ \A h \in Handlers : job[h] \in Jobs /\ JobOK(job[h]) /\ JobGood(job[h])
      /\ \A v \in values : v \in Values /\ ValueGood(v)
  BY RInvStep DEF GInv, RInv, TInv, TypeOK
<1> USE <1>t
<1>1. CASE UNCHANGED vars
  BY <1>1, StillStep DEF vars, history, hosts
<1>2. ASSUME NEW h \in Handlers, NEW r \in Requests, NEW b \in Browsers, Receive(h, r, b)
      PROVE  GInv'
  <2> DEFINE j == [Idle EXCEPT !.pc = "record", !.req = r, !.browser = b,
                                !.force = attr[r].force, !.since = now]
  <2>1. JobGood(j)
    BY DEF JobGood, Idle, Holding
  <2>2. job' = [job EXCEPT ![h] = j]
    BY <1>2 DEF Receive
  <2> HIDE DEF j
  <2> QED
    BY <1>2, <2>1, <2>2, QuietStep DEF Receive, history
<1>3. ASSUME NEW h \in Handlers, NEW r \in Requests, NEW b \in Browsers, Launch(h, r, b)
      PROVE  GInv'
  <2> DEFINE j == [Idle EXCEPT !.pc = "proceed", !.req = r, !.browser = b, !.since = now]
  <2>1. Untouched(r) /\ attr[r].force = FALSE
    BY <1>3 DEF Launch, GInv, TypeOK, Attributes
  <2>2. JobGood(j)
    BY <2>1 DEF JobGood, HolderOK, OwedSince, AsReceived, Untouched, Idle, Holding
  <2>3. job' = [job EXCEPT ![h] = j]
    BY <1>3 DEF Launch
  <2> HIDE DEF j
  <2> QED
    BY <1>3, <2>2, <2>3, QuietStep DEF Launch, history
<1>4. ASSUME NEW h \in Handlers, NEW v \in values, NEW b \in Browsers, Reenter(h, v, b)
      PROVE  GInv'
  <2> DEFINE j == [Idle EXCEPT !.pc = "proceed", !.req = v.req, !.browser = b,
                                !.force = v.force, !.since = v.since]
  <2>1. JobGood(j)
    BY <1>4 DEF Reenter, ValueGood, JobGood, HolderOK, OwedSince, AsReceived, Idle, Holding
  <2>2. CASE UNCHANGED job
    BY <1>4, <2>2, StillStep DEF Reenter, history, hosts
  <2>3. CASE job' = [job EXCEPT ![h] = j]
    <3> HIDE DEF j
    <3> QED
      BY <1>4, <2>1, <2>3, QuietStep DEF Reenter, history
  <2> QED
    BY <1>4, <2>2, <2>3 DEF Reenter
<1>5. ASSUME NEW h \in Handlers, NEW v \in values, NEW b \in Browsers, Resume(h, v, b)
      PROVE  GInv'
  <2>1. PICK s \in SessionOf(b) :
          job' = [job EXCEPT ![h] = [Idle EXCEPT !.pc = "resume", !.value = v, !.browser = b,
                                                  !.session = s]]
    BY <1>5 DEF Resume
  <2> DEFINE j == [Idle EXCEPT !.pc = "resume", !.value = v, !.browser = b, !.session = s]
  <2>2. JobGood(j) /\ job' = [job EXCEPT ![h] = j]
    BY <2>1 DEF SessionOf, JobGood, Idle, Holding
  <2> HIDE DEF j
  <2> QED
    BY <1>5, <2>2, QuietStep DEF Resume, history
<1>6. ASSUME NEW h \in Handlers, Record(h) PROVE GInv'
  <2> PICK r : r = job[h].req
    OBVIOUS
  <2>1. r \in Requests /\ job[h].pc = "record"
    BY <1>6 DEF Record, At, JobOK
  <2>2. CASE r \in recorded
    BY <1>6, <2>2, DoneStep DEF Record, Fail, history
  <2>3. CASE r \notin recorded
    <3> PICK j : j = [job[h] EXCEPT !.pc = "validated"]
      OBVIOUS
    <3>1. /\ freshFrom' = [freshFrom EXCEPT ![r] = OwedSince(job[h].force, job[h].since)]
          /\ UNCHANGED <<attr, hosts, parks, boundTo, values>> /\ recorded' = recorded \cup {r}
          /\ job' = [job EXCEPT ![h] = j]
      BY <1>6, <2>3 DEF Record, Goto, OwedSince
    <3>2. Untouched(r)
      BY <2>1, <2>3 DEF GInv
    <3>3. freshFrom'[r] = OwedSince(job[h].force, job[h].since)
      BY <2>1, <3>1 DEF TypeOK
    <3>4. /\ j.req = r /\ j.pc = "validated" /\ j.force = job[h].force
          /\ j.since = job[h].since /\ j.force = attr[r].force
      BY <2>1 DEF Jobs, JobGood
    <3>5. JobGood(j)'
      BY <3>1, <3>2, <3>3, <3>4 DEF JobGood, HolderOK, AsReceived, Untouched
    <3>6. parks'[r] <= IF attr[r].passive THEN 0 ELSE IF attr[r].force THEN 1 ELSE 2
      BY <2>1, <3>1 DEF GInv, ParkBound
    <3>7. \A q \in Requests \ {r} :
            parks'[q] = parks[q] /\ boundTo'[q] = boundTo[q] /\ freshFrom'[q] = freshFrom[q]
      BY <3>1 DEF TypeOK
    <3> QED
      BY <2>1, <2>3, <3>1, <3>5, <3>6, <3>7, HolderStep
  <2> QED
    BY <2>2, <2>3
<1>7. ASSUME NEW h \in Handlers, Validated(h) PROVE GInv'
  <2>1. HolderOK(job[h]) /\ AsReceived(job[h].req, job[h].force)
    BY <1>7 DEF Validated, At, JobGood, HolderOK, Holding
  <2>2. CASE Answer(h)
    BY <1>7, <2>2, DoneStep DEF Validated, Answer
  <2>3. CASE Store(h, "continue", None) /\ Done(h) /\ UNCHANGED history
    <3> DEFINE v == [id |-> stored[job[h].req] + 1, kind |-> "continue", req |-> job[h].req,
                     browser |-> None, force |-> job[h].force, since |-> job[h].since]
    <3>1. values' = values \cup {v}
      BY <2>3 DEF Store
    <3>2. ValueGood(v)
      BY <2>1 DEF ValueGood, HolderOK
    <3> HIDE DEF v
    <3> QED
      BY <1>7, <2>3, <3>1, <3>2, DoneStep DEF Validated, history
  <2>4. CASE Goto(h, "proceed") /\ UNCHANGED <<values, stored, history>>
    <3>1. JobGood([job[h] EXCEPT !.pc = "proceed"])
      BY <2>1 DEF JobGood, HolderOK, AsReceived, Jobs
    <3> QED
      BY <1>7, <2>4, <3>1, GotoStep DEF Validated, history
  <2> QED
    BY <1>7, <2>2, <2>3, <2>4 DEF Validated
<1>8. ASSUME NEW h \in Handlers, Proceed(h) PROVE GInv'
  <2> DEFINE r == job[h].req
  <2>1. HolderOK(job[h]) /\ AsReceived(r, job[h].force) /\ job[h].pc = "proceed"
    BY <1>8 DEF Proceed, At, JobGood, HolderOK, Holding
  <2>p. parks[r] = 0 /\ ParksBy(r, job[h].force) \in {1, 2}
    BY <2>1 DEF AsReceived, ParksBy
  <2>2. ASSUME NEW s \in SessionOf(job[h].browser), ~job[h].force, BeginIssue(h, s),
               UNCHANGED <<values, stored, history>>
        PROVE  GInv'
    <3> DEFINE j == [job[h] EXCEPT !.pc = "issue", !.session = s, !.now = now,
                                   !.ended = {t \in Sessions : status[t] = "gone"}]
    <3>1. /\ j.pc = "issue" /\ j.session = s /\ j.ended = {t \in Sessions : status[t] = "gone"}
          /\ j.req = r /\ j.force = job[h].force /\ j.since = job[h].since
          /\ j.browser = job[h].browser
      BY <2>2 DEF Jobs
    <3>2. job' = [job EXCEPT ![h] = j]
      BY <2>2 DEF BeginIssue
    <3>3. status[s] # "unused"
      BY DEF SessionOf
    <3> HIDE DEF j
    <3>4. HolderOK(j)
      BY <2>1, <2>p, <2>2, <3>1 DEF HolderOK
    <3>5. JobGood(j)
      BY <3>1, <3>3, <3>4 DEF JobGood
    <3> QED
      BY <1>8, <2>2, <3>2, <3>5, QuietStep DEF Proceed, history
  <2>3. CASE Answer(h)
    BY <1>8, <2>3, DoneStep DEF Proceed, Answer
  <2>4. CASE ~attr[r].passive /\ Goto(h, "park") /\ UNCHANGED <<values, stored, history>>
    <3> DEFINE j == [job[h] EXCEPT !.pc = "park"]
    <3>1. /\ j.pc = "park" /\ j.req = r /\ j.force = job[h].force /\ j.since = job[h].since
          /\ j.browser = job[h].browser
      BY DEF Jobs
    <3> HIDE DEF j
    <3>2. JobGood(j)
      BY <2>1, <2>p, <2>4, <3>1 DEF JobGood, HolderOK
    <3> QED
      BY <1>8, <2>4, <3>2, GotoStep DEF Proceed, history, j
  <2> QED
    BY <1>8, <2>2, <2>3, <2>4 DEF Proceed
<1>9. ASSUME NEW h \in Handlers, Park(h) PROVE GInv'
  <2> PICK r : r = job[h].req
    OBVIOUS
  <2> PICK v :
        v = [id |-> stored[r] + 1, kind |-> "pending", req |-> r,
             browser |-> job[h].browser, force |-> job[h].force, since |-> job[h].since]
    OBVIOUS
  <2>1. HolderOK(job[h]) /\ job[h].pc = "park" /\ r \in Requests /\ Holds(h, r)
    BY <1>9 DEF Park, At, JobGood, Holding, JobOK, Holds
  <2>2. ~attr[r].passive /\ parks[r] < ParksBy(r, job[h].force) /\ parks[r] \in Nat
    BY <2>1 DEF HolderOK, TypeOK
  <2>3. /\ values' = values \cup {v} /\ job' = [job EXCEPT ![h] = Idle]
        /\ parks' = [parks EXCEPT ![r] = @ + 1]
        /\ boundTo' = [boundTo EXCEPT ![r] = job[h].browser]
        /\ UNCHANGED <<attr, recorded, hosts, freshFrom>>
    BY <1>9 DEF Park, Store, Done
  <2>4. parks'[r] = parks[r] + 1 /\ boundTo'[r] = job[h].browser
    BY <2>1, <2>3 DEF TypeOK
  <2>5. ParksBy(r, job[h].force) \in {1, 2}
        /\ (attr[r].force => ParksBy(r, job[h].force) = 1)
    BY DEF ParksBy
  <2>6. parks'[r] <= ParksBy(r, job[h].force)
    BY <2>2, <2>4, <2>5
  <2>7. /\ v.req = r /\ v.kind = "pending" /\ v.browser = job[h].browser
        /\ v.force = job[h].force /\ v.since = job[h].since
    OBVIOUS
  <2>8. ValueGood(v)'
    BY <2>1, <2>3, <2>4, <2>6, <2>7 DEF ValueGood, HolderOK, ParksBy
  <2>9. parks'[r] <= IF attr[r].passive THEN 0 ELSE IF attr[r].force THEN 1 ELSE 2
    <3>1. parks'[r] <= 2 /\ (attr[r].force => parks'[r] <= 1)
      BY <2>2, <2>4, <2>5, <2>6
    <3>2. CASE attr[r].force
      BY <2>2, <3>1, <3>2
    <3>3. CASE ~attr[r].force
      BY <2>2, <3>1, <3>3
    <3> QED
      BY <3>2, <3>3
  <2>10. \A q \in Requests \ {r} :
           parks'[q] = parks[q] /\ boundTo'[q] = boundTo[q] /\ freshFrom'[q] = freshFrom[q]
    BY <2>3 DEF TypeOK
  <2>11. r \in recorded
    BY <2>1 DEF RInv, Unseen
  <2>12. JobGood(Idle)'
    BY DEF JobGood, Idle, Holding
  <2> QED
    BY <2>1, <2>3, <2>8, <2>9, <2>10, <2>11, <2>12, HolderStep
<1>10. ASSUME NEW h \in Handlers, Consume(h) PROVE GInv'
  <2> DEFINE v == job[h].value
             j == [job[h] EXCEPT !.pc = "issue", !.req = v.req, !.force = v.force,
                                 !.since = v.since, !.now = now, !.value = None,
                                 !.ended = {t \in Sessions : status[t] = "gone"}]
  <2>1. CASE Done(h)
    BY <1>10, <2>1, DoneStep DEF Consume, history
  <2>2. CASE ~Done(h)
    <3>1. /\ v \in values /\ v.browser = job[h].browser
          /\ v.force => Fresh(job[h].session, v.since)
          /\ job' = [job EXCEPT ![h] = j] /\ job[h].pc = "resume"
      BY <1>10, <2>2 DEF Consume, At
    <3>2. /\ j.pc = "issue" /\ j.session = job[h].session
          /\ j.ended = {t \in Sessions : status[t] = "gone"}
          /\ j.req = v.req /\ j.force = v.force /\ j.since = v.since /\ j.browser = v.browser
      BY <3>1 DEF Jobs
    <3>3. status[job[h].session] # "unused" /\ ValueGood(v) /\ v \in Values
      BY <3>1 DEF JobGood
    <3>4. boundTo[v.req] \in {None, v.browser} /\ parks[v.req] <= ParksBy(v.req, v.force)
      BY <3>3 DEF ValueGood, Values, AsReceived, ParksBy
    <3> HIDE DEF j, v
    <3>5. JobGood(j)
      BY <3>1, <3>2, <3>3, <3>4 DEF JobGood, HolderOK, ValueGood
    <3> QED
      BY <1>10, <3>1, <3>5, QuietStep DEF Consume, history
  <2> QED
    BY <2>1, <2>2
<1>11. ASSUME NEW h \in Handlers, Eligible(h) PROVE GInv'
  <2>1. HolderOK(job[h]) /\ JobGood(job[h]) /\ job[h].pc = "issue"
    BY <1>11 DEF Eligible, At, JobGood, Holding
  <2>2. CASE Done(h)
    BY <1>11, <2>2, DoneStep DEF Eligible, history
  <2>3. CASE status[job[h].session] = "live" /\ Goto(h, "decide")
    <3> DEFINE j == [job[h] EXCEPT !.pc = "decide"]
    <3>1. /\ j.pc = "decide" /\ j.req = job[h].req /\ j.force = job[h].force
          /\ j.since = job[h].since /\ j.browser = job[h].browser /\ j.session = job[h].session
          /\ j.ended = job[h].ended
      BY DEF Jobs
    <3> HIDE DEF j
    <3>2. JobGood(j)
      BY <2>1, <2>3, <3>1 DEF JobGood, HolderOK
    <3> QED
      BY <1>11, <2>3, <3>2, GotoStep DEF Eligible, history, j
  <2> QED
    BY <1>11, <2>2, <2>3 DEF Eligible
<1>12. ASSUME NEW h \in Handlers, Decide(h) PROVE GInv'
  <2> PICK r : r = job[h].req
    OBVIOUS
  <2>1. HolderOK(job[h]) /\ JobGood(job[h]) /\ job[h].pc = "decide" /\ r \in Requests
        /\ Holds(h, r) /\ job[h].now \in Nat
    BY <1>12 DEF Decide, At, JobGood, Holding, JobOK, Holds, Jobs
  <2>2. CASE Answer(h)
    BY <1>12, <2>2, DoneStep DEF Decide, Answer
  <2>3. CASE Fail(h)
    BY <1>12, <2>3, DoneStep DEF Decide, Fail, history
  <2>4. CASE Goto(h, "signed") /\ UNCHANGED <<values, stored, history>>
    <3> DEFINE j == [job[h] EXCEPT !.pc = "signed"]
    <3>1. /\ j.pc = "signed" /\ j.req = job[h].req /\ j.force = job[h].force
          /\ j.since = job[h].since /\ j.browser = job[h].browser /\ j.session = job[h].session
          /\ j.ended = job[h].ended
      BY DEF Jobs
    <3> HIDE DEF j
    <3>2. JobGood(j)
      BY <2>1, <3>1 DEF JobGood, HolderOK
    <3> QED
      BY <1>12, <2>4, <3>2, GotoStep DEF Decide, history, j
  <2>5. CASE ~attr[r].passive /\ ~FreshForThis(h) /\ ParkAgain(h)
    <3> PICK j : j = [job[h] EXCEPT !.pc = "park", !.force = TRUE, !.since = job[h].now]
      OBVIOUS
    <3>1. /\ j.pc = "park" /\ j.req = r /\ j.force = TRUE /\ j.since = job[h].now
          /\ j.browser = job[h].browser
      BY DEF Jobs
    <3>2. /\ job' = [job EXCEPT ![h] = j] /\ freshFrom' = [freshFrom EXCEPT ![r] = job[h].now]
          /\ UNCHANGED <<attr, recorded, hosts, values, parks, boundTo>>
      BY <1>12, <2>5 DEF Decide, ParkAgain
    <3>3. ~job[h].force /\ ~attr[r].force
      BY <2>1, <2>5 DEF FreshForThis, HolderOK
    <3>4. parks[r] <= 1 /\ parks[r] \in Nat
      BY <2>1, <3>3 DEF HolderOK, ParksBy, TypeOK
    <3>5. freshFrom'[r] = job[h].now
      BY <2>1, <3>2 DEF TypeOK
    <3>6. JobGood(j)'
      BY <2>1, <2>5, <3>1, <3>2, <3>3, <3>4, <3>5
         DEF JobGood, HolderOK, OwedSince, ParksBy, Holding
    <3>7. parks'[r] <= IF attr[r].passive THEN 0 ELSE IF attr[r].force THEN 1 ELSE 2
      BY <2>1, <3>2 DEF GInv, ParkBound
    <3>8. \A q \in Requests \ {r} :
            parks'[q] = parks[q] /\ boundTo'[q] = boundTo[q] /\ freshFrom'[q] = freshFrom[q]
      BY <3>2 DEF TypeOK
    <3>9. r \in recorded
      BY <2>1 DEF RInv, Unseen
    <3>10. /\ UNCHANGED <<attr, hosts>> /\ recorded' = recorded \cup {r}
           /\ \A v \in values' \ values : ValueGood(v)'
      BY <3>2, <3>9
    <3>11. r \in Requests /\ Holds(h, r) /\ job' = [job EXCEPT ![h] = j]
      BY <2>1, <3>2
    <3> QED
      BY <3>6, <3>7, <3>8, <3>10, <3>11, HolderStep
  <2> QED
    BY <1>12, <2>2, <2>3, <2>4, <2>5 DEF Decide, Reauthenticate, StepUp
<1>13. ASSUME NEW h \in Handlers, Respond(h) PROVE GInv'
  BY <1>13, DoneStep DEF Respond, Answer, Fail, history
<1>14. ASSUME NEW h \in Handlers, Crash(h) PROVE GInv'
  BY <1>14, DoneStep DEF Crash, history
<1>15. ASSUME NEW v \in values, Expire(v) PROVE GInv'
  BY <1>15, StillStep DEF Expire, history, hosts
<1>16. ASSUME NEW s \in Sessions, NEW b \in Browsers, Login(b, s) PROVE GInv'
  BY <1>16, StillStep DEF Login, history, TypeOK
<1>17. ASSUME NEW s \in Sessions, End(s) PROVE GInv'
  BY <1>17, StillStep DEF End, history, TypeOK
<1>18. CASE Tick
  BY <1>18, StillStep DEF Tick, history, hosts
<1>19. ASSUME NEW h \in Handlers, NEW v \in values, NEW b \in Browsers, SendBack(h, v, b)
      PROVE  GInv'
  BY <1>19, StillStep DEF SendBack, hosts
<1> QED
  BY <1>1, <1>2, <1>3, <1>4, <1>5, <1>6, <1>7, <1>8, <1>9, <1>10, <1>11, <1>12, <1>13,
     <1>14, <1>15, <1>16, <1>17, <1>18, <1>19 DEF Next, Handle

LEMMA GInvAlways == Spec => []GInv
  BY GInvInit, GInvStep, PTL DEF Spec

(* What is signed rests on a session created after ForceAuthn was asked of  *)
(* its request, for any number of requests, parks, resumes and handlers     *)
(* (resume.ts l.49, issue.ts l.330, l.367).                                 *)
THEOREM SignedSessionsAreFresh == Spec => []FreshSession
<1>1. GInv => FreshSession
  <2> SUFFICES ASSUME GInv, NEW h \in Handlers, At(h, "signed")
               PROVE  created[job[h].session] >= freshFrom[job[h].req]
    BY DEF FreshSession
  <2>1. HolderOK(job[h]) /\ job[h].pc = "signed" /\ job[h].session \in Sessions
    BY DEF GInv, JobGood, At, Holding, RInv, TInv, JobOK
  <2>2. created[job[h].session] \in Nat
    BY <2>1 DEF GInv, RInv, TInv, TypeOK
  <2> QED
    BY <2>1, <2>2 DEF HolderOK, OwedSince, Fresh
<1> QED
  BY <1>1, GInvAlways, PTL

(* A request that was parked is only answered in the browser it was last    *)
(* parked in (resume.ts l.38).                                              *)
THEOREM ResumedWhereParked == Spec => []BoundToBrowser
<1>1. GInv => BoundToBrowser
  BY DEF GInv, BoundToBrowser, JobGood, HolderOK, At, Holding
<1> QED
  BY <1>1, GInvAlways, PTL

(* A resume link belongs to a request that was parked, and parks are never undone. *)
BackInv ==
  /\ GInv
  /\ \A v \in values : v.kind = "pending" => parks[v.req] > 0
  /\ \A r \in sentBack : parks[r] > 0

LEMMA BackInvInit == Init => BackInv
  BY GInvInit DEF Init, BackInv

(* A step that stores no pending request and sends nobody back. *)
LEMMA KeepsBack ==
  ASSUME BackInv, GInv', UNCHANGED <<parks, sentBack>>,
         \A v \in values' \ values : v.kind # "pending"
  PROVE  BackInv'
  BY DEF BackInv

LEMMA BackInvStep == BackInv /\ [Next]_vars => BackInv'
<1> SUFFICES ASSUME BackInv, [Next]_vars PROVE BackInv'
  OBVIOUS
<1>t. GInv /\ GInv' /\ TInv /\ TypeOK
  BY GInvStep DEF BackInv, GInv, RInv, TInv
<1> USE <1>t
<1>1. CASE UNCHANGED vars
  BY <1>1, KeepsBack DEF vars
<1>2. ASSUME NEW h \in Handlers, NEW v \in values, NEW b \in Browsers, SendBack(h, v, b)
      PROVE  BackInv'
  BY <1>2 DEF SendBack, BackInv
<1>3. ASSUME NEW h \in Handlers, Park(h) PROVE BackInv'
  <2> PICK r : r = job[h].req
    OBVIOUS
  <2>1. r \in Requests
    BY <1>3 DEF Park, At, TInv, JobOK, Holding
  <2>2. PICK v : v.req = r /\ values' = values \cup {v}
    BY <1>3 DEF Park, Store
  <2>3. parks' = [parks EXCEPT ![r] = @ + 1] /\ UNCHANGED sentBack
    BY <1>3 DEF Park
  <2>4. \A q \in Requests : parks[q] \in Nat /\ parks'[q] \in {parks[q], parks[q] + 1}
    BY <2>1, <2>3 DEF TypeOK
  <2>5. parks'[r] > 0
    BY <2>1, <2>3 DEF TypeOK
  <2>6. \A w \in values : w.req \in Requests
    BY DEF TypeOK, Values
  <2>7. sentBack \subseteq Requests
    BY DEF TypeOK
  <2> QED
    BY <2>2, <2>3, <2>4, <2>5, <2>6, <2>7 DEF BackInv
<1>4. ASSUME NEW h \in Handlers, Validated(h) PROVE BackInv'
  <2>1. UNCHANGED <<parks, sentBack>>
    BY <1>4 DEF Validated, Answer, history
  <2>2. \A v \in values' \ values : v.kind = "continue"
    BY <1>4 DEF Validated, Answer, Store
  <2> QED
    BY <2>1, <2>2, KeepsBack
<1>5. ASSUME NEW h \in Handlers, NEW r \in Requests, NEW b \in Browsers,
             Receive(h, r, b) \/ Launch(h, r, b)
      PROVE  BackInv'
  BY <1>5, KeepsBack DEF Receive, Launch, history
<1>6. ASSUME NEW h \in Handlers, NEW v \in values, NEW b \in Browsers,
             Reenter(h, v, b) \/ Resume(h, v, b)
      PROVE  BackInv'
  BY <1>6, KeepsBack DEF Reenter, Resume, history
<1>7. ASSUME NEW h \in Handlers,
             \/ Record(h) \/ Proceed(h) \/ Consume(h) \/ Eligible(h) \/ Decide(h)
             \/ Respond(h) \/ Crash(h)
      PROVE  BackInv'
  <2>1. UNCHANGED <<parks, sentBack>> /\ values' \subseteq values
    BY <1>7 DEF Record, Proceed, Consume, Eligible, Decide, Respond, Crash, Answer, Fail,
                Reauthenticate, StepUp, ParkAgain, history
  <2> QED
    BY <2>1, KeepsBack
<1>8. ASSUME NEW v \in values, Expire(v) PROVE BackInv'
  BY <1>8, KeepsBack DEF Expire, history
<1>9. ASSUME NEW s \in Sessions, NEW b \in Browsers, Login(b, s) PROVE BackInv'
  BY <1>9, KeepsBack DEF Login, history
<1>10. ASSUME NEW s \in Sessions, End(s) PROVE BackInv'
  BY <1>10, KeepsBack DEF End, history
<1>11. CASE Tick
  BY <1>11, KeepsBack DEF Tick, history
<1> QED
  BY <1>1, <1>2, <1>3, <1>4, <1>5, <1>6, <1>7, <1>8, <1>9, <1>10, <1>11
  DEF Next, Handle

(* No request is parked more than twice, nor more than once if the SP asked *)
(* for ForceAuthn, nor at all if it asked for IsPassive; and a resume sends *)
(* only the user of a parked request back to the login page, however often. *)
THEOREM LoginsAreBounded == Spec => []LoopGuard
<1>1. BackInv => LoopGuard
  BY DEF BackInv, GInv, ParkBound, LoopGuard
<1> QED
  BY <1>1, BackInvInit, BackInvStep, PTL DEF Spec

(* A session that was over when issueResponse began gets nothing, whatever  *)
(* the session store still served (eligiblePrincipal, issue.ts l.174).      *)
THEOREM EndedSessionsGetNothing == Spec => []EndedGetsNothing
<1>1. GInv => EndedGetsNothing
  BY DEF GInv, EndedGetsNothing, JobGood, At
<1> QED
  BY <1>1, GInvAlways, PTL
=============================================================================
