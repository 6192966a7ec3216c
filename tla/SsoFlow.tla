------------------------------ MODULE SsoFlow -------------------------------
(***************************************************************************)
(* The life of a sign-on request, from its arrival to the one SAML         *)
(* Response it may get: handleSso (both bindings), parkForLogin, resume,   *)
(* IdP-initiated sign-on and issueResponse, run by concurrent handlers     *)
(* that may die at any step.                                               *)
(*                                                                         *)
(* A request travels between handlers as a stored value (a verification    *)
(* row that one consumer gets): "continue" between the two legs of the     *)
(* POST binding, "pending" while the user signs in.  Everything the host   *)
(* decides (authorize(), current(), whether an SP still fits) is a choice. *)
(* The replay guard is the atomic test-and-set that ReplayGuard implements.*)
(***************************************************************************)
EXTENDS Integers

CONSTANTS
  Requests,   \* AuthnRequests, and launches of IdP-initiated sign-on
  Browsers, Sessions, Handlers,
  None,       \* no request, browser, session or value
  MaxTime,    \* bound on the clock, for TLC
  MaxValues   \* bound on the values stored for one request, for TLC

ASSUME ConstantsAssumption ==
  /\ MaxTime \in Nat /\ MaxValues \in Nat
  /\ None \notin Requests \cup Browsers \cup Sessions

(* What a request's message asks for. *)
Attributes ==
  {a \in [binding : {"get", "post", "init"}, force : BOOLEAN, passive : BOOLEAN] :
     a.binding = "init" => ~a.force /\ ~a.passive}

VARIABLES
  now,       \* the hosts' clock
  attr,      \* what each request asks for
  recorded,  \* the replay guard: requests that had their first sight
  values,    \* verification rows: continuations and pending requests
  stored,    \* number of values ever stored for a request
  cookie,    \* the session in a browser's cookie
  status,    \* a session row: "unused", "live" or "gone"
  created,   \* its createdAt
  job,       \* what a handler is working on
  answers,   \* (history) SAML Responses given to a request
  parks,     \* (history) times it was parked, its user sent to the login page with it
  sentBack,  \* (history) requests a resume sent back there, for want of a session
  boundTo,   \* (history) the browser it was last parked in
  freshFrom  \* (history) a session must be created at or after this

vars == <<now, attr, recorded, values, stored, cookie, status, created, job,
          answers, parks, sentBack, boundTo, freshFrom>>

hosts == <<cookie, status, created>>
history == <<answers, parks, sentBack, boundTo, freshFrom>>

(* Places where a handler alone holds the right to answer its request. *)
Holding == {"validated", "proceed", "issue", "decide", "signed", "park"}
Locations == {"idle", "record", "resume"} \cup Holding

Values ==
  [id : Nat, kind : {"continue", "pending"}, req : Requests,
   browser : Browsers \cup {None}, force : BOOLEAN, since : Nat]

Jobs ==
  [pc : Locations,
   req : Requests \cup {None},
   browser : Browsers \cup {None},
   session : Sessions \cup {None},
   force : BOOLEAN,              \* ValidatedRequest.forceAuthn
   since : Nat,                  \* ValidatedRequest.createdAt
   now : Nat,                    \* issueResponse's clock value
   value : Values \cup {None},   \* the value a resume wants to consume
   ended : SUBSET Sessions]      \* (history) sessions over when issueResponse began

Idle ==
  [pc |-> "idle", req |-> None, browser |-> None, session |-> None, force |-> FALSE,
   since |-> 0, now |-> 0, value |-> None, ended |-> {}]

TypeOK ==
  /\ now \in Nat
  /\ attr \in [Requests -> Attributes]
  /\ recorded \subseteq Requests
  /\ values \subseteq Values
  /\ stored \in [Requests -> Nat]
  /\ cookie \in [Browsers -> Sessions \cup {None}]
  /\ status \in [Sessions -> {"unused", "live", "gone"}]
  /\ created \in [Sessions -> Nat]
  /\ job \in [Handlers -> Jobs]
  /\ answers \in [Requests -> Nat]
  /\ parks \in [Requests -> Nat]
  /\ sentBack \subseteq Requests
  /\ boundTo \in [Requests -> Browsers \cup {None}]
  /\ freshFrom \in [Requests -> Nat]

Init ==
  /\ now = 0
  /\ attr \in [Requests -> Attributes]
  /\ recorded = {}
  /\ values = {}
  /\ stored = [r \in Requests |-> 0]
  /\ cookie = [b \in Browsers |-> None]
  /\ status = [s \in Sessions |-> "unused"]
  /\ created = [s \in Sessions |-> 0]
  /\ job = [h \in Handlers |-> Idle]
  /\ answers = [r \in Requests |-> 0]
  /\ parks = [r \in Requests |-> 0]
  /\ sentBack = {}
  /\ boundTo = [r \in Requests |-> None]
  /\ freshFrom = [r \in Requests |-> 0]

-----------------------------------------------------------------------------
At(h, l) == job[h].pc = l
Goto(h, l) == job' = [job EXCEPT ![h].pc = l]
Done(h) == job' = [job EXCEPT ![h] = Idle]

(* An error page: the request is over, the SP hears nothing. *)
Fail(h) ==
  /\ Done(h)
  /\ UNCHANGED <<values, stored, history>>

(* A SAML Response, with an assertion or an error status, goes to the ACS URL. *)
Answer(h) ==
  /\ Done(h)
  /\ answers' = [answers EXCEPT ![job[h].req] = @ + 1]
  /\ UNCHANGED <<values, stored, parks, sentBack, boundTo, freshFrom>>

(* storeValue: a new random identifier, single use. *)
Store(h, kind, browser) ==
  LET r == job[h].req IN
  /\ stored[r] < MaxValues
  /\ stored' = [stored EXCEPT ![r] = @ + 1]
  /\ values' = values \cup
       {[id |-> stored[r] + 1, kind |-> kind, req |-> r, browser |-> browser,
         force |-> job[h].force, since |-> job[h].since]}

(* The host's session store, which may serve a session its database no longer has. *)
SessionOf(b) ==
  {s \in Sessions : cookie[b] = s /\ status[s] # "unused"}
MayHaveNone(b) == \A s \in Sessions : cookie[b] = s => status[s] # "live"

(* issueResponse begins: it captures the clock. *)
BeginIssue(h, s) ==
  job' = [job EXCEPT ![h] = [@ EXCEPT !.pc = "issue", !.session = s, !.now = now,
                               !.ended = {t \in Sessions : status[t] = "gone"}]]

-----------------------------------------------------------------------------
(* handleSso, first leg: a message that parses, validates and verifies. *)
Receive(h, r, b) ==
  /\ At(h, "idle")
  /\ attr[r].binding # "init"
  /\ job' = [job EXCEPT ![h] = [Idle EXCEPT !.pc = "record", !.req = r, !.browser = b,
                                  !.force = attr[r].force, !.since = now]]
  /\ UNCHANGED <<now, attr, recorded, values, stored, hosts, history>>

(* recordRequestId: the first sight goes on, every other is refused. *)
Record(h) ==
  LET r == job[h].req IN
  /\ At(h, "record")
  /\ \/ /\ r \notin recorded
        /\ recorded' = recorded \cup {r}
        /\ Goto(h, "validated")
        /\ freshFrom' = [freshFrom EXCEPT ![r] = IF job[h].force THEN job[h].since ELSE 0]
        /\ UNCHANGED <<values, stored, answers, parks, sentBack, boundTo>>
     \/ /\ r \in recorded
        /\ UNCHANGED recorded
        /\ Fail(h)
  /\ UNCHANGED <<now, attr, hosts>>

(* After the record: an unsatisfiable policy, the POST binding's 303, or straight on. *)
Validated(h) ==
  /\ At(h, "validated")
  /\ \/ Answer(h)
     \/ /\ attr[job[h].req].binding = "post"
        /\ Store(h, "continue", None)
        /\ Done(h)
        /\ UNCHANGED history
     \/ /\ attr[job[h].req].binding = "get"
        /\ Goto(h, "proceed")
        /\ UNCHANGED <<values, stored, history>>
  /\ UNCHANGED <<now, attr, recorded, hosts>>

(* handleSso, second leg of the POST binding: whoever brings the cid consumes it. *)
Reenter(h, v, b) ==
  /\ At(h, "idle")
  /\ v.kind = "continue"
  /\ values' = values \ {v}
  /\ \/ UNCHANGED job      \* the SP, its ACS URL or its tenant changed
     \/ job' = [job EXCEPT ![h] = [Idle EXCEPT !.pc = "proceed", !.req = v.req,
                                     !.browser = b, !.force = v.force, !.since = v.since]]
  /\ UNCHANGED <<now, attr, recorded, stored, hosts, history>>

(* initEndpoint: a launch of IdP-initiated sign-on; each launch is a request of its own. *)
Launch(h, r, b) ==
  /\ At(h, "idle")
  /\ attr[r].binding = "init"
  /\ r \notin recorded
  /\ recorded' = recorded \cup {r}
  /\ job' = [job EXCEPT ![h] = [Idle EXCEPT !.pc = "proceed", !.req = r, !.browser = b,
                                  !.since = now]]
  /\ UNCHANGED <<now, attr, values, stored, hosts, history>>

(* proceed: issue, NoPassive, or park. *)
Proceed(h) ==
  LET b == job[h].browser IN
  /\ At(h, "proceed")
  /\ \/ /\ ~job[h].force
        /\ \E s \in SessionOf(b) : BeginIssue(h, s)
        /\ UNCHANGED <<values, stored, history>>
     \/ /\ job[h].force \/ MayHaveNone(b)
        /\ \/ attr[job[h].req].passive /\ Answer(h)
           \/ /\ ~attr[job[h].req].passive
              /\ Goto(h, "park")
              /\ UNCHANGED <<values, stored, history>>
  /\ UNCHANGED <<now, attr, recorded, hosts>>

(* parkForLogin: a pending value bound to the browser, and off to the login page. *)
Park(h) ==
  LET r == job[h].req IN
  /\ At(h, "park")
  /\ Store(h, "pending", job[h].browser)
  /\ parks' = [parks EXCEPT ![r] = @ + 1]
  /\ boundTo' = [boundTo EXCEPT ![r] = job[h].browser]
  /\ Done(h)
  /\ UNCHANGED <<now, attr, recorded, hosts, answers, sentBack, freshFrom>>

(* resume, in a browser without a session: nothing is consumed, the user goes to the *)
(* login page again, and the link still works after that: as often as they come.     *)
SendBack(h, v, b) ==
  /\ At(h, "idle")
  /\ v.kind = "pending"
  /\ MayHaveNone(b)
  /\ sentBack' = sentBack \cup {v.req}
  /\ UNCHANGED <<now, attr, recorded, values, stored, hosts, job, answers, parks, boundTo,
                 freshFrom>>

(* resume, with a session. *)
Resume(h, v, b) ==
  /\ At(h, "idle")
  /\ v.kind = "pending"
  /\ \E s \in SessionOf(b) :
       job' = [job EXCEPT ![h] = [Idle EXCEPT !.pc = "resume", !.value = v, !.browser = b,
                                    !.session = s]]
  /\ UNCHANGED <<now, attr, recorded, values, stored, hosts, history>>

Fresh(s, since) == created[s] >= since

(* Faulty: the value is found, and deleted only once the answer is out. *)
Consume_findsOnly(h) ==
  LET v == job[h].value
      fits == v.browser = job[h].browser /\ (v.force => Fresh(job[h].session, v.since))
  IN
  /\ At(h, "resume")
  /\ \/ /\ v \in values
        /\ fits
        /\ job' = [job EXCEPT ![h] = [@ EXCEPT !.pc = "issue", !.req = v.req,
                                        !.force = v.force, !.since = v.since, !.now = now,
                                        !.value = None,
                                        !.ended = {t \in Sessions : status[t] = "gone"}]]
     \/ Done(h)
  /\ UNCHANGED <<now, attr, recorded, values, stored, hosts, history>>

(* Faulty: the binding cookie is not compared. *)
Consume_anyBrowser(h) ==
  LET v == job[h].value IN
  /\ At(h, "resume")
  /\ values' = values \ {v}
  /\ \/ /\ v \in values
        /\ v.force => Fresh(job[h].session, v.since)
        /\ job' = [job EXCEPT ![h] = [@ EXCEPT !.pc = "issue", !.req = v.req,
                                        !.force = v.force, !.since = v.since, !.now = now,
                                        !.value = None,
                                        !.ended = {t \in Sessions : status[t] = "gone"}]]
     \/ Done(h)
  /\ UNCHANGED <<now, attr, recorded, stored, hosts, history>>

(* resume, after the session read: one consumer wins, and every later check burns the value. *)
Consume(h) ==
  LET v == job[h].value
      fits == v.browser = job[h].browser /\ (v.force => Fresh(job[h].session, v.since))
  IN
  /\ At(h, "resume")
  /\ values' = values \ {v}
  /\ \/ /\ v \in values
        /\ fits
        /\ job' = [job EXCEPT ![h] = [@ EXCEPT !.pc = "issue", !.req = v.req,
                                        !.force = v.force, !.since = v.since, !.now = now,
                                        !.value = None,
                                        !.ended = {t \in Sessions : status[t] = "gone"}]]
     \/ Done(h)            \* consumed by another, unfit, or the SP changed
  /\ UNCHANGED <<now, attr, recorded, stored, hosts, history>>

(* Faulty: the copy of the session the store served is trusted. *)
Eligible_trusting(h) ==
  /\ At(h, "issue")
  /\ Goto(h, "decide") \/ Done(h)
  /\ UNCHANGED <<now, attr, recorded, values, stored, hosts, history>>

(* eligiblePrincipal: the session row is read again, from the database. *)
Eligible(h) ==
  /\ At(h, "issue")
  /\ \/ /\ status[job[h].session] = "live"
        /\ Goto(h, "decide")
     \/ Done(h)            \* session gone, user banned, tenant or policy refuses
  /\ UNCHANGED <<now, attr, recorded, values, stored, hosts, history>>

(* Faulty: no loop guard. *)
FreshForThis_never(h) == FALSE

(* The loop guard: this request already made the user sign in again. *)
FreshForThis(h) == job[h].force /\ Fresh(job[h].session, job[h].since)

(* Faulty: the request keeps its createdAt, so an older session is fresh enough. *)
ParkAgain_keepsSince(h) ==
  /\ job' = [job EXCEPT ![h] = [@ EXCEPT !.pc = "park", !.force = TRUE]]
  /\ freshFrom' = [freshFrom EXCEPT ![job[h].req] = job[h].now]
  /\ UNCHANGED <<values, stored, answers, parks, sentBack, boundTo>>

(* Faulty: a tolerance is taken off the clock before it is stored. *)
ParkAgain_tolerant(h) ==
  /\ job' = [job EXCEPT ![h] = [@ EXCEPT !.pc = "park", !.force = TRUE, !.since = job[h].now - 1]]
  /\ freshFrom' = [freshFrom EXCEPT ![job[h].req] = job[h].now]
  /\ UNCHANGED <<values, stored, answers, parks, sentBack, boundTo>>

(* Parked again, as a ForceAuthn request made when issueResponse began. *)
ParkAgain(h) ==
  /\ job' = [job EXCEPT ![h] = [@ EXCEPT !.pc = "park", !.force = TRUE, !.since = job[h].now]]
  /\ freshFrom' = [freshFrom EXCEPT ![job[h].req] = job[h].now]
  /\ UNCHANGED <<values, stored, answers, parks, sentBack, boundTo>>

(* authorize() asks for a new sign-in. *)
Reauthenticate(h) ==
  LET passive == attr[job[h].req].passive IN
  \/ passive /\ Answer(h)                                 \* NoPassive
  \/ ~passive /\ FreshForThis(h) /\ Fail(h)               \* ACCESS_DENIED
  \/ ~passive /\ ~FreshForThis(h) /\ ParkAgain(h)

(* The session's authentication class is not enough; a launch asks for none. *)
StepUp(h) ==
  LET passive == attr[job[h].req].passive IN
  /\ attr[job[h].req].binding # "init"
  /\ \/ Answer(h)                \* out of reach, passive, or signed in for this already
     \/ ~passive /\ ~FreshForThis(h) /\ ParkAgain(h)

(* The host's callbacks decide, then the NameID is built and the assertion signed. *)
Decide(h) ==
  /\ At(h, "decide")
  /\ \/ Goto(h, "signed") /\ UNCHANGED <<values, stored, history>>
     \/ Fail(h)                                           \* denied, or a callback threw
     \/ Reauthenticate(h)
     \/ StepUp(h)
     \/ Answer(h)                                         \* UnknownPrincipal
  /\ UNCHANGED <<now, attr, recorded, hosts>>

(* The signed Response goes out, unless its logout participant can't be recorded. *)
Respond(h) ==
  /\ At(h, "signed")
  /\ Answer(h) \/ Fail(h)
  /\ UNCHANGED <<now, attr, recorded, hosts>>

Handle(h) ==
  \/ \E r \in Requests, b \in Browsers : Receive(h, r, b) \/ Launch(h, r, b)
  \/ \E v \in values, b \in Browsers : Reenter(h, v, b) \/ SendBack(h, v, b) \/ Resume(h, v, b)
  \/ Record(h)
  \/ Validated(h)
  \/ Proceed(h)
  \/ Park(h)
  \/ Consume(h)
  \/ Eligible(h)
  \/ Decide(h)
  \/ Respond(h)

-----------------------------------------------------------------------------
(* The handler's instance dies; what it held is lost. *)
Crash(h) ==
  /\ ~At(h, "idle")
  /\ Done(h)
  /\ UNCHANGED <<now, attr, recorded, values, stored, hosts, history>>

(* A value outlives its TTL: treated as absent, then swept. *)
Expire(v) ==
  /\ values' = values \ {v}
  /\ UNCHANGED <<now, attr, recorded, stored, hosts, job, history>>

(* The user signs in: a new session in this browser; an older one is left alone. *)
Login(b, s) ==
  /\ status[s] = "unused"
  /\ status' = [status EXCEPT ![s] = "live"]
  /\ created' = [created EXCEPT ![s] = now]
  /\ cookie' = [cookie EXCEPT ![b] = s]
  /\ UNCHANGED <<now, attr, recorded, values, stored, job, history>>

(* A session is deleted, by its user, an administrator or Single Logout. *)
End(s) ==
  /\ status[s] = "live"
  /\ status' = [status EXCEPT ![s] = "gone"]
  /\ UNCHANGED <<now, attr, recorded, values, stored, cookie, created, job, history>>

Tick ==
  /\ now < MaxTime
  /\ now' = now + 1
  /\ UNCHANGED <<attr, recorded, values, stored, hosts, job, history>>

Next ==
  \/ \E h \in Handlers : Handle(h) \/ Crash(h)
  \/ \E v \in values : Expire(v)
  \/ \E s \in Sessions : End(s) \/ \E b \in Browsers : Login(b, s)
  \/ Tick

Spec == Init /\ [][Next]_vars

-----------------------------------------------------------------------------
(* At most one SAML Response ever answers a request, however many copies    *)
(* of it, of its cid or of its rid arrive at however many handlers, and     *)
(* whichever of them die: R1 and R2 of sso.ts and resume.ts.                *)
OneAnswer == \A r \in Requests : answers[r] <= 1

(* ForceAuthn, whether the SP, authorize() or step-up asked for it: what is *)
(* signed rests on a session created after that was asked, over all the     *)
(* parks and resumes in between (resume.ts l.49, issue.ts l.330, l.367).    *)
FreshSession ==
  \A h \in Handlers :
    At(h, "signed") => created[job[h].session] >= freshFrom[job[h].req]

(* A request once parked is answered in the browser it was last parked in,  *)
(* so that a leaked resume link is of no use elsewhere (resume.ts l.38).    *)
BoundToBrowser ==
  \A h \in Handlers :
    At(h, "signed") /\ boundTo[job[h].req] # None => job[h].browser = boundTo[job[h].req]

(* The loop guards: a request is parked for its user to sign in at most     *)
(* twice, once when the SP asked for ForceAuthn, at any of the three parks, *)
(* and never when it asked for IsPassive, whatever the host's callbacks     *)
(* say.  How often a resume sends a user without a session back to the      *)
(* login page has no bound (resume.ts l.27), but only a parked request's    *)
(* user is ever sent there: never one whose request asked for IsPassive.    *)
LoopGuard ==
  \A r \in Requests :
    /\ parks[r] <= IF attr[r].passive THEN 0 ELSE IF attr[r].force THEN 1 ELSE 2
    /\ r \in sentBack => parks[r] > 0

(* A session that was over when issueResponse began gets nothing, even if   *)
(* the session store still served it (eligiblePrincipal, issue.ts l.174).   *)
EndedGetsNothing == \A h \in Handlers : At(h, "signed") => job[h].session \notin job[h].ended

(* "Every assertion re-reads the session and the user from the database     *)
(* just before signing, so a deleted session … gets nothing more"           *)
(* (docs/guide/single-logout.md): nothing is signed for a deleted session.  *)
DeletedGetsNothing ==
  [][\A h \in Handlers :
       At(h, "decide") /\ job'[h].pc = "signed" => status[job[h].session] = "live"]_vars
=============================================================================
