------------------------------- MODULE Exchange -------------------------------
(***************************************************************************)
(* Assertions that an OAuth client may exchange for tokens (exchange.ts,   *)
(* storage/exchange-record.ts): the record an assertion gets when it is    *)
(* issued to an SP with tokenExchange, and the calls, in any isolate, that *)
(* verify it and use the record up, while the SP's opt-in, the signing key *)
(* and the user's standing change and a sweep deletes what has expired.    *)
(*                                                                         *)
(* The XML, its shape and schema and the fields of the record are left out:*)
(* an assertion is its id, the key that signed it and the end of its       *)
(* window.                                                                 *)
(***************************************************************************)
EXTENDS Naturals

CONSTANTS
  Assertions,  \* assertions issued to one SP in one session
  Clients,     \* OAuth clients
  Exchangers,  \* concurrent calls of verifyIssuedAssertion
  Lifetime,    \* assertionLifetimeSeconds
  Leeway,      \* clockSkewSeconds
  ExMaxTime,   \* bound: the clock
  ExMaxKeys,   \* bound: signing keys the identity ever has
  Nil          \* nothing

ASSUME ExchangeAssumption ==
  /\ Lifetime \in Nat \ {0} /\ Leeway \in Nat /\ ExMaxTime \in Nat /\ ExMaxKeys \in Nat \ {0}
  /\ Nil \notin Assertions \cup Clients \cup Nat

VARIABLES
  exNow,     \* the clock
  optIn,     \* the client of the SP's tokenExchange, if any
  signer,    \* the identity's current signing key
  standing,  \* which checks of the principal would pass now
  assertion, \* an assertion: how far its issuance is, its key, the end of its window
  exRecord,  \* when its record expires, if it has one
  exchange,  \* a call: its next step, the assertion, the client, when it began
  recorded,  \* (history) the assertions that were given a record
  wasted,    \* (history) those whose call was cut short after it had taken the record
  verdicts   \* (history) how often an assertion, its record used up, was exchanged or refused

exchangeVars ==
  <<exNow, optIn, signer, standing, assertion, exRecord, exchange, recorded, wasted, verdicts>>

(* Read one after the other: the user (there, not banned, within the account policy), *)
(* the session (there, unexpired), the membership the SP demands.                     *)
Checks == {"user", "session", "member"}
Stages == {"none", "record", "participant", "issued", "dropped"}
ExchangeSteps == {"idle", "recognise", "findSp", "consume"} \cup Checks

Unsigned == [stage |-> "none", key |-> 0, until |-> 0]
NoExchange == [pc |-> "idle", of |-> Nil, client |-> Nil, now |-> 0]

ExchangeTypeOK ==
  /\ exNow \in Nat
  /\ optIn \in Clients \cup {Nil}
  /\ signer \in 1..ExMaxKeys
  /\ standing \subseteq Checks
  /\ assertion \in [Assertions -> [stage : Stages, key : 0..ExMaxKeys, until : Nat]]
  /\ exRecord \in [Assertions -> Nat \cup {Nil}]
  /\ exchange \in [Exchangers -> [pc : ExchangeSteps, of : Assertions \cup {Nil},
                                  client : Clients \cup {Nil}, now : Nat]]
  /\ recorded \subseteq Assertions /\ wasted \subseteq Assertions
  /\ verdicts \in [Assertions -> [exchanged : Nat, refused : Nat]]

ExchangeInit ==
  /\ exNow = 0 /\ optIn \in Clients \cup {Nil} /\ signer = 1 /\ standing = Checks
  /\ assertion = [a \in Assertions |-> Unsigned]
  /\ exRecord = [a \in Assertions |-> Nil]
  /\ exchange = [x \in Exchangers |-> NoExchange]
  /\ recorded = {} /\ wasted = {}
  /\ verdicts = [a \in Assertions |-> [exchanged |-> 0, refused |-> 0]]

-----------------------------------------------------------------------------
At(x, step) == exchange[x].pc = step
Onward(x, step) == exchange' = [exchange EXCEPT ![x].pc = step]
EndExchange(x) == exchange' = [exchange EXCEPT ![x] = NoExchange]
Of(x) == assertion[exchange[x].of]

(* issueResponse: an assertion is signed, for a user in good standing; ... *)
SignAssertion(a) ==
  /\ assertion[a].stage = "none" /\ standing = Checks
  /\ assertion' = [assertion EXCEPT ![a] =
       [stage |-> IF optIn # Nil THEN "record" ELSE "participant",
        key |-> signer, until |-> exNow + Lifetime]]
  /\ UNCHANGED <<exNow, optIn, signer, standing, exRecord, exchange, recorded, wasted, verdicts>>

(* Faulty: the record goes with the window of an SP whose clock is right. *)
RecordExpiry_exact(a) == assertion[a].until

RecordExpiry(a) == assertion[a].until + Leeway

(* ... its record is written, or is not, which is only logged; ... *)
RecordExchangeable(a) ==
  /\ assertion[a].stage = "record"
  /\ assertion' = [assertion EXCEPT ![a].stage = "participant"]
  /\ \/ /\ exRecord' = [exRecord EXCEPT ![a] = RecordExpiry(a)]
        /\ recorded' = recorded \cup {a}
     \/ UNCHANGED <<exRecord, recorded>>
  /\ UNCHANGED <<exNow, optIn, signer, standing, exchange, wasted, verdicts>>

(* ... and it is sent, unless its participant could not be recorded. *)
IssueAssertion(a) ==
  /\ assertion[a].stage = "participant"
  /\ \E outcome \in {"issued", "dropped"} :
       assertion' = [assertion EXCEPT ![a].stage = outcome]
  /\ UNCHANGED <<exNow, optIn, signer, standing, exRecord, exchange, recorded, wasted, verdicts>>

-----------------------------------------------------------------------------
(* verifyIssuedAssertion: the call notes the time, ... *)
PresentAssertion(x, a, client) ==
  /\ At(x, "idle") /\ assertion[a].stage = "issued"
  /\ exchange' = [exchange EXCEPT ![x] =
                    [pc |-> "recognise", of |-> a, client |-> client, now |-> exNow]]
  /\ UNCHANGED <<exNow, optIn, signer, standing, assertion, exRecord, recorded, wasted, verdicts>>

(* Past NotOnOrAfter, with the leeway and no grace beyond it. *)
Expired(x) == exchange[x].now >= Of(x).until + Leeway

(* ... reads the identity's key, whose signature it must be, looks at the window, ... *)
Recognise(x) ==
  /\ At(x, "recognise")
  /\ IF Of(x).key = signer /\ ~Expired(x) THEN Onward(x, "findSp") ELSE EndExchange(x)
  /\ UNCHANGED <<exNow, optIn, signer, standing, assertion, exRecord, recorded, wasted, verdicts>>

(* ... finds the SP, which must have opted in for this client, ... *)
FindOptIn(x) ==
  /\ At(x, "findSp")
  /\ IF optIn = exchange[x].client THEN Onward(x, "consume") ELSE EndExchange(x)
  /\ UNCHANGED <<exNow, optIn, signer, standing, assertion, exRecord, recorded, wasted, verdicts>>

(* An expired verification value is as good as none. *)
RecordOf(a) == IF exRecord[a] # Nil /\ exNow <= exRecord[a] THEN exRecord[a] ELSE Nil

(* Faulty: the record is looked up, and deleted once the token is made. *)
Consume_findsOnly(x) ==
  /\ At(x, "consume")
  /\ IF RecordOf(exchange[x].of) # Nil THEN Onward(x, "user") ELSE EndExchange(x)
  /\ UNCHANGED <<exNow, optIn, signer, standing, assertion, exRecord, recorded, wasted, verdicts>>

(* ... takes the record, which is gone from then on whatever the outcome, ... *)
Consume(x) ==
  /\ At(x, "consume")
  /\ exRecord' = [exRecord EXCEPT ![exchange[x].of] = Nil]
  /\ IF RecordOf(exchange[x].of) # Nil THEN Onward(x, "user") ELSE EndExchange(x)
  /\ UNCHANGED <<exNow, optIn, signer, standing, assertion, recorded, wasted, verdicts>>

Judge(x, verdict) ==
  /\ verdicts' = [verdicts EXCEPT ![exchange[x].of][verdict] = @ + 1]
  /\ EndExchange(x)

(* ... and asks for the principal, as it is now: user, session and membership. *)
CheckPrincipal(x) ==
  /\ exchange[x].pc \in Checks
  /\ IF exchange[x].pc \notin standing
       THEN Judge(x, "refused")
       ELSE CASE At(x, "user") -> Onward(x, "session") /\ UNCHANGED verdicts
              [] At(x, "session") -> Onward(x, "member") /\ UNCHANGED verdicts
              [] At(x, "member") -> Judge(x, "exchanged")
  /\ UNCHANGED <<exNow, optIn, signer, standing, assertion, exRecord, recorded, wasted>>

CrashExchange(x) ==
  /\ ~At(x, "idle")
  /\ EndExchange(x)
  /\ wasted' = IF exchange[x].pc \in Checks THEN wasted \cup {exchange[x].of} ELSE wasted
  /\ UNCHANGED <<exNow, optIn, signer, standing, assertion, exRecord, recorded, verdicts>>

-----------------------------------------------------------------------------
(* sweepExpired deletes verification values before its now. *)
SweepRecords ==
  /\ \E a \in Assertions : exRecord[a] # Nil /\ exRecord[a] < exNow
  /\ exRecord' = [a \in Assertions |->
                    IF exRecord[a] # Nil /\ exRecord[a] < exNow THEN Nil ELSE exRecord[a]]
  /\ UNCHANGED <<exNow, optIn, signer, standing, assertion, exchange, recorded, wasted, verdicts>>

(* The SP is edited, the key rotated; a session ends for good, a ban may be lifted. *)
EditOptIn(client) ==
  /\ client # optIn
  /\ optIn' = client
  /\ UNCHANGED <<exNow, signer, standing, assertion, exRecord, exchange, recorded, wasted, verdicts>>

RotateKey ==
  /\ signer < ExMaxKeys
  /\ signer' = signer + 1
  /\ UNCHANGED <<exNow, optIn, standing, assertion, exRecord, exchange, recorded, wasted, verdicts>>

ChangeStanding(check) ==
  /\ \/ standing' = standing \ {check}
     \/ check # "session" /\ standing' = standing \cup {check}
  /\ UNCHANGED <<exNow, optIn, signer, assertion, exRecord, exchange, recorded, wasted, verdicts>>

ExTick ==
  /\ exNow < ExMaxTime
  /\ exNow' = exNow + 1
  /\ UNCHANGED <<optIn, signer, standing, assertion, exRecord, exchange, recorded, wasted, verdicts>>

ExchangeNext ==
  \/ \E a \in Assertions :
       \/ SignAssertion(a) \/ RecordExchangeable(a) \/ IssueAssertion(a)
       \/ \E x \in Exchangers, client \in Clients : PresentAssertion(x, a, client)
  \/ \E x \in Exchangers :
       Recognise(x) \/ FindOptIn(x) \/ Consume(x) \/ CheckPrincipal(x) \/ CrashExchange(x)
  \/ SweepRecords \/ RotateKey \/ ExTick
  \/ \E client \in Clients \cup {Nil} : EditOptIn(client)
  \/ \E check \in Checks : ChangeStanding(check)

ExchangeSpec == ExchangeInit /\ [][ExchangeNext]_exchangeVars

-----------------------------------------------------------------------------
(* "Each assertion is exchanged at most once, whichever instance gets it first", and  *)
(* one that was refused for its user, session or membership is used up as well: no    *)
(* overlap of calls and no later change of standing gives it a second verdict.        *)
OneVerdict == \A a \in Assertions : verdicts[a].exchanged + verdicts[a].refused <= 1

(* An assertion can be exchanged to the end of its window, leeway included: while a   *)
(* call could present it, its record is neither swept nor taken for expired; only the *)
(* one call that uses it up takes it away.                                            *)
KeptWhileValid ==
  \A a \in recorded :
    exNow < assertion[a].until + Leeway =>
      \/ RecordOf(a) # Nil
      \/ verdicts[a].exchanged + verdicts[a].refused = 1 \/ a \in wasted
      \/ \E x \in Exchangers : exchange[x].of = a /\ exchange[x].pc \in Checks
=============================================================================
