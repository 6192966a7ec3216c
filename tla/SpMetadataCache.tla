---------------------------- MODULE SpMetadataCache ----------------------------
(***************************************************************************)
(* The certificates an isolate learns from one SP's metadata URL           *)
(* (saml/sp-metadata-refresh.ts): refreshes that start when one is due and *)
(* a request uses the SP, that back off after failures, may be cancelled   *)
(* with the request they ran behind, and are taken for stuck after         *)
(* STUCK_MS - though they may be only slow, and come in last.              *)
(*                                                                         *)
(* Clocks count down: nothing here depends on the time of day.             *)
(***************************************************************************)
EXTENDS Naturals

CONSTANTS
  Documents,    \* metadata documents: the certificates in them
  Configured,   \* the certificates of the SP's configuration
  RefreshRuns,  \* bound: refreshes on their way at a time
  RefreshTime,  \* metadata.refreshSeconds
  MinBackoff,   \* MIN_BACKOFF_MS
  StuckTime,    \* STUCK_MS
  None          \* no document; no refresh in flight

ASSUME MetadataAssumption ==
  /\ MinBackoff \in Nat \ {0} /\ RefreshTime \in Nat /\ MinBackoff <= RefreshTime
  /\ StuckTime \in Nat
  /\ None \notin Documents \cup RefreshRuns

VARIABLES
  published,    \* what the metadata URL serves; None: no answer, or nothing acceptable
  learned,      \* entry.learned
  nextAttempt,  \* how long until a refresh is due
  backoff,      \* entry.backoff
  inflight,     \* entry.inflight: the refresh that the entry waits for
  sinceStart,   \* for how long, counted to just beyond StuckTime
  run           \* the refreshes on their way: fetching, or through with what they fetched

metadataVars == <<published, learned, nextAttempt, backoff, inflight, sinceStart, run>>

Fetched == Documents \cup {None}

MetadataTypeOK ==
  /\ published \in Fetched /\ learned \in Fetched
  /\ nextAttempt \in 0..RefreshTime
  /\ backoff \in MinBackoff..RefreshTime
  /\ inflight \in RefreshRuns \cup {None}
  /\ sinceStart \in 0..StuckTime + 1
  /\ run \in [RefreshRuns -> [state : {"none", "fetching", "fetched"}, document : Fetched]]

NoRun == [state |-> "none", document |-> None]

MetadataInit ==
  /\ published \in Fetched
  /\ learned = None /\ nextAttempt = 0 /\ backoff = MinBackoff
  /\ inflight = None /\ sinceStart = 0
  /\ run = [r \in RefreshRuns |-> NoRun]

-----------------------------------------------------------------------------
(* Faulty: a refresh that was cancelled is waited for. *)
Stuck_never == FALSE

(* A refresh in flight for too long counts as abandoned. *)
Stuck == inflight # None /\ sinceStart > StuckTime

(* prepare: drops a stuck refresh, and starts a new one when it is due and none runs. *)
Prepare ==
  /\ IF nextAttempt = 0 /\ (inflight = None \/ Stuck)
       THEN \E r \in RefreshRuns :
              /\ run[r] = NoRun
              /\ run' = [run EXCEPT ![r] = [state |-> "fetching", document |-> None]]
              /\ inflight' = r
              /\ sinceStart' = 0
       ELSE /\ inflight' = IF Stuck THEN None ELSE inflight
            /\ UNCHANGED <<run, sinceStart>>
  /\ UNCHANGED <<published, learned, nextAttempt, backoff>>

(* load: what the URL serves, checked against schema, signature, validUntil, entity ID. *)
Load(r) ==
  /\ run[r].state = "fetching"
  /\ run' = [run EXCEPT ![r] = [state |-> "fetched", document |-> published]]
  /\ UNCHANGED <<published, learned, nextAttempt, backoff, inflight, sinceStart>>

(* Faulty: the back-off grows without end. *)
Double_uncapped(b) == 2 * b

Double(b) == IF 2 * b < RefreshTime THEN 2 * b ELSE RefreshTime

(* refresh settles: what was fetched replaces what was known, whichever came first; a *)
(* failure keeps it and backs off. The entry stops waiting for this refresh only.     *)
Settle(r) ==
  /\ run[r].state = "fetched"
  /\ IF run[r].document # None
       THEN learned' = run[r].document /\ backoff' = MinBackoff /\ nextAttempt' = RefreshTime
       ELSE nextAttempt' = backoff /\ backoff' = Double(backoff) /\ UNCHANGED learned
  /\ inflight' = IF inflight = r THEN None ELSE inflight
  /\ run' = [run EXCEPT ![r] = NoRun]
  /\ UNCHANGED <<published, sinceStart>>

(* A Worker cancels what runs behind a response: its promise never settles. *)
Cancel(r) ==
  /\ run[r] # NoRun
  /\ run' = [run EXCEPT ![r] = NoRun]
  /\ UNCHANGED <<published, learned, nextAttempt, backoff, inflight, sinceStart>>

(* entries.clear(), another cache key, or a new isolate: refreshes write to the old entry. *)
ForgetEntry ==
  /\ learned' = None /\ nextAttempt' = 0 /\ backoff' = MinBackoff
  /\ inflight' = None /\ sinceStart' = 0
  /\ run' = [r \in RefreshRuns |-> NoRun]
  /\ UNCHANGED published

Publish(d) ==
  /\ published' = d
  /\ UNCHANGED <<learned, nextAttempt, backoff, inflight, sinceStart, run>>

MetadataTick ==
  /\ nextAttempt' = IF nextAttempt = 0 THEN 0 ELSE nextAttempt - 1
  /\ sinceStart' = IF inflight = None \/ sinceStart > StuckTime THEN sinceStart ELSE sinceStart + 1
  /\ UNCHANGED <<published, learned, backoff, inflight, run>>

MetadataNext ==
  \/ Prepare \/ ForgetEntry \/ MetadataTick
  \/ \E r \in RefreshRuns : Load(r) \/ Settle(r) \/ Cancel(r)
  \/ \E d \in Fetched : Publish(d)

(* Time passes and the SP is used; a refresh is not cancelled every time. *)
MetadataFairness ==
  /\ WF_metadataVars(MetadataTick) /\ WF_metadataVars(Prepare)
  /\ \A r \in RefreshRuns : SF_metadataVars(Load(r)) /\ SF_metadataVars(Settle(r))

MetadataSpec == MetadataInit /\ [][MetadataNext]_metadataVars /\ MetadataFairness

-----------------------------------------------------------------------------
(* merge: the configured certificates always remain trusted, beside the learned ones. *)
Trusted == {Configured} \cup (IF learned = None THEN {} ELSE {learned})

(* "A cancelled metadata refresh recovers by itself" (docs/guide/cloudflare-workers.md): *)
(* certificates that an SP publishes for good are trusted in the end, whatever failed,   *)
(* was cancelled, got stuck or was overtaken before.                                     *)
ChangesAreLearned ==
  \A d \in Documents : <>[](published = d) => []<>(d \in Trusted)
=============================================================================
