# A TLA+ specification of better-auth-saml-idp

TLA+ modules, TLC configurations and TLAPS proofs for the plugin in `src/src/`: a SAML 2.0
identity provider for Better Auth. All modules were translated from the code; line numbers below and in
`PROJECT.json` refer to it.

    tlc -workers 2 -config SsoFlow.cfg MCSsoFlow      # check a run
    tlapm SsoFlow_proofs.tla                          # check the proofs of a module

## 1. What makes this program hard

The plugin is a set of HTTP handlers. Each is a chain of `await`s on a shared database (through
Better Auth's adapter, **without transactions**), run by any number of isolates or processes that
may be evicted at any await. Nothing locks. The code relies on three primitives of the database:

* a UNIQUE column decides between two INSERTs (`storage/seen.ts`, `key-rows.ts`, `tenants.ts`);
* a verification value is consumed by one caller (`storage/pending.ts`, `slo.ts`,
  `exchange-record.ts`);
* an UPDATE or DELETE by id or key is one atomic step.

Everything else (reading, deciding, calling the host's callbacks, writing) can interleave with
every other handler. On top of that each isolate keeps caches (`TenantKeyStore`, `SpDirectory`,
`TenantDirectory`, `SpMetadataCache`) and module variables (`last` of `sweep.ts`, `endingBySlo` of
`participants.ts`) that others do not see, and the browser carries state between handlers in
redirects it may repeat, delay or drop.

## 2. Inventory

| Component | Code | State | Operations |
|---|---|---|---|
| Replay guard | `storage/seen.ts`, `storage/sweep.ts` | rows `samlIdpSeenRequest` (UNIQUE key, `expiresAt`); `last` per isolate | record a request ID, classify a failed INSERT, sweep |
| Sign-on | `endpoints/sso.ts`, `resume.ts`, `init.ts`, `issue.ts`, `storage/pending.ts` | verification values `continue` and `pending`; binding cookie; Better Auth's sessions | receive (GET, POST), re-enter, park, resume, launch, decide, issue |
| Single Logout | `endpoints/slo.ts`, `storage/participants.ts`, delete hook of `index.ts` | participant rows; the stored state of a chain; `endingBySlo` per isolate | record a participant, list, end, forget, hop, answer; mark ended and report |
| Tenant keys | `saml/tenant-keys.ts`, `endpoints/tenants.ts`, `key-rows.ts` | rows `samlIdpTenantKey` (UNIQUE stateKey); `TenantKeyStore` per isolate | create, rotate, activate, retire, prune; load, sign, publish |
| Root keys | `endpoints/signing-keys.ts`, `ensureFirstKey`, `saml/identity.ts` | the same rows under another owner | first key, rotate, activate, retire |
| Tenants | `endpoints/tenants.ts`, `saml/tenant-directory.ts`, `organizations.ts` | rows `samlIdpTenant`, `samlIdpRetiredTenantKey`; cache per isolate | create, update, delete, organization's delete hook, backfill |
| SP registry | `endpoints/registry.ts`, `saml/sp-directory.ts`, `sp-registry.ts` | rows `samlIdpServiceProvider`; cache of hits and misses per isolate | create, update, delete, look up |
| SP metadata | `saml/sp-metadata-refresh.ts`, `sp-metadata.ts` | learned certificates per isolate | first fetch, refresh, back-off |
| Assertion exchange | `exchange.ts`, `storage/exchange-record.ts`, `find-in.ts` | a single-use record per assertion | record at issuance, exchange |
| Messages | `saml/request.ts`, `response.ts`, `logout.ts`, `xml.ts`, `nameid.ts`, `attributes.ts`, ... | none | parse, validate, build |
| Cryptography | `saml/xmldsig.ts`, `encrypt.ts`, `certificate.ts` | none | sign, verify, encrypt |
| Events | `events.ts` | none | emit in the background |
| Configuration | `options.ts`, `schema.ts`, `types.ts`, `errors.ts`, `access.ts`, `client.ts` | fixed at start-up | check, declare |
| Command line | `cli/` | none | print, diagnose |

How they interact. `handleSso` sweeps, validates a message, asks the replay guard and then answers,
stores a continuation, parks the request, or calls `issueResponse`; `resume` and `init` end in
`issueResponse` too. `issueResponse` reads the session again, asks the host's callbacks, signs with
the key the tenant's `TenantKeyStore` gives it, records the SP as a logout participant and only
then answers. `handleSlo` uses the same guard for LogoutRequests, lists the participants, deletes
the session (which runs the delete hook, synchronously, in the same isolate), forgets the
participants and goes from SP to SP with its state in a stored value. The tenant and registry APIs
change rows that every isolate reads through its caches.

What has to be right, by component:

* **Replay guard:** the first sight of a request wins and no other does, although rows are swept.
* **Sign-on:** at most one Response per request; what is signed rests on a session as fresh as was
  asked, in the browser the request was parked in; no login page for IsPassive; a request is parked
  for a sign-in at most twice; nothing for an ended session.
* **Single Logout:** every SP that got an assertion is told, reported or still listed; `Success`
  only if all confirmed; no SP is told before the session is over; every logout ends.
* **Keys:** what any isolate signs with is in what any isolate publishes; a tenant with a key of
  its own never signs with the shared key again, and can always be brought back to signing; a
  retired key stays retired.
* **Tenants:** no tenant key is given for good twice, no SP is without its tenant or served by another
  organization, and a tenant signs with the key its create made (section 3 has the exceptions).
* **Delegation:** an organization's own administrators touch their tenant's SPs only, and never
  choose which client may exchange assertions (where row ids are given out again, section 3 has the exception).
* **Upgrades:** after the backfill every SP can be found again, or was reported.
* **Directories:** what a lookup answers was true at one instant, at most a cache time and the
  length of a lookup ago; an SP that was switched off is not switched on by an edit.
* **First key:** the writers' repairs leave one key, and never none.
* **Participants:** a row lives as long as its session, and shows the session's end.
* **Metadata:** what an SP publishes for good is trusted in the end.
* **Exchange:** an assertion gets one verdict, and can get it as long as it is valid.

## 3. Modules and how they correspond to the code

Every definition that stands for code has its lines in `PROJECT.json` ("map"). Comments that begin
with "Faulty:" mark plausible wrong versions of the definition that follows; no specification uses
them, they are there to show that the properties notice.

### FirstSight and ReplayGuard

`FirstSight` is what the replay guard promises: a register of spent requests that a handler tests
and sets in one step. `ReplayGuard` is the code: rows with an expiry (`seenUntil`), handlers that
hold clock values (`at`), the throttled sweep (`last`), INSERTs that fail or commit unheard, the
classifying read, restarts. `ImplementsFirstSight` is the refinement, with `spent` mapped to the
rows ever written and `verdict` to what a handler decided.

A request stands for its UNIQUE key, the hash of (SP, request ID). `sso.ts` l.158-203 and
`slo.ts` l.312-333 are the same protocol with the same window and lifetime (300 s plus twice the skew).

### SsoFlow

The life of a request, from its arrival to its one Response. `job[h]` is a handler: where it
stands, and the `ValidatedRequest` it holds (`force` = `forceAuthn`, `since` = `createdAt`).
`values` are the verification rows, `cookie`/`status`/`created` the browsers' and the database's
sessions. Each await that matters is a step: the record, the park, the session read of a resume
(`Resume`, or `SendBack` when there is none: the value stays, and the user goes to the login page once
more), the consumption (`Consume`), the authoritative read (`Eligible`), the decision after
the callbacks (`Decide`), the answer after the participant was recorded (`Respond`). The host
(`authorize()`, `current()`, whether an SP still fits) chooses freely. The replay guard appears as
the atomic test-and-set that ReplayGuard refines. `LoopGuard` bounds how often a request is *parked*.
`SendBack` has no bound, in the code (resume.ts l.27-29) as in the model: whoever opens the resume URL again and
again without signing in is redirected each time. What the property says of it is that only a parked
request's user is sent there (`sentBack`), so never one whose request asked for IsPassive.

### SingleLogout

One session. *Enders* are runs of Single Logout and deletions by the host; both go through
Better Auth's `deleteSession` (lookup, delete, hook). A logout lists the participants and marks the
session in its isolate in one step, since nothing is awaited in between (`List`); then ends,
forgets and hops. A chain that waits for a LogoutResponse is the value it stored. Sign-ons race in
two steps, signing and recording. `endSession`'s failure paths, hook failures, a browser that never
returns (`Abandon`) and dying isolates, with or without their `endingBySlo`, are actions. Marks have
no clock here: a hook that finds its mark may take it for fresh, or for older than `ENDING_TTL_MS`, as
`consumeEndingBySlo` (participants.ts l.145-150) may; it is used up either way. A stale one leads to a report of SPs that the
logout then tells. `slow` remembers that it happened, and is the exception in `OwnLogoutIsSilent`: a logout
alone reports nobody unless its delete took over a minute. The age itself is in Participants.

### SigningKeys

One owner's key rows, a tenant's or the root's, and the API calls that move them. `owner` says whose
they are: the root has its own three calls (`RotateRoot`, `ActivateRoot`, `RetireRoot` of
endpoints/signing-keys.ts), starts with the first key that FirstKey gives it, and never signs with
a shared key; the accesses that follow what a call has read are the same. A call reads the rows once and then works
on what it read, one database access a step, so calls interleave and may be cut short anywhere
(`Crash`). Isolates load rows and cache them in two steps (`Load`, `Store`); `Signer` and
`Published` are `TenantKeyStore.signing`. Two hypotheses about the world are parameters, because
the documentation gives them to the administrator: `Lag`, how long a call or load may take, and
`Patience`, how long administrators wait before they retire
(docs/guide/signing-and-encryption.md, "Wait between activating and retiring"). A forced activation
or a hasty retirement is possible at any time but sets `hasty`, and the two properties that rest on
the waiting, `RetiredIsFinal` and `SignerIsPublished`, then say nothing; `Recoverable` and
`SharedExpires` hold regardless. A rotation sets `hasty` too while the tenant's creation has not returned
(`Creating`): the tenant's row is visible before its key is written (endpoints/tenants.ts l.185-205), so a
rotation in between publishes a next key; if the creation then fails and takes the tenant back, that row is
left to the next creation, whose first key becomes active in the middle of the activation that the stray
next key allows. It takes three calls and four rows, more than the run has; the proof of
`RetiredIsFinal` stopped at it and TLC then showed it. `SharedExpires` has a condition on the copy of the
rows that an isolate works with: fewer than `KeepRetired` retired rows of the shared key. Retired rows are
the evidence that the tenant had keys of its own, and of a copy that shows that many nothing follows; this
too came out of the proof, as it takes about eight rows.
`pruneRetiredRows` is one step (its rows are retired for good, so their order does not matter).

### Tenants

The tenant API on organization ids that are freed and given out again. `tenants[o]` is the row of an
organization id (UNIQUE `organizationId`), `activeKey[o]` the key row under the UNIQUE state key,
named by the tenant whose create made it, and a call is the list of its database accesses: a create
checks, inserts, looks at the retired keys again, writes its key row and answers, or takes its row
back (`Undo`); a delete looks for SPs, retires the key, deletes the row by id and then the key rows by
organization. The organization's delete hook and the creation of SPs interleave with both, and
`CrashCall` ends any of them anywhere. Two pairs of reads are one step each: the organization and
the retired keys at the start of a create, the tenant and its SPs at the start of a delete.

`given[k]` has the rows that got the key k for good: their create's second look (l.194) found it not
retired, and has not taken the row back since. That counts tenants from that look on, whether or not their create
ever answers, and `KeyGivenOnce` says there is at most one for each key, ever. `signing` has the rows whose create
has answered, until a delete takes them or their organization's key rows. A key row's INSERT may commit and
throw all the same (l.201-203): the create then takes the tenant back, and the key row stays.

**Assumed of the database:** row ids are not given out again. That is so for Better Auth's own ids, which are random; the
serial ids of SQLite and D1 are handed to the next row (docs/guide/multi-tenant.md l.100), and then a DELETE by id that
comes late (l.195, l.203, l.244) may take another tenant's row. All properties of Tenants, and `SwitchedOffStaysOff` of
SpDirectory, rest on this. Delegation does not assume it.

What the code loses, the properties except by name:

* `loose`: an SP that is inserted while its tenant is being taken away is left without one
  (l.238 against `validate` of `registry.ts`);
* `signing`: a delete that gets to the key rows (l.247) after another tenant of the organization was
  made takes that tenant's keys, and its row is no longer among `signing`;
* a crash between l.244 and l.247, or a key row's INSERT that committed and threw, leaves an active row that
  fails every later create of the organization at its key row;
* a create that stops between its INSERT (l.185) and acting on its second look (l.194, l.195), or that dies while it
  takes the row back, leaves a tenant whose key may be retired. When it is enabled the directory serves it: SPs of the
  deleted tenant, which still trust that entity ID, then meet another one, although
  docs/guide/multi-tenant.md l.99 says that no tenant may ever have that key again. The model has these
  tenants, and the ones that are served for a moment before an undo; `given` does not count them, and
  `KeyGivenOnce` says nothing of them.

### StaleView, TenantDirectory and SpDirectory

`StaleView` is what a cached directory promises: an answer was the truth at an instant less than
`Delay` ago. `TenantDirectory` (the lookup of one tenant: the row, then the organization, compared
and cached) and `SpDirectory` (one stored SP, and the registry's calls on it) both implement it,
with `Delay` a cache time plus the length of a lookup: `TenantsAreFresh`, `SpsAreFresh`. The writes
in `TenantDirectory` are those of Tenants, each at its instant and in any order. `SpDirectory` has
the registry's read-merge-write of an edit, which writes `enabled` as it was read: of two edits one
is lost, and an edit that had read the row before it was switched off switches it on again
(`overtaken`, the exception in `SwitchedOffStaysOff`). Rows are numbered as they are made: row ids are not given
out again while a call for the old row is on its way (see Tenants). With serial ids on SQLite or D1 such a
call would write to the SP's next row.

### Delegation

The registry's calls once more, for one SP id, as the tenants' own administrators make them next to the
host's. What a call may do follows from what it read at its start (`Access`, `InScope`, `MayOptIn`); its write
comes later and goes by the row's id, while roles, tenants and the row change. Of a config there is
the one field that only the host decides, `tokenExchange`. `overtaken` marks a call that writes back
what it had read of that field although it was changed since: the registry writes whole configs, and
the last one wins. `StaysDelegated` then allows no more than a client the host once gave this row.

Nothing is assumed of row ids but that no two rows have one at a time: an INSERT takes any of `DelRowIds`, the one of a deleted row
too, as serial ids on SQLite and D1 do. The UPDATE and the DELETE go by the id alone (registry.ts l.438, l.459). So a call that was
checked against an SP of its own tenant may write to, or delete, the one that another tenant has made since, when that has the same row
id. The code does this; it needs a delete and a create between two awaits of one call. The call is then `mistaken` and
the row it writes `mixed`, and `StaysDelegated` excepts both. It holds for every call whose row's id was not
given to another, and so for every call where ids are not given out again.

### Backfill

Both ways to give the rows of an older registry their lookup keys (`endpoints/tenants.ts`): by pages
of the table, with tenants on, or on MongoDB by whatever document has no key, before tenants are
turned on (`TurnOn`) or after. SPs are created, edited and deleted meanwhile, writes fail, and a run that died
is started again. `EverySpIsFound` has two exceptions, which are what the code does:

* `shrunk`: a delete during a run moves the pages that are still to come by one row, so the run
  passes over a row without a word. Another run finds it.
* `raced`: a row that is edited between its read and its write gets the key of its former entity ID, and so
  keeps one that was edited with tenants off after MongoDB's backfill had been there, since such an edit leaves the
  column alone. No later run looks at a row that has a key.

### FirstKey

`ensureFirstKey` of the root in several isolates, each with its cached rows (`known`) and remembered
failure (`failed`), with the UNIQUE index and without (`unique` is chosen at the start). An INSERT may
be refused, fail, or commit unheard. A repair deletes row by row what it saw. Times are left out: a
cached list or a failure may be forgotten at any moment, which is more than the code does.

### Exchange

An assertion from its signature (`SignAssertion`, `RecordExchangeable`, `IssueAssertion` are the end
of `issueResponse`) to the calls of `verifyIssuedAssertion`, each access a step, in the order of the
code: key and window, the SP's opt-in, the record, the principal. The opt-in, the signing key, the
user's standing and the sweep change in between. `wasted` remembers a call that died with the record.
One clock signs and verifies, so `NotBefore` is left out.

### Participants

The times that SingleLogout leaves out, for one session: sign-ons record rows with the expiry they
read (`ReadSession`, `RecordParticipant`), refreshes move the session and then, by a hook, the rows,
the sweep deletes them, and enders mark, delete, report and forget, where a mark is good for
`ENDING_TTL_MS`. Each ender has an isolate of its own here; marks that cross isolates are
SingleLogout's. The comment of `index.ts` l.159-161, that participants live as long as the session,
holds but for the rows in `behind`: a sign-on that read the session before a refresh writes the older
expiry, and a hook that fails, is overtaken or comes after the sweep leaves one. Such a row can be swept while its
session lives, and a later logout does not know of the SP.

### SpMetadataCache

One entry of one isolate's cache. Nothing depends on the time of day, so clocks count down to the
next attempt and up to "stuck". A refresh loads, then settles; it may be cancelled, taken for stuck
and overtaken by its successor. The older answer may come last and is then believed until the next
refresh.

## 4. The runs

| Run | Question | Instance | Distinct states |
|---|---|---|---|
| `isolates` | Is the guard a test-and-set? Is an assertion exchanged once? How old is what a directory answers? | per part: 1 request, 2 isolates, window 1 + 2\*2, clock to 9; 1 assertion, 2 calls, window 1 + 2, clock to 4; 1 isolate, cache and lookup of 1 tick, 2 tenant keys, 2 calls | 0.7 million |
| `replay_guard_lag` (violation) | And without slack? | SP clock ahead by the whole skew, 1 tick of lag | |
| `sso_flow` | One fresh answer in the right browser, few parks? | 1 request of any kind, 2 handlers, browsers and sessions, clock to 2 | 0.9 million |
| `sso_flow_deleted` (violation) | Nothing for a session deleted just before? | 1 of each | |
| `single_logout` | Who is told when enders race? | 1 SP, 2 logouts, 1 deletion, 2 isolates | 4.1 million |
| `single_logout_chain` | Is Success earned, and does it end? | 3 SPs (2 with an endpoint), lists of 2, 1 logout, 1 deletion | 1.2 million |
| `single_logout_told` (violation) | Are all SPs told? | 1 SP, 1 logout | |
| `single_logout_success` (violation) | Does Success cover all? | 2 SPs, 2 logouts | |
| `signing_keys` | Do rotations keep verifying? | 3 rows of a tenant or of the root, 2 calls, 1 isolate and calls elsewhere, clock to 2 | 2.0 million |
| `signing_keys_works` (violation) | Does everyone sign after an activation? | the same | |
| `administration` | What do administrators' calls, upgrades and first keys keep? | per part: 2 organizations, tenant keys and calls, 1 SP; 2 tenants, calls and row ids, 1 client; 3 SP ids, 2 entity IDs, pages of 1; 2 makers, 3 keys | 2.0 million |
| `lifetimes` | Are rows and certificates there when needed? | 1 SP, 1 sign-on, 2 refreshes, 1 ender, clock to 3; 2 documents, 2 refreshes | 0.2 million |

`isolates`, `administration` and `lifetimes` put modules together that share no state: `part` says which one a behaviour is about.

**Why the bounds are enough.** *ReplayGuard*: requests do not interact (rows are per key), so one
suffices; the clock runs past the end of a row's life and of the SP's window, so that a sweep and a
late copy happen; both are in the run. *SsoFlow*: requests share nothing but sessions, so one is
enough; two handlers race for each value, two sessions are an old and a fresh one, two browsers the
right one and another. A request can be parked twice, so four stored values are never exceeded.
*SingleLogout*: the races are between enders and about one SP at a time, in one run; the chain and
the cap of the list need three SPs and one logout, in the other. `MAX_PARTICIPANTS` is 2 there, so
a list of three is cut. *SigningKeys*: a third row allows an activation after a rotation after a
creation, or the shared row and two own ones; fresh rows are always among the rows in use, as
another isolate without a cache would have them, so one modelled isolate already gives two views.
The cache time, `MinPublished` and `Patience` are all one tick: equal times are the boundary where
`minPublishedSeconds` and `cacheSeconds` just suffice. *Tenants*: two organizations, whose ids are the two tenant keys (the id of one that is not
there is a key like any other), two rows and two births of organizations are
what it takes to give a key or an id twice; two calls race, the crashes of one leave what the next
one meets. *Directories*: the copies of isolates do not meet, so one is enough, and the clock outlives a copy and a
lookup. *Delegation*: two tenants, so that the SP can come back in another one; two calls of either
kind, as each write is judged by what one other may have done since; two row ids, so that a row made again
may have the old one or another. *Backfill*: three rows in pages
of one are a page before, at and after a deleted row; two entity IDs are one to change to. *FirstKey*: two makers, of which one may return for a third key. *Exchange*: records do not
meet, so one assertion; its window is 1 + 2, the clock ends one tick after it, where the sweep takes
the record; a key rotates once. *Participants*: a sign-on before the first refresh and one after it,
a session of 2 ticks refreshed twice and swept, and a mark that outlives its tick. *SpMetadataCache*: the back-off doubles
from 1 through 2 to its cap of 4; no bound on time. Symmetry is used for concurrent calls and for organizations (whose ids name tenants and keys) in
`administration` and for isolates in `isolates`, which have no liveness. `MaxTime`, `MaxRows`, `MaxValues` and the constants with
Max in their names of the later modules are the only bounds on behaviours; the theorems below do not depend on their values.

**Deadlock** is not checked where a system may stop: a request that was answered, a logout that
ended, and the bounds of clock and rows.

**Fairness** is assumed in two runs. In `single_logout_chain`: a logout's handler goes on or dies
(`WF(Logout)`), and a stored hop is answered or expires (`WF(Response \/ Abandon)`). The code
justifies both: a handler is a chain of awaits that settle or throw, and a stored state has
`HOP_TTL_SECONDS` (`slo.ts` l.58-63) after which nobody can consume it. Nothing is assumed of
browsers, SPs or administrators. In `lifetimes`, for `ChangesAreLearned`: time passes, the SP goes on
being used (`WF(Prepare)`: refreshes run only behind requests), and a refresh that is started again
and again is not cancelled every single time before it loads or settles (`SF(Load)`, `SF(Settle)`).
The last is an assumption about the platform: docs/guide/cloudflare-workers.md says that a cancelled refresh recovers by
itself, which is true only of one that is not cancelled for ever.

**Clocks.** All isolates read one clock. ReplayGuard has SP clocks apart from it (`SpAhead`).

### What the violations show

Each run refutes a sentence of the documentation or of a comment (quoted in `PROJECT.json`,
"findings"):

* `replay_guard_lag`: a row's life ends with its request's window; an SP whose clock uses the whole
  skew leaves no room for a handler that is slow between validation and INSERT. `Slack` is the
  condition under which this cannot happen, and the theorems hold under it.
* `sso_flow_deleted`: the session is read before the host's callbacks, not "just before signing".
* `single_logout_told`: a participant recorded between a logout's list and its `forgetParticipants`
  is forgotten untold.
* `single_logout_success`: the second of two logouts of a session answers Success while the first
  is still on its way.
* `signing_keys_works`: the two updates of an activation leave a moment without an active key, and
  an isolate that reads then refuses to sign for a cache time.

`NobodyForgotten` says exactly how far the promise of Single Logout does hold: it excepts those
late sign-ons (`late`) and the SPs of a chain that was lost (`stranded`).

## 5. The theorems

All are proved for every value of the constants that satisfies the module's assumption.

| Theorem | Property | Argument |
|---|---|---|
| `Isolates_proofs!TypeCorrect` | `WellTyped` | by part and action |
| `Isolates_proofs!SweepsOnlyStale` | `SweptIsStale` | `IInv` |
| `Isolates_proofs!ReplaysAreRefused` | `FirstSightWins`, under `Slack` | `IInv` and `StillThere` |
| `Isolates_proofs!GuardIsTestAndSet` | `ImplementsFirstSight`, under `Slack` | refinement, step by step |
| `Isolates_proofs!ExchangedOnce` | `OneVerdict` | `ExInv` |
| `Isolates_proofs!RecordsOutliveWindows` | `KeptWhileValid` | `ExInv` |
| `SsoFlow_proofs!TypeCorrect` | `TypeOK` | `TInv` |
| `SsoFlow_proofs!AtMostOneAnswer` | `OneAnswer` | `RInv` |
| `SsoFlow_proofs!SignedSessionsAreFresh` | `FreshSession` | `GInv` |
| `SsoFlow_proofs!ResumedWhereParked` | `BoundToBrowser` | `GInv` |
| `SsoFlow_proofs!LoginsAreBounded` | `LoopGuard` | `GInv` |
| `SsoFlow_proofs!EndedSessionsGetNothing` | `EndedGetsNothing` | `GInv` |
| `SingleLogout_proofs!TypeCorrect` | `TypeOK` | `TInv` |
| `SingleLogout_proofs!SessionEndsFirst` | `EndsFirst` | `EInv` |
| `SingleLogout_proofs!SuccessIsAlwaysEarned` | `SuccessIsEarned`, under `FewSPs` | `SInv` |
| `SingleLogout_proofs!HidingIsEarned` | `OnlyLogoutsSilence` | `MInv` |
| `SingleLogout_proofs!AloneIsSilent` | `OwnLogoutIsSilent` | `AInv` |
| `SingleLogout_proofs!NobodyIsForgotten` | `NobodyForgotten`, under `FewSPs` | `NInv` |
| `SigningKeys_proofs!TypeCorrect` | `TypeOK` | by action |
| `SigningKeys_proofs!AlwaysRecoverable` | `Recoverable` | `IInv` |
| `SigningKeys_proofs!SharedKeyIsOut` | `SharedExpires` | `OInv` |
| `SigningKeys_proofs!RetiredStaysRetired` | `RetiredIsFinal`, under `NextOutlastsCalls` | `KInv` |
| `SigningKeys_proofs!AlwaysPublished` | `SignerIsPublished`, under `PublishedLongEnough` and `RetireWaits` | `VInv` |
| `Tenants_proofs!TenantsHaveTheirTypes` | `TypesOK` (`TenantsTypeOK`) | by action |
| `Tenants_proofs!KeysAreGivenOnce` | `KeyGivenOnce` | `KInv` |
| `Tenants_proofs!SpsKeepTheirTenant` | `NoOrphans` | `SInv` |
| `Tenants_proofs!TenantsAreNotInherited` | `NeverInherited` | `SInv` |
| `Tenants_proofs!TenantsSignWithTheirOwn` | `SignsWithItsOwn` | `SInv` |
| `Directories_proofs!DirectoryIsAView` | `TenantsAreFresh` | refinement, with `DInv` |
| `Directories_proofs!SpDirectoryIsAView` | `SpsAreFresh` | refinement, with `SpInv` |
| `Directories_proofs!SwitchedOffIsKept` | `SwitchedOffStaysOff` | `WInv` |
| `Administration_proofs!TypeCorrect` | `TypeOK` | by part and action |
| `Administration_proofs!DelegatesStayInScope` | `StaysDelegated` | `DelInv` |
| `Administration_proofs!BackfillFindsEverySp` | `EverySpIsFound` | `BInv` |
| `Administration_proofs!RootKeepsAKey` | `KeepsAKey` | `KeepsInv` |
| `Administration_proofs!RootHasOneFirstKey` | `OneFirstKey` | `OneInv` |
| `Lifetimes_proofs!TypeCorrect` | `TypeOK` | by part and action |
| `Lifetimes_proofs!ParticipantsLiveOn` | `ParticipantsOutlive` | `InTime` |
| `Lifetimes_proofs!EndsAreNotHidden` | `EndsAreShown` | `EndInv` |

The theorems are about the specification of a part (`ParticipantsSpec`, `BackfillSpec`, ...); only the three
`TypeCorrect` of `Isolates`, `Administration` and `Lifetimes` are about the modules that put parts together.
As the parts share no variable and a behaviour of such a module is about one part, nothing more follows from
the whole.

* **ReplayGuard.** `SweptIsStale` is not inductive: nothing in it says why a sweep may not take a
  row too early. `IInv` adds what an expiry means: a row outlives every instant at which its
  request can pass the window check, a handler that passed did so at most `MaxLag` ago, and a swept
  row is past all of that. `StillThere` then says that a handler with a checked request whose row
  was ever written finds the row still there, so its INSERT is refused.
* **SsoFlow.** `OneAnswer` counts; `RInv` says who may still add to the count: for each request
  there is at most one *holder of the right to answer* (a handler in one of the places `Holding`,
  or a stored value), none before it is recorded, and none once it is answered. Recording makes
  the holder, storing and consuming move it, answering ends it, crashes and expiry destroy it.
  As there is one holder, what the histories say of a request can be written as what its holder
  carries, and that is `GInv`: the freshness it owes is in its `force` and `since` (`OwedSince`), the
  browser it was parked in is its browser, and the parks behind it are at most one, or two if it is
  a ForceAuthn request that its message did not ask for (`ParksBy`). A stored value that somebody can be sent back from has a
park behind it (`BackInv`). A step of another handler cannot
  disturb this (`QuietStep`), and a step of the holder writes the histories of its own request only
  (`HolderStep`). The sessions that were over when a handler began to issue stay so (`JobGood`).
* **SingleLogout.** Types need to know that a chain which waits has somebody to wait for, and that a
  deletion by the host never enters a chain (`TInv`). `EInv` adds where an ender may stand before
  the session is gone: in front of its delete, which throws or ends the session. `SInv` is the
  bookkeeping behind `SuccessIsEarned`: from its list on, a logout not known to be partial has
  confirmed, still has to tell, or waits for every SP it expected, so that with nobody left nothing
  but confirmations remains. It needs the list to have been complete: `FewSPs` keeps the number of
  SPs within one read, as the limit of a read counts ended rows that it filters out afterwards
  (storage/participants.ts l.63: `MAX_PARTICIPANTS + 1`). `MInv`: every mark of an isolate is owned by a logout of
  that isolate that has listed and has not failed, so a hook that is silent in the isolate is silent for
  that logout. `AInv`: a logout that nobody has joined still has its mark when its hook runs, so if it
  is not stale (`slow`) it never gets to the read that reports. `NInv` says where a *timely* SP is at each moment: up to a
  logout's `forgetParticipants` every such SP whose row is active is expected by it (`Listed`) and not yet
  crossed off (`Booked`), and a hook that is about to report has it in its report, or the report is full
  (`Hooked`); a row is marked ended only after a report, and a row that is gone is in the hands of a logout that is
  partial, has told it, will tell it, was asked by it, or has lost its chain (`DropIsKnown`). `FewSPs` is
  needed again, for a list that is cut without a word.
* **SigningKeys.** `Recoverable` breaks if a call that read the rows long ago demotes or retires
  the only usable one. `IInv` follows the *latest* row, the one last published as next (or the first): it is
  still next or active and has its key; rows that some call is about to retire or demote lie before
  it. Only a newer next key, which becomes the latest itself, lets a call touch it.

  The three properties about the clock are proved in steps, each an inductive invariant on the one before.
  `Paced`: no call, load or copy is older than it may be, and at most one row is active and one is next.
  `Owned` and `Evidence` (`OInv`): once the owner has had an active key of its own, the table and every copy read since
  show a use of an own key, or `KeepRetired` retired rows of the shared one; that is `SharedKeyIsOut`.
  `Lone`, `Orderly` (`KInv`): at most one creation is under way, and calls that overlap agree on what they do. Two
  activations of a next key want the same thing of the same rows, and no rotation that began before
  the key was published is still waiting for its INSERT when it may be activated. For this the hypothesis
  `NextOutlastsCalls` (`MinPublished > 2 * Lag`): from a rotation's read to the end of an activation there
  are two calls. It gives `RetiredStaysRetired`: what is retired is nobody's `next` any more, and what is being retired
  is nobody's `active`. `Handover`: an owner with an own key always has an active or a previous one, and before the
  first retirement the shared row is there. `Good(v, t)` says of a copy v that is used until t which rows the other isolates
  must go on publishing for it: the one it signs with, or the shared key's, or the first key it has not
  seen. Such a row is not retired, nobody is about to retire it, and if it is previous it will not be
  retired before t (`Fading`). `InSight` is the converse for the shared key: who signs with an own key still
  publishes it while anybody may sign with it. So `AlwaysPublished`, under `PublishedLongEnough`
  (`MinPublished >= CacheTime + 2 * Lag`: a copy read before the rotation's INSERT is out before the key is active)
  and `RetireWaits` (`Patience >= CacheTime + Lag`). The code's defaults, 86400 s of publication and 60 s of
  cache (options.ts l.744-791), satisfy the first with any call that takes less than half a day; but
  `minPublishedSeconds` may be set to 0. The second is advice of the documentation that no code enforces. `signing_keys` runs
  on the boundary of both, with no lag. A cache time of 0, which the options allow, is left out.

* **Tenants.** `KeyGivenOnce` rests on an order in the code: a delete retires before it removes,
  and a create looks at the retired keys again after its INSERT. `KInv` makes an argument of it:
  row ids are never reused (`RowsOK`, an assumption of the model), a create's row is its own until it answers (`CreatingOK`), a
  delete takes only the row whose key it has retired (`RemovingOK`); so every create before its second look
  and every tenant given its key for good still has its row, or its key is retired by now (`HeldOK`). As the
  column is UNIQUE (`UniqueOK`), a create that finds its key not retired has the one row with it, and nobody
  was given it before (`OneOK`). It proves nothing of creates that stop before they act on that look. `SInv` is about SPs and signing keys: the tenant of an SP is in place and
  nobody is past the look that would have found the SP (`SpsOK`), with what the call that registered
  it had read (`SpCallsOK`, `PlacesOK`).
* **Directories.** A tenant's row and its organization are read at different times, so it is not
  obvious that what they give was ever true at once. `DInv` says why: no birth comes again
  (`BornOK`), so if the second read finds the row's, that organization was there all along since the
  first read, and whatever the lookup concludes was true at some instant of it (`LookupOK`).
  `ServedOK` and `CacheOK` carry this through time and the cache. An SP is one row, so what the read
  finds was in force when it was read (`ForceOK`, `FoundOK`, `KeptOK`). `SwitchedOffIsKept` is about the
  registry: an edit that has read an enabled row, and was not overtaken, finds the row with that id enabled
  (`KnowsOK`), as ids are numbered as rows are made and never come again (`IdsOK`).
* **Delegation.** A call's write comes long after its checks. Its row may have been replaced: by one with another id, and the
  write finds nothing, or by one with the same id, and the call is mistaken. If it is not, the row is
  the one the call had read, whose tenant no edit changes (`ScopeOK`). The client in a delegated call's
  config is none, or the one in the row, or the call is overtaken and the client one the host gave this row before (`NamedOK`); what is known of
  clients given (`GrantedOK`) holds until a mistaken call has written to the row.
* **Backfill.** Every SP that was there at the start is still ahead of the run, or the run is done with it
  (`Reached`). For pages this is about places: a page is taken by its offset, and the place of a row is the
  number of rows before it, which grows with INSERTs and shrinks only with a deletion (`shrunk`). The lemma that
  matters is `FullPage`: if a row lies past a page, every place in the page is taken, so the page was full and the run
  goes on. It needs that no place is left out, an induction over a finite set, done here with the least element of a set of
  numbers (`LeastOf`, from the well-foundedness of < on Nat) instead.
* **FirstKey.** A repair deletes only keys that are later than one there is (`LeavesEarlier`), so
  what it deletes leaves an earlier one, whatever other repairs do. As long as nobody is cut short,
  every key but the earliest is still to be seen by a writer that will read again, or about to be
  deleted by one that has (`Watched`).
* **Exchange.** An assertion's record, the call that has taken it and its verdict exclude each other
  (`RecordsOK`, `OnceOK`), and a record that is gone has expired or was taken (`GoneOK`). Its expiry
  is the end of the window and leeway, the very bound that `Expired` compares with.
* **Participants.** A row is as old as its session, or a refresh is on its way to it with the session's own
  expiry (`Coming`); all other rows are in `behind`, which says how they got there. The end of a session is its deletion, and as
  that succeeds once there is one delete hook (`EndsOnce`). It ends the rows, unless a mark
  silences it; the mark is that of a logout which will forget them, or one left by a logout that died
  (`MarksOK`). From the deletion on there is such a hook, such a logout, or nothing left to show (`Seen`).

TLC had checked every property, and every inductive invariant of Delegation, Backfill and Participants, before it
was proved. The proofs still found what the small instances could not show: `SharedExpires` in its former form was
false from about eight rows on, `RetiredIsFinal` from three calls and four rows on (both in section 3), and the
values that stand for "no row" (`Unset`, `NoKey`, `NoTime`) had to be assumed not to be rows, which the
model values of a run are not.

**Assumptions.** Besides the hypotheses in the table there are the assumptions of the modules on their
constants: bounds and times are numbers, sets are disjoint where the program tells their elements
apart, and the values that stand for "none" are nothing else.

**Left to TLC:** the two liveness properties, `EveryLogoutEnds` and `ChangesAreLearned`, as the prover has no
support for liveness under fairness and for ENABLED. Every invariant and every action property of a
passing run is a theorem. Induction over data is out of the prover's reach as well; the one place that
needed it is the backfill, see above. None of the modules uses recursive operators.

## 6. Not modelled

* The contents of messages, XML, signatures, encryption, attributes and NameIDs: functions of one
  message. Validation is a choice between passing and failing, except for the instants that
  ReplayGuard compares.
* Logout and lifetimes at once: SingleLogout's session does not expire within a run, and the
  enders of Participants tell nobody. More than 200 rows of an *ended* session
  that hide a live one from a list: the read is modelled, the bounds do not reach it.
* A shared key that rotates itself: for the tenants, the root's key is one constant, also where it is
  managed, so a tenant's `shared` row never falls behind it.
* SPs in code, the validation of stored configurations and membership rules: functions of what one call reads.
* Events: best effort by design, except what `session.ended` names.
* Configuration, schema, command line, tests, examples and the WASM validator.

## 7. Plan

Done, in this order: ReplayGuard with FirstSight; SsoFlow; SingleLogout; SigningKeys; Tenants;
StaleView with TenantDirectory and SpDirectory; FirstKey; Exchange; Participants; SpMetadataCache;
Delegation; Backfill; the proofs of every safety property of these.

Next, by what could go wrong most quietly:

1. **SigningKeys with a shared key that rotates**: the root and a tenant side by side, so that the
   certificate a tenant records as `shared` may be the root's previous one.
2. **Sign-on with stale directories**: SsoFlow with the SP and the tenant as StaleView gives them,
   so that an SP that is edited in the middle of a flow meets the checks of `issueResponse`.
3. **The safety core of the two liveness properties**: for `EveryLogoutEnds`, that every step of a logout's own
   brings it closer to its end (a measure over places and SPs that are left), as an action property that can be proved.
