----------------------------- MODULE SpDirectory -----------------------------
(***************************************************************************)
(* One stored SP: the registry's calls that create, edit, switch and       *)
(* delete its row (endpoints/registry.ts), and the record every isolate's  *)
(* SpDirectory (saml/sp-directory.ts) finds and caches for it - or that it *)
(* found none.                                                             *)
(*                                                                         *)
(* A call reads the row, and then writes by its id; an edit writes back    *)
(* what it read of `enabled` when it was not asked to change it.           *)
(*                                                                         *)
(* Row ids are not given out again while a call for the old row is on its  *)
(* way: as with Better Auth's own ids, unlike the serial ids of SQLite and *)
(* D1 (docs/guide/multi-tenant.md), where its write would hit the new row. *)
(***************************************************************************)
EXTENDS Naturals

CONSTANTS
  SpHosts,       \* isolates or processes, each with its own directory
  RegistryCalls, \* concurrent calls of the registry API
  SpConfigs,     \* configs of the SP
  SpCacheTime,   \* registry.cacheSeconds
  SpLag,         \* hypothesis: how long a lookup may take
  SpMaxTime,     \* bound: the clock
  SpMaxRows,     \* bound: rows ever made for the SP's id
  Missing        \* no row, no SP; not given; not cached

ASSUME SpDirectoryAssumption ==
  /\ SpCacheTime \in Nat \ {0} /\ SpLag \in Nat /\ SpMaxTime \in Nat /\ SpMaxRows \in Nat
  /\ Missing \notin SpConfigs \cup Nat \cup SpHosts \cup BOOLEAN

VARIABLES
  spNow,       \* the clock
  spRow,       \* the SP's row
  rowsMade,    \* how many there ever were
  edit,        \* the calls of the registry
  spCache,     \* what an isolate cached, and until when
  spLookup,    \* a lookup on its way: what it has read, and when
  spAnswering, \* (history) the answer an isolate is giving, if any
  lastInForce  \* (history) when a config, or none, was last in force

spVars == <<spNow, spRow, rowsMade, edit, spCache, spLookup, spAnswering, lastInForce>>

SpRow == [id : 1..SpMaxRows, config : SpConfigs, enabled : BOOLEAN]
SpAnswers == SpConfigs \cup {Missing}
Edits ==  \* overtaken (history): the SP was switched off after the call had read its row
  [pc : {"idle", "write", "delete", "flush"}, home : SpHosts \cup {Missing}, id : 0..SpMaxRows,
   config : SpAnswers, was : BOOLEAN, enabled : BOOLEAN \cup {Missing}, overtaken : BOOLEAN]

SpTypeOK ==
  /\ spNow \in Nat
  /\ spRow \in SpRow \cup {Missing}
  /\ rowsMade \in 0..SpMaxRows
  /\ edit \in [RegistryCalls -> Edits]
  /\ spCache \in [SpHosts -> [sp : SpAnswers, until : Nat] \cup {Missing}]
  /\ spLookup \in [SpHosts -> [sp : SpAnswers, at : Nat] \cup {Missing}]
  /\ spAnswering \in [reader : SpHosts, value : SpAnswers] \cup {Missing}
  /\ lastInForce \in [SpAnswers -> Nat \cup {Missing}]

NoEdit ==
  [pc |-> "idle", home |-> Missing, id |-> 0, config |-> Missing, was |-> FALSE,
   enabled |-> Missing, overtaken |-> FALSE]

SpInit ==
  /\ spNow = 0 /\ spRow = Missing /\ rowsMade = 0
  /\ edit = [c \in RegistryCalls |-> NoEdit]
  /\ spCache = [h \in SpHosts |-> Missing]
  /\ spLookup = [h \in SpHosts |-> Missing]
  /\ spAnswering = Missing
  /\ lastInForce = [v \in SpAnswers |-> IF v = Missing THEN 0 ELSE Missing]

-----------------------------------------------------------------------------
(* fromRow: a disabled row is no SP. *)
FromRow(row) == IF row # Missing /\ row.enabled THEN row.config ELSE Missing

(* A write of call c, which goes on to flush its isolate's copies. *)
Put(c, row) ==
  /\ spRow' = row
  /\ lastInForce' = [lastInForce EXCEPT ![FromRow(row)] = spNow]
  /\ edit' = [d \in RegistryCalls |->
                IF d = c THEN [NoEdit EXCEPT !.pc = "flush", !.home = edit[c].home]
                ELSE IF FromRow(spRow) # Missing /\ FromRow(row) = Missing /\ edit[d].pc = "write"
                  THEN [edit[d] EXCEPT !.overtaken = TRUE] ELSE edit[d]]
  /\ spAnswering' = Missing
  /\ UNCHANGED <<spNow, spCache, spLookup>>

Begun(c, job) ==
  /\ edit[c].pc = "idle"
  /\ edit' = [edit EXCEPT ![c] = job]
  /\ spAnswering' = Missing
  /\ UNCHANGED <<spNow, spRow, rowsMade, spCache, spLookup, lastInForce>>

(* samlIdpCreateServiceProvider: the UNIQUE id decides. *)
CreateServiceProvider(c, h, config, on) ==
  /\ edit[c].pc = "idle" /\ spRow = Missing /\ rowsMade < SpMaxRows
  /\ LET row == [id |-> rowsMade + 1, config |-> config, enabled |-> on] IN
       /\ spRow' = row
       /\ lastInForce' = [lastInForce EXCEPT ![FromRow(row)] = spNow]
  /\ edit' = [edit EXCEPT ![c] = [NoEdit EXCEPT !.pc = "flush", !.home = h]]
  /\ rowsMade' = rowsMade + 1
  /\ spAnswering' = Missing
  /\ UNCHANGED <<spNow, spCache, spLookup>>

(* samlIdpUpdateServiceProvider reads the row. A config, `enabled`, or both are given. *)
UpdateServiceProvider(c, h, config, on) ==
  /\ spRow # Missing
  /\ config # Missing \/ on # Missing
  /\ Begun(c, [pc |-> "write", home |-> h, id |-> spRow.id, config |-> config,
               was |-> spRow.enabled, enabled |-> on, overtaken |-> FALSE])

(* Faulty: an edit that says nothing of `enabled` takes the default of create. *)
Merged_default(row, job) ==
  [row EXCEPT !.config = IF job.config = Missing THEN @ ELSE job.config,
              !.enabled = IF job.enabled = Missing THEN TRUE ELSE job.enabled]

(* Faulty: what is not given is written all the same. *)
Merged_overwrites(row, job) ==
  [row EXCEPT !.config = job.config, !.enabled = IF job.enabled = Missing THEN job.was ELSE job.enabled]

(* Only `enabled`, and the config is untouched; or the config, and `enabled` as it was read. *)
Merged(row, job) ==
  [row EXCEPT !.config = IF job.config = Missing THEN @ ELSE job.config,
              !.enabled = IF job.enabled = Missing THEN job.was ELSE job.enabled]

WriteServiceProvider(c) ==
  /\ edit[c].pc = "write"
  /\ Put(c, IF spRow # Missing /\ spRow.id = edit[c].id THEN Merged(spRow, edit[c]) ELSE spRow)
  /\ UNCHANGED rowsMade

(* samlIdpDeleteServiceProvider. *)
DeleteServiceProvider(c, h) ==
  /\ spRow # Missing
  /\ Begun(c, [NoEdit EXCEPT !.pc = "delete", !.home = h, !.id = spRow.id])

EraseServiceProvider(c) ==
  /\ edit[c].pc = "delete"
  /\ Put(c, IF spRow # Missing /\ spRow.id = edit[c].id THEN Missing ELSE spRow)
  /\ UNCHANGED rowsMade

(* invalidate() in the call's isolate. *)
Flush(c) ==
  /\ edit[c].pc = "flush"
  /\ spCache' = [spCache EXCEPT ![edit[c].home] = Missing]
  /\ edit' = [edit EXCEPT ![c] = NoEdit]
  /\ spAnswering' = Missing
  /\ UNCHANGED <<spNow, spRow, rowsMade, spLookup, lastInForce>>

CrashEdit(c) ==
  /\ edit[c].pc # "idle"
  /\ edit' = [edit EXCEPT ![c] = NoEdit]
  /\ spAnswering' = Missing
  /\ UNCHANGED <<spNow, spRow, rowsMade, spCache, spLookup, lastInForce>>

-----------------------------------------------------------------------------
Cached(h) == spCache[h] # Missing /\ spNow < spCache[h].until

(* SpDirectory.stored: from the cache, ... *)
FindCached(h) ==
  /\ Cached(h)
  /\ spAnswering' = [reader |-> h, value |-> spCache[h].sp]
  /\ UNCHANGED <<spNow, spRow, rowsMade, edit, spCache, spLookup, lastInForce>>

(* ... or the row is read, ... *)
ReadSp(h) ==
  /\ ~Cached(h) /\ spLookup[h] = Missing
  /\ spLookup' = [spLookup EXCEPT ![h] = [sp |-> FromRow(spRow), at |-> spNow]]
  /\ spAnswering' = Missing
  /\ UNCHANGED <<spNow, spRow, rowsMade, edit, spCache, lastInForce>>

(* Faulty: what is used goes on being kept. *)
Remember_longer(h) ==
  /\ spLookup[h] # Missing
  /\ spCache' = [spCache EXCEPT ![h] = [sp |-> spLookup[h].sp, until |-> spNow + SpCacheTime + SpLag]]
  /\ spAnswering' = [reader |-> h, value |-> spLookup[h].sp]
  /\ spLookup' = [spLookup EXCEPT ![h] = Missing]
  /\ UNCHANGED <<spNow, spRow, rowsMade, edit, lastInForce>>

(* ... remembered, a miss too and whatever was flushed in between, and given. *)
Remember(h) ==
  /\ spLookup[h] # Missing
  /\ spCache' = [spCache EXCEPT ![h] = [sp |-> spLookup[h].sp, until |-> spNow + SpCacheTime]]
  /\ spAnswering' = [reader |-> h, value |-> spLookup[h].sp]
  /\ spLookup' = [spLookup EXCEPT ![h] = Missing]
  /\ UNCHANGED <<spNow, spRow, rowsMade, edit, lastInForce>>

SpTick ==
  /\ spNow < SpMaxTime
  /\ \A h \in SpHosts : spLookup[h] # Missing => spNow < spLookup[h].at + SpLag
  /\ spNow' = spNow + 1
  /\ lastInForce' = [lastInForce EXCEPT ![FromRow(spRow)] = spNow + 1]
  /\ spAnswering' = Missing
  /\ UNCHANGED <<spRow, rowsMade, edit, spCache, spLookup>>

SpNext ==
  \/ \E c \in RegistryCalls :
       \/ \E h \in SpHosts :
            \/ \E config \in SpConfigs, on \in BOOLEAN : CreateServiceProvider(c, h, config, on)
            \/ \E config \in SpAnswers, on \in BOOLEAN \cup {Missing} :
                 UpdateServiceProvider(c, h, config, on)
            \/ DeleteServiceProvider(c, h)
       \/ WriteServiceProvider(c) \/ EraseServiceProvider(c) \/ Flush(c) \/ CrashEdit(c)
  \/ \E h \in SpHosts : FindCached(h) \/ ReadSp(h) \/ Remember(h)
  \/ SpTick

SpSpec == SpInit /\ [][SpNext]_spVars

-----------------------------------------------------------------------------
InForce == INSTANCE StaleView WITH
  Readers <- SpHosts, Values <- SpAnswers, Delay <- SpCacheTime + SpLag, Never <- Missing,
  clock <- spNow, truth <- FromRow(spRow), lastTrue <- lastInForce, told <- spAnswering

(* An SP that was changed, switched off or deleted, in any isolate, is used for less  *)
(* than a cache time and a lookup more, and a new one is not missed for longer.       *)
SpsAreFresh == InForce!ViewSpec

(* An SP that was switched off comes on again only by a call that asks for it; an     *)
(* edit that does not mention `enabled` may do so only if it had read the row before. *)
SwitchedOffStaysOff ==
  [][spRow # Missing /\ spRow' # Missing /\ spRow.id = spRow'.id /\ ~spRow.enabled /\ spRow'.enabled =>
       \E c \in RegistryCalls :
         /\ edit[c].pc = "write" /\ edit'[c].pc = "flush"
         /\ edit[c].enabled = TRUE \/ edit[c].overtaken]_spVars
=============================================================================
