------------------------------- MODULE Backfill -------------------------------
(***************************************************************************)
(* The upgrade of a registry that has SPs to tenants: rows from before     *)
(* have no lookup key, and no lookup finds them, until the backfill gave   *)
(* them theirs (samlIdpBackfillServiceProviderKeys, or on MongoDB          *)
(* backfillMongoServiceProviderKeys, of endpoints/tenants.ts). Meanwhile   *)
(* the registry goes on: administrators create, edit and delete SPs.       *)
(*                                                                         *)
(* The endpoint reads pages of the table by offset, in the order of the    *)
(* SPs' ids, and writes what it computed from a page row by row; tenants   *)
(* are on. The one for MongoDB reads all documents without a key, and runs *)
(* before tenants are turned on, or after.                                 *)
(* UNIQUE(entityId) is still there: the guide drops it afterwards.         *)
(***************************************************************************)
EXTENDS FiniteSets, Naturals

CONSTANTS
  MaxSpId,       \* SP ids are 1..MaxSpId, in their order; none is used twice
  EntityIds,     \* a lookup key stands for the entity ID it is the hash of
  PageSize,      \* BACKFILL_PAGE
  NoKey          \* no lookup key yet; no row

SpIds == 1..MaxSpId
SpTableRow == [entity : EntityIds, key : EntityIds \cup {NoKey}, readable : BOOLEAN]

ASSUME BackfillAssumption ==
  MaxSpId \in Nat /\ PageSize \in Nat \ {0} /\ NoKey \notin EntityIds \cup SpTableRow

VARIABLES
  mongo,     \* which of the two backfills is run
  tenantsOn, \* tenants.enabled: the registry writes keys
  table,     \* the SPs' rows
  used,      \* SP ids that have been given out
  offset,    \* what findMany skips
  page,      \* the rows of the page that are still to be done, as they were read
  wasFull,   \* the page had PageSize rows
  step,      \* "idle", "read", "write", or "done": the backfill has just returned
  reported,  \* SPs it returns in `skipped` or `failed`
  atStart,   \* (history) the SPs there were when it began
  shrunk,    \* (history) an SP was deleted while it ran
  raced      \* (history) SPs whose last edit came after their page was read, or left an old key

backfillVars ==
  <<mongo, tenantsOn, table, used, offset, page, wasFull, step, reported, atStart, shrunk, raced>>
run == <<offset, page, wasFull, step, reported, atStart>>

InTable == {s \in SpIds : table[s] # NoKey}

BackfillTypeOK ==
  /\ mongo \in BOOLEAN /\ tenantsOn \in BOOLEAN
  /\ table \in [SpIds -> SpTableRow \cup {NoKey}]
  /\ used \subseteq SpIds
  /\ offset \in Nat
  /\ page \in [SpIds -> SpTableRow \cup {NoKey}]
  /\ wasFull \in BOOLEAN
  /\ step \in {"idle", "read", "write", "done"}
  /\ reported \subseteq SpIds /\ atStart \subseteq SpIds /\ raced \subseteq SpIds
  /\ shrunk \in BOOLEAN

NoPage == [s \in SpIds |-> NoKey]

(* Keys are UNIQUE, and so are entity IDs; the rows from before have no key. *)
BackfillInit ==
  /\ mongo \in BOOLEAN /\ tenantsOn = ~mongo
  /\ table \in [SpIds -> {r \in SpTableRow : r.key = NoKey} \cup {NoKey}]
  /\ \A s, t \in InTable : table[s].entity = table[t].entity => s = t
  /\ used = InTable
  /\ offset = 0 /\ page = NoPage /\ wasFull = FALSE /\ step = "idle"
  /\ reported = {} /\ atStart = {} /\ shrunk = FALSE /\ raced = {}

-----------------------------------------------------------------------------
(* The UNIQUE columns; MongoDB writes nothing while it can't build the index of keys. *)
Free(s, e) ==
  /\ \A t \in InTable \ {s} : table[t].entity # e /\ (tenantsOn => table[t].key # e)
  /\ mongo /\ tenantsOn => \A t, u \in InTable : table[t].key = table[u].key => t = u

(* keyColumns: with tenants off, a row keeps the key it has, or has none. *)
KeyColumn(e, had) == IF tenantsOn THEN e ELSE had

CreateRow(s, e) ==
  /\ s \notin used /\ Free(s, e)
  /\ table' = [table EXCEPT ![s] = [entity |-> e, key |-> KeyColumn(e, NoKey), readable |-> TRUE]]
  /\ used' = used \cup {s}
  /\ UNCHANGED <<mongo, tenantsOn, run, shrunk, raced>>

EditRow(s, e) ==
  /\ s \in InTable /\ Free(s, e)
  /\ table' = [table EXCEPT ![s] =
                 [entity |-> e, key |-> KeyColumn(e, @.key), readable |-> TRUE]]
  /\ raced' = IF page[s] = NoKey /\ KeyColumn(e, table[s].key) \in {e, NoKey}
                THEN raced \ {s} ELSE raced \cup {s}
  /\ UNCHANGED <<mongo, tenantsOn, used, run, shrunk>>

DropRow(s) ==
  /\ s \in InTable
  /\ table' = [table EXCEPT ![s] = NoKey]
  /\ shrunk' = (shrunk \/ step \in {"read", "write"})
  /\ UNCHANGED <<mongo, tenantsOn, used, run, raced>>

(* On MongoDB the host turns tenants on when it likes. *)
TurnOn ==
  /\ ~tenantsOn
  /\ tenantsOn' = TRUE
  /\ UNCHANGED <<mongo, table, used, run, shrunk, raced>>

-----------------------------------------------------------------------------
(* A run begins, for the first time or again. *)
BeginBackfill ==
  /\ step \in {"idle", "done"}
  /\ step' = "read" /\ offset' = 0 /\ page' = NoPage /\ wasFull' = FALSE
  /\ reported' = {} /\ atStart' = InTable /\ shrunk' = FALSE
  /\ UNCHANGED <<mongo, tenantsOn, table, used, raced>>

(* An SP's place in the table, sorted by spId. *)
Place(s) == Cardinality({t \in InTable : t < s})

(* Faulty: only the rows without a key are counted, so that those done shift the pages. *)
InPage_keyless(s) ==
  /\ table[s].key = NoKey
  /\ LET before == Cardinality({t \in InTable : t < s /\ table[t].key = NoKey})
     IN mongo \/ (offset <= before /\ before < offset + PageSize)

(* One page of all the rows; or on MongoDB every document that lacks the key. *)
InPage(s) ==
  IF mongo THEN table[s].key = NoKey
  ELSE offset <= Place(s) /\ Place(s) < offset + PageSize

(* findMany, or find. *)
ReadPage ==
  /\ step = "read"
  /\ LET found == {s \in InTable : InPage(s)} IN
       /\ page' = [s \in SpIds |-> IF s \in found THEN table[s] ELSE NoKey]
       /\ wasFull' = (~mongo /\ Cardinality(found) >= PageSize)
  /\ step' = "write"
  /\ UNCHANGED <<mongo, tenantsOn, table, used, offset, reported, atStart, shrunk, raced>>

(* An UPDATE by the row's id; on MongoDB it also asks that there still is no key. *)
Hits(s) == s \in InTable /\ (mongo => table[s].key = NoKey)

(* The key of the entity ID that was read; one that another row has is refused, except on *)
(* MongoDB, which may have no index yet.                                                  *)
GiveKey(s) ==
  LET e == page[s].entity IN
  IF Hits(s)
    THEN /\ mongo \/ \A t \in InTable \ {s} : table[t].key # e
         /\ table' = [table EXCEPT ![s].key = e]
    ELSE UNCHANGED table

(* The page's rows in their order: one that has a key is left alone, one whose config *)
(* can't be read is skipped, and one whose write fails is reported.                   *)
WriteKeyOf(s) ==
  /\ step = "write" /\ page[s] # NoKey
  /\ \A t \in SpIds : t < s => page[t] = NoKey
  /\ page' = [page EXCEPT ![s] = NoKey]
  /\ IF page[s].key # NoKey THEN UNCHANGED <<table, reported>>
     ELSE \/ page[s].readable /\ GiveKey(s) /\ UNCHANGED reported
          \/ reported' = reported \cup {s} /\ UNCHANGED table
  /\ UNCHANGED <<mongo, tenantsOn, used, offset, wasFull, step, atStart, shrunk, raced>>

(* The next page, or the end: fewer rows than a page is the last of them. *)
NextPage ==
  /\ step = "write" /\ page = NoPage
  /\ IF wasFull THEN step' = "read" /\ offset' = offset + PageSize
     ELSE step' = "done" /\ UNCHANGED offset
  /\ UNCHANGED <<mongo, tenantsOn, table, used, page, wasFull, reported, atStart, shrunk, raced>>

(* The script dies, or a page can't be read: nothing is returned, and it is run again. *)
CrashBackfill ==
  /\ step \in {"read", "write"}
  /\ step' = "idle" /\ page' = NoPage
  /\ UNCHANGED <<mongo, tenantsOn, table, used, offset, wasFull, reported, atStart, shrunk, raced>>

BackfillNext ==
  \/ \E s \in SpIds : DropRow(s) \/ \E e \in EntityIds : CreateRow(s, e) \/ EditRow(s, e)
  \/ TurnOn \/ BeginBackfill \/ ReadPage \/ NextPage \/ CrashBackfill
  \/ \E s \in SpIds : WriteKeyOf(s)

BackfillSpec == BackfillInit /\ [][BackfillNext]_backfillVars

-----------------------------------------------------------------------------
(* "Check both are empty": when a backfill has returned, every SP that was there when *)
(* it began can be found under its entity ID, or it is reported, whatever the registry*)
(* did meanwhile and whatever earlier runs were cut short. The endpoint's pages do not*)
(* hold that when an SP was deleted; and neither backfill does for an SP that was     *)
(* edited between its read and its write, or that has the key of an earlier entity ID:*)
(* an edit with tenants off does not touch a key that MongoDB's has written already.  *)
EverySpIsFound ==
  step = "done" =>
    \A s \in (atStart \cap InTable) \ raced :
      \/ table[s].key = table[s].entity
      \/ s \in reported
      \/ ~mongo /\ shrunk
=============================================================================
