--------------------------- MODULE TenantDirectory ---------------------------
(***************************************************************************)
(* The tenant of one organization id as an isolate's TenantDirectory       *)
(* (saml/tenant-directory.ts) finds it: the tenant's row and the           *)
(* organization are read one after the other, compared, and what came of   *)
(* it, a tenant or none, is cached. Meanwhile administrators change both   *)
(* (Tenants), in any isolate.                                              *)
(***************************************************************************)
EXTENDS Naturals

CONSTANTS
  Hosts,          \* isolates or processes, each with its own directory
  DirKeys,        \* tenant keys
  DirCacheTime,   \* tenants.cacheSeconds
  DirLag,         \* hypothesis: how long a lookup may take
  DirMaxTime,     \* bound: the clock
  DirMaxBorn,     \* bound: organizations ever made
  Absent          \* no tenant; nothing read, cached or told

ASSUME DirectoryAssumption ==
  /\ DirCacheTime \in Nat \ {0} /\ DirLag \in Nat /\ DirMaxTime \in Nat /\ DirMaxBorn \in Nat
  /\ Absent \notin DirKeys \cup Nat \cup Hosts

VARIABLES
  dirNow,      \* the clock
  orgBorn,     \* the createdAt of the organization that has the id; 0: none has
  orgsMade,    \* how many there ever were
  tenantRow,   \* the tenant's row
  dirCache,    \* what an isolate cached, and until when
  lookup,      \* a lookup on its way: the row it has read, and when
  answering,   \* (history) the answer an isolate is giving, if any
  lastServed   \* (history) when a tenant, or none, was last the true answer

dirDb == <<orgBorn, orgsMade, tenantRow>>
directoryVars == <<dirNow, dirDb, dirCache, lookup, answering, lastServed>>

DirRow == [key : DirKeys, born : 1..DirMaxBorn, enabled : BOOLEAN]
Answers == DirKeys \cup {Absent}

DirectoryTypeOK ==
  /\ dirNow \in Nat
  /\ orgBorn \in 0..DirMaxBorn /\ orgsMade \in 0..DirMaxBorn
  /\ tenantRow \in DirRow \cup {Absent}
  /\ dirCache \in [Hosts -> [tenant : Answers, until : Nat] \cup {Absent}]
  /\ lookup \in [Hosts -> [row : DirRow, at : Nat] \cup {Absent}]
  /\ answering \in [reader : Hosts, value : Answers] \cup {Absent}
  /\ lastServed \in [Answers -> Nat \cup {Absent}]

(* The true answer: the enabled tenant of the organization it was made for. *)
TenantOf(row, org) == IF row # Absent /\ row.enabled /\ row.born = org THEN row.key ELSE Absent

DirectoryInit ==
  /\ dirNow = 0 /\ orgBorn = 0 /\ orgsMade = 0
  /\ tenantRow = Absent
  /\ dirCache = [h \in Hosts |-> Absent]
  /\ lookup = [h \in Hosts |-> Absent]
  /\ answering = Absent
  /\ lastServed = [a \in Answers |-> IF a = Absent THEN 0 ELSE Absent]

-----------------------------------------------------------------------------
(* The writes of Tenants, each at its instant. *)
Write(row, org) ==
  /\ tenantRow' = row /\ orgBorn' = org
  /\ lastServed' = [lastServed EXCEPT ![TenantOf(row, org)] = dirNow]
  /\ answering' = Absent
  /\ UNCHANGED <<dirNow, dirCache, lookup>>

MakeOrganization ==
  /\ orgBorn = 0 /\ orgsMade < DirMaxBorn
  /\ orgsMade' = orgsMade + 1
  /\ Write(tenantRow, orgsMade + 1)

DropOrganization == orgBorn # 0 /\ Write(tenantRow, 0) /\ UNCHANGED orgsMade

(* The organization was read before: it may be gone, or another one, by now. *)
InsertTenantRow(k, on) ==
  /\ tenantRow = Absent
  /\ \E b \in 1..orgsMade : Write([key |-> k, born |-> b, enabled |-> on], orgBorn)
  /\ UNCHANGED orgsMade

UpdateTenantRow(on) ==
  /\ tenantRow # Absent
  /\ Write([tenantRow EXCEPT !.enabled = on], orgBorn)
  /\ UNCHANGED orgsMade

DeleteTenantRow == tenantRow # Absent /\ Write(Absent, orgBorn) /\ UNCHANGED orgsMade

-----------------------------------------------------------------------------
(* Faulty: a copy is used for as long as there is one. *)
CacheHit_always(h) == dirCache[h] # Absent

CacheHit(h) == dirCache[h] # Absent /\ dirNow < dirCache[h].until

(* The lookup ends: its answer is cached from now on. *)
Conclude(h, a) ==
  /\ dirCache' = [dirCache EXCEPT ![h] = [tenant |-> a, until |-> dirNow + DirCacheTime]]
  /\ answering' = [reader |-> h, value |-> a]
  /\ lookup' = [lookup EXCEPT ![h] = Absent]
  /\ UNCHANGED <<dirNow, dirDb, lastServed>>

(* TenantDirectory.tenant: from the cache, ... *)
Hit(h) ==
  /\ CacheHit(h)
  /\ answering' = [reader |-> h, value |-> dirCache[h].tenant]
  /\ UNCHANGED <<dirNow, dirDb, dirCache, lookup, lastServed>>

(* ... or the row is read: none, or a disabled one, settles it; ... *)
ReadRow(h) ==
  /\ ~CacheHit(h) /\ lookup[h] = Absent
  /\ IF tenantRow # Absent /\ tenantRow.enabled
       THEN /\ lookup' = [lookup EXCEPT ![h] = [row |-> tenantRow, at |-> dirNow]]
            /\ answering' = Absent
            /\ UNCHANGED <<dirNow, dirDb, dirCache, lastServed>>
       ELSE Conclude(h, Absent)

(* Faulty: that the organization id is in use is enough. *)
SameOrganization_byId(row) == orgBorn # 0

(* sameOrganization. *)
SameOrganization(row) == orgBorn = row.born

(* ... and then the organization. *)
ReadOrganization(h) ==
  /\ lookup[h] # Absent
  /\ Conclude(h, IF SameOrganization(lookup[h].row) THEN lookup[h].row.key ELSE Absent)

(* invalidate() after a write in this isolate, a full cache, or a new isolate. *)
ForgetTenants(h) ==
  /\ dirCache' = [dirCache EXCEPT ![h] = Absent]
  /\ answering' = Absent
  /\ UNCHANGED <<dirNow, dirDb, lookup, lastServed>>

DirTick ==
  /\ dirNow < DirMaxTime
  /\ \A h \in Hosts : lookup[h] # Absent => dirNow < lookup[h].at + DirLag
  /\ dirNow' = dirNow + 1
  /\ lastServed' = [lastServed EXCEPT ![TenantOf(tenantRow, orgBorn)] = dirNow + 1]
  /\ answering' = Absent
  /\ UNCHANGED <<dirDb, dirCache, lookup>>

DirectoryNext ==
  \/ MakeOrganization \/ DropOrganization \/ DeleteTenantRow
  \/ \E on \in BOOLEAN : UpdateTenantRow(on) \/ \E k \in DirKeys : InsertTenantRow(k, on)
  \/ \E h \in Hosts : Hit(h) \/ ReadRow(h) \/ ReadOrganization(h) \/ ForgetTenants(h)
  \/ DirTick

DirectorySpec == DirectoryInit /\ [][DirectoryNext]_directoryVars

-----------------------------------------------------------------------------
Truth == INSTANCE StaleView WITH
  Readers <- Hosts, Values <- Answers, Delay <- DirCacheTime + DirLag, Never <- Absent,
  clock <- dirNow, truth <- TenantOf(tenantRow, orgBorn), lastTrue <- lastServed,
  told <- answering

(* Other isolates see a change within cacheSeconds, and never a mixture: though the   *)
(* row and the organization are read at different times, what a directory answers was *)
(* the truth at one instant, less than a cache time and a lookup ago.                 *)
TenantsAreFresh == Truth!ViewSpec
=============================================================================
