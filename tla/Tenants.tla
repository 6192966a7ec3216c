------------------------------- MODULE Tenants -------------------------------
(***************************************************************************)
(* Tenants (endpoints/tenants.ts, with tenants.keys: "per-tenant"): an     *)
(* organization of the host becomes a tenant with an identity of its own   *)
(* (a tenant key, which its SPs pin, and a signing key), SPs are registered*)
(* for it (endpoints/registry.ts), and it is removed again, while          *)
(* organizations are deleted and their ids may be given out anew.          *)
(*                                                                         *)
(* No call has a transaction: each step is one access to the database, on  *)
(* what the call read before, and any call may stop after any of them.     *)
(*                                                                         *)
(* Row ids are not given out again, as with Better Auth's own ids. Serial  *)
(* ids of SQLite and D1 are (docs/guide/multi-tenant.md): there a DELETE by*)
(* id that comes late may take another row, which is not modelled.         *)
(***************************************************************************)
EXTENDS FiniteSets, Naturals

CONSTANTS
  Orgs,        \* organization ids
  TenantKeys,  \* tenant keys: ids of organizations and others
  Sps,         \* ids of stored SPs
  AdminCalls,  \* concurrent calls
  MaxBorn,     \* bound: organizations ever made
  MaxTenants,  \* bound: tenant rows ever made
  Nobody       \* no row, no owner

RowIds == 1..MaxTenants
TenantRow == [id : RowIds, key : TenantKeys, born : 1..MaxBorn, enabled : BOOLEAN]

ASSUME TenantsAssumption ==
  /\ MaxBorn \in Nat /\ MaxTenants \in Nat
  /\ Nobody \notin RowIds \cup Orgs \cup TenantKeys \cup Sps \cup TenantRow

VARIABLES
  orgs,      \* the createdAt of the organization that has an id now; 0: there is none
  tenants,   \* the tenant row of an organization id (UNIQUE organizationId)
  retired,   \* the retired tenant keys
  activeKey, \* the tenant row whose create made the active key row of an organization id
  sps,       \* the stored SPs: their tenantId, and whom they were registered for
  calls,     \* the calls on their way
  made,      \* how many organizations and tenant rows there ever were
  given,     \* (history) the tenant rows whose create found their key free once they were in
             \* place, and has not taken them back; by tenant key
  signing    \* (history) the tenant rows that creates have answered with, until a delete takes
             \* them or the key rows of their organization

tenantsVars == <<orgs, tenants, retired, activeKey, sps, calls, made, given, signing>>

(* for, born, loose (history): the tenant row an SP was registered for, its           *)
(* organization, and whether the tenant was being taken away just then.              *)
Sp == [org : Orgs, for : RowIds, born : 1..MaxBorn, loose : BOOLEAN]
CallSteps ==
  {"idle", "insert", "recheck", "undo", "writeKey", "retire", "deleteRow", "deleteKeys",
   "hook", "disable", "insertSp"}
AdminCall ==
  [pc : CallSteps, org : Orgs \cup {Nobody}, key : TenantKeys \cup {Nobody},
   born : 0..MaxBorn, row : RowIds \cup {Nobody}, sp : Sps \cup {Nobody}]

TenantsTypeOK ==
  /\ orgs \in [Orgs -> 0..MaxBorn]
  /\ tenants \in [Orgs -> TenantRow \cup {Nobody}]
  /\ retired \subseteq TenantKeys
  /\ activeKey \in [Orgs -> RowIds \cup {Nobody}]
  /\ sps \in [Sps -> Sp \cup {Nobody}]
  /\ calls \in [AdminCalls -> AdminCall]
  /\ made \in [orgs : 0..MaxBorn, rows : 0..MaxTenants]
  /\ given \in [TenantKeys -> SUBSET RowIds]
  /\ signing \subseteq RowIds

NoCall == [pc |-> "idle", org |-> Nobody, key |-> Nobody, born |-> 0, row |-> Nobody, sp |-> Nobody]

TenantsInit ==
  /\ orgs = [o \in Orgs |-> 0]
  /\ tenants = [o \in Orgs |-> Nobody]
  /\ retired = {}
  /\ activeKey = [o \in Orgs |-> Nobody]
  /\ sps = [s \in Sps |-> Nobody]
  /\ calls = [c \in AdminCalls |-> NoCall]
  /\ made = [orgs |-> 0, rows |-> 0]
  /\ given = [k \in TenantKeys |-> {}]
  /\ signing = {}

-----------------------------------------------------------------------------
Present(o) == tenants[o] # Nobody
Exists(o, r) == Present(o) /\ tenants[o].id = r

Doing(c, step) == calls[c].pc = step
Step(c, step) == calls' = [calls EXCEPT ![c].pc = step]
Done(c) == calls' = [calls EXCEPT ![c] = NoCall]
Start(c, job) == calls' = [calls EXCEPT ![c] = job]

(* A DELETE by the row's id does nothing once that row is gone. *)
DeleteById(o, r) == tenants' = [tenants EXCEPT ![o] = IF Exists(o, r) THEN Nobody ELSE @]

-----------------------------------------------------------------------------
(* The host makes an organization; a freed id may be given out again. *)
CreateOrganization(o) ==
  /\ orgs[o] = 0 /\ made.orgs < MaxBorn
  /\ orgs' = [orgs EXCEPT ![o] = made.orgs + 1]
  /\ made' = [made EXCEPT !.orgs = @ + 1]
  /\ UNCHANGED <<tenants, retired, activeKey, sps, calls, given, signing>>

(* samlIdpCreateTenant: the organization must be there, a chosen key is not another  *)
(* organization's id, and it was not a deleted tenant's.                             *)
CreateTenant(c, o, k) ==
  /\ Doing(c, "idle")
  /\ orgs[o] # 0
  /\ k \in Orgs \ {o} => orgs[k] = 0
  /\ k \notin retired
  /\ Start(c, [NoCall EXCEPT !.pc = "insert", !.org = o, !.key = k, !.born = orgs[o]])
  /\ UNCHANGED <<orgs, tenants, retired, activeKey, sps, made, given, signing>>

(* The INSERT; both columns are UNIQUE. *)
InsertTenant(c) ==
  LET o == calls[c].org
      free == ~Present(o) /\ \A p \in Orgs : Present(p) => tenants[p].key # calls[c].key
      Row(on) == [id |-> made.rows + 1, key |-> calls[c].key, born |-> calls[c].born, enabled |-> on]
  IN
  /\ Doing(c, "insert")
  /\ \/ /\ free /\ made.rows < MaxTenants
        /\ \E on \in BOOLEAN :
             /\ tenants' = [tenants EXCEPT ![o] = Row(on)]
             /\ calls' = [calls EXCEPT ![c].pc = "recheck", ![c].row = Row(on).id]
        /\ made' = [made EXCEPT !.rows = @ + 1]
     \/ /\ ~free
        /\ Done(c)
        /\ UNCHANGED <<tenants, made>>
  /\ UNCHANGED <<orgs, retired, activeKey, sps, given, signing>>

(* Faulty: the key is not looked up again. *)
Recheck_never(c) ==
  /\ Doing(c, "recheck")
  /\ Step(c, "writeKey")
  /\ given' = [given EXCEPT ![calls[c].key] = @ \cup {calls[c].row}]
  /\ UNCHANGED <<orgs, tenants, retired, activeKey, sps, made, signing>>

(* A delete of the key's previous tenant may have retired it in between: look again. *)
Recheck(c) ==
  LET k == calls[c].key IN
  /\ Doing(c, "recheck")
  /\ \/ /\ k \in retired
        /\ Step(c, "undo")
        /\ UNCHANGED given
     \/ /\ k \notin retired
        /\ Step(c, "writeKey")
        /\ given' = [given EXCEPT ![k] = @ \cup {calls[c].row}]
  /\ UNCHANGED <<orgs, tenants, retired, activeKey, sps, made, signing>>

(* Faulty: a tenant whose key row could not be written is created all the same. *)
WriteActiveKey_tolerant(c) ==
  LET o == calls[c].org
      r == calls[c].row
  IN
  /\ Doing(c, "writeKey")
  /\ activeKey' = [activeKey EXCEPT ![o] = IF @ = Nobody THEN r ELSE @]
  /\ signing' = signing \cup {r}
  /\ Done(c)
  /\ UNCHANGED <<orgs, tenants, retired, sps, made, given>>

(* The active key row, whose state key is UNIQUE, and the answer; or the INSERT throws, *)
(* the row in place (its answer was lost) or not.                                       *)
WriteActiveKey(c) ==
  LET o == calls[c].org
      r == calls[c].row
      Insert == activeKey[o] = Nobody /\ activeKey' = [activeKey EXCEPT ![o] = r]
  IN
  /\ Doing(c, "writeKey")
  /\ \/ /\ Insert
        /\ signing' = signing \cup {r}
        /\ Done(c)
     \/ /\ Insert \/ UNCHANGED activeKey
        /\ Step(c, "undo")
        /\ UNCHANGED signing
  /\ UNCHANGED <<orgs, tenants, retired, sps, made, given>>

(* The create takes its row back and fails. *)
Undo(c) ==
  /\ Doing(c, "undo")
  /\ DeleteById(calls[c].org, calls[c].row)
  /\ given' = [k \in TenantKeys |-> given[k] \ {calls[c].row}]
  /\ Done(c)
  /\ UNCHANGED <<orgs, retired, activeKey, sps, made, signing>>

(* samlIdpUpdateTenant. *)
SetEnabled(o, on) ==
  /\ Present(o)
  /\ tenants' = [tenants EXCEPT ![o].enabled = on]
  /\ UNCHANGED <<orgs, retired, activeKey, sps, calls, made, given, signing>>

-----------------------------------------------------------------------------
(* Faulty: SPs are looked for only among those of an enabled tenant. *)
DeleteTenant_enabledOnly(c, o) ==
  /\ Doing(c, "idle") /\ Present(o)
  /\ tenants[o].enabled => \A s \in Sps : (sps[s] # Nobody => sps[s].org # o)
  /\ Start(c, [NoCall EXCEPT !.pc = "retire", !.org = o, !.key = tenants[o].key, !.row = tenants[o].id])
  /\ UNCHANGED <<orgs, tenants, retired, activeKey, sps, made, given, signing>>

(* samlIdpDeleteTenant: refused while the tenant has SPs. *)
DeleteTenant(c, o) ==
  /\ Doing(c, "idle") /\ Present(o)
  /\ \A s \in Sps : (sps[s] # Nobody => sps[s].org # o)
  /\ Start(c, [NoCall EXCEPT !.pc = "retire", !.org = o, !.key = tenants[o].key, !.row = tenants[o].id])
  /\ UNCHANGED <<orgs, tenants, retired, activeKey, sps, made, given, signing>>

(* Faulty: the tenant's key is read once more, when another delete may have been there. *)
RetireKey_afresh(c) ==
  LET o == calls[c].org IN
  /\ Doing(c, "retire")
  /\ retired' = retired \cup {IF Present(o) THEN tenants[o].key ELSE Nobody}
  /\ Step(c, "deleteRow")
  /\ UNCHANGED <<orgs, tenants, activeKey, sps, made, given, signing>>

(* First the key is retired, unless an earlier delete stopped here; ... *)
RetireKey(c) ==
  /\ Doing(c, "retire")
  /\ retired' = retired \cup {calls[c].key}
  /\ Step(c, "deleteRow")
  /\ UNCHANGED <<orgs, tenants, activeKey, sps, made, given, signing>>

(* ... then the row goes, by its id, ... *)
DeleteRow(c) ==
  /\ Doing(c, "deleteRow")
  /\ DeleteById(calls[c].org, calls[c].row)
  /\ signing' = signing \ {calls[c].row}
  /\ Step(c, "deleteKeys")
  /\ UNCHANGED <<orgs, retired, activeKey, sps, made, given>>

(* ... and the key rows that its organization id has by then. *)
DeleteKeys(c) ==
  LET o == calls[c].org IN
  /\ Doing(c, "deleteKeys")
  /\ activeKey' = [activeKey EXCEPT ![o] = Nobody]
  /\ signing' = IF Present(o) THEN signing \ {tenants[o].id} ELSE signing
  /\ Done(c)
  /\ UNCHANGED <<orgs, tenants, retired, sps, made, given>>

(* Better Auth's /organization/delete; the hook after it looks for the tenant, ... *)
DeleteOrganization(c, o) ==
  /\ Doing(c, "idle") /\ orgs[o] # 0
  /\ orgs' = [orgs EXCEPT ![o] = 0]
  /\ Start(c, [NoCall EXCEPT !.pc = "hook", !.org = o])
  /\ UNCHANGED <<tenants, retired, activeKey, sps, made, given, signing>>

OrganizationDeleted(c) ==
  LET o == calls[c].org IN
  /\ Doing(c, "hook")
  /\ IF Present(o) /\ tenants[o].enabled
       THEN calls' = [calls EXCEPT ![c].pc = "disable", ![c].row = tenants[o].id]
       ELSE Done(c)
  /\ UNCHANGED <<orgs, tenants, retired, activeKey, sps, made, given, signing>>

(* ... and disables it, by the row's id. *)
Disable(c) ==
  LET o == calls[c].org IN
  /\ Doing(c, "disable")
  /\ tenants' = [tenants EXCEPT ![o] =
                   IF Exists(o, calls[c].row) THEN [@ EXCEPT !.enabled = FALSE] ELSE @]
  /\ Done(c)
  /\ UNCHANGED <<orgs, retired, activeKey, sps, made, given, signing>>

-----------------------------------------------------------------------------
(* samlIdpCreateServiceProvider, for a tenant that exists, enabled or not. *)
CreateSp(c, s, o) ==
  /\ Doing(c, "idle") /\ sps[s] = Nobody
  /\ Present(o)
  /\ Start(c, [NoCall EXCEPT !.pc = "insertSp", !.org = o, !.row = tenants[o].id, !.born = tenants[o].born, !.sp = s])
  /\ UNCHANGED <<orgs, tenants, retired, activeKey, sps, made, given, signing>>

(* Somebody is taking the tenant away: a delete past its look at the SPs, or a create *)
(* that has not answered and may still be undone.                                     *)
Leaving(o, r) ==
  \/ ~Exists(o, r)
  \/ \E d \in AdminCalls :
       /\ calls[d].org = o /\ calls[d].row = r
       /\ calls[d].pc \in {"recheck", "writeKey", "undo", "retire", "deleteRow"}

(* The INSERT; an id that is taken by now is refused. *)
InsertSp(c) ==
  LET job == calls[c] IN
  /\ Doing(c, "insertSp")
  /\ IF sps[job.sp] = Nobody
       THEN sps' = [sps EXCEPT ![job.sp] =
                      [org |-> job.org, for |-> job.row, born |-> job.born, loose |-> Leaving(job.org, job.row)]]
       ELSE UNCHANGED sps
  /\ Done(c)
  /\ UNCHANGED <<orgs, tenants, retired, activeKey, made, given, signing>>

(* samlIdpDeleteServiceProvider. *)
DeleteSp(s) ==
  /\ sps[s] # Nobody
  /\ sps' = [sps EXCEPT ![s] = Nobody]
  /\ UNCHANGED <<orgs, tenants, retired, activeKey, calls, made, given, signing>>

(* The call's isolate dies, or the database throws; the hook only logs it. *)
CrashCall(c) ==
  /\ ~Doing(c, "idle")
  /\ Done(c)
  /\ UNCHANGED <<orgs, tenants, retired, activeKey, sps, made, given, signing>>

TenantsNext ==
  \/ \E c \in AdminCalls :
       \/ \E o \in Orgs :
            \/ \E k \in TenantKeys : CreateTenant(c, o, k)
            \/ DeleteTenant(c, o)
            \/ DeleteOrganization(c, o)
            \/ \E s \in Sps : CreateSp(c, s, o)
       \/ InsertTenant(c) \/ Recheck(c) \/ WriteActiveKey(c) \/ Undo(c)
       \/ RetireKey(c) \/ DeleteRow(c) \/ DeleteKeys(c)
       \/ OrganizationDeleted(c) \/ Disable(c)
       \/ InsertSp(c)
       \/ CrashCall(c)
  \/ \E o \in Orgs : CreateOrganization(o) \/ \E on \in BOOLEAN : SetEnabled(o, on)
  \/ \E s \in Sps : DeleteSp(s)

TenantsSpec == TenantsInit /\ [][TenantsNext]_tenantsVars

-----------------------------------------------------------------------------
(* Faulty: the tenant is known by its organization's id alone. *)
Serves_byId(o) == Present(o) /\ tenants[o].enabled /\ orgs[o] # 0

(* TenantDirectory, on a fresh read: the enabled tenant of the organization it was made for. *)
Serves(o) == Present(o) /\ tenants[o].enabled /\ orgs[o] = tenants[o].born

-----------------------------------------------------------------------------
(* "It is never used again once the tenant is deleted" (docs/guide/multi-tenant.md): *)
(* however creates and deletes of either organization overlap, and wherever deletes   *)
(* stop, no two tenants have the same key, one after the other, that both were made   *)
(* for it: their creates looked again with the row in place and found the key free.   *)
(* Not counted: a create that stops between its INSERT and acting on that second look *)
(* leaves a tenant, served when it is enabled, whose key may be retired by then.      *)
KeyGivenOnce == \A k \in TenantKeys : Cardinality(given[k]) <= 1

(* "Refused while the tenant has SPs: they would be left without an identity": the    *)
(* tenant an SP was registered for stays, unless it was being taken away just then.   *)
NoOrphans ==
  \A s \in Sps : sps[s] # Nobody /\ ~sps[s].loose => Exists(sps[s].org, sps[s].for)

(* "A tenant belongs to the organization it was made for, not just to an organization *)
(* id": the SPs of a deleted organization's tenant get nothing from the organization  *)
(* that has its id now, also when the hook that disables the tenant failed.           *)
NeverInherited ==
  \A s \in Sps :
    sps[s] # Nobody /\ ~sps[s].loose /\ Serves(sps[s].org) => orgs[sps[s].org] = sps[s].born

(* "A new tenant signs with its own key from the start": a tenant that create has     *)
(* answered with has the key that create made, and never one that the delete of an    *)
(* earlier tenant left behind - unless such a delete, still on its way, took it since. *)
SignsWithItsOwn ==
  \A o \in Orgs : Present(o) /\ tenants[o].id \in signing => activeKey[o] = tenants[o].id
=============================================================================
