------------------------------ MODULE Delegation ------------------------------
(***************************************************************************)
(* Delegated administration of SPs (tenants.delegation, endpoints/         *)
(* registry.ts): an organization's own administrator creates, edits and    *)
(* deletes its tenant's SPs through the registry, next to the host's       *)
(* administrators. What it may do is decided from what its call read at    *)
(* its start; the write comes later, and goes by the row's id.             *)
(*                                                                         *)
(* The database gives out row ids.  Nothing is assumed of them but that no *)
(* two rows have one id at a time: with the serial ids of SQLite and D1 an *)
(* SP that is made again may get the id of the row that was deleted, and a *)
(* write still on its way for that row is then taken for one of the new.   *)
(*                                                                         *)
(* One SP id, which is global, and of a config what only the host decides: *)
(* the OAuth client that may exchange the SP's assertions (tokenExchange). *)
(* Calls that only switch the SP on or off are in SpDirectory.             *)
(***************************************************************************)
EXTENDS Naturals

CONSTANTS
  DelTenants,   \* tenants; an SP of the root belongs to none of them
  Root,         \* the root IdP
  OAuthClients, \* who may be named in tokenExchange
  DelCalls,     \* concurrent calls of the registry API
  DelRowIds,    \* ids the database gives to rows, again after a delete as it may be
  Unset         \* no tokenExchange; no row, no row id

VARIABLES
  role,        \* organizations in which the delegated user holds one of delegation.roles
  delegable,   \* enabled tenants with an active key of their own, as the call's isolate knows them
  spRowOf,     \* the row of the SP id
  op,          \* the calls of the registry
  granted,     \* (history) the clients the host ever gave to the row
  mixed        \* (history) the row was written by a call for an earlier row with its id

delVars == <<role, delegable, spRowOf, op, granted, mixed>>

Owners == DelTenants \cup {Root}
OptIns == OAuthClients \cup {Unset}
DelRow == [id : DelRowIds, tenant : Owners, optIn : OptIns]

ASSUME DelegationAssumption ==
  /\ Root \notin DelTenants
  /\ Unset \notin OAuthClients \cup DelRow \cup DelRowIds

Ops ==
  [pc : {"idle", "insert", "write", "erase"},
   host : BOOLEAN, tenants : SUBSET Owners,
   id : DelRowIds \cup {Unset}, tenant : Owners, optIn : OptIns,
   overtaken : BOOLEAN,       \* (history) tokenExchange was changed since the row was read
   mistaken : BOOLEAN]        \* (history) another row has got the id of the row it read

NoOp ==
  [pc |-> "idle", host |-> TRUE, tenants |-> {}, id |-> Unset, tenant |-> Root,
   optIn |-> Unset, overtaken |-> FALSE, mistaken |-> FALSE]

DelTypeOK ==
  /\ role \subseteq DelTenants /\ delegable \subseteq DelTenants
  /\ spRowOf \in DelRow \cup {Unset}
  /\ op \in [DelCalls -> Ops]
  /\ granted \subseteq OAuthClients
  /\ mixed \in BOOLEAN

DelInit ==
  /\ role \in SUBSET DelTenants /\ delegable \in SUBSET DelTenants
  /\ spRowOf = Unset
  /\ op = [c \in DelCalls |-> NoOp]
  /\ granted = {}
  /\ mixed = FALSE

-----------------------------------------------------------------------------
(* access(): a manager of the host, who may do anything, or a user with the role in a  *)
(* tenant that is served, as its isolate knows it; roles are read from the database for *)
(* every call. A banned user is one without a role.                                     *)
TenantsOf(host) == IF host THEN Owners ELSE role \cap delegable
Access(host) == TenantsOf(host) # {}

(* delegatedIssues: tokenExchange is kept as it is in the row that was read, or removed. *)
MayOptIn(host, optIn, previous) == host \/ optIn \in {Unset, previous}

Enter(c, job) ==
  /\ op[c].pc = "idle"
  /\ op' = [op EXCEPT ![c] = job]
  /\ UNCHANGED <<role, delegable, spRowOf, granted, mixed>>

(* samlIdpCreateServiceProvider: scopeFirst, then checkDelegated against no row. *)
EnterCreate(c, host, t, o) ==
  /\ Access(host)
  /\ t \in TenantsOf(host)
  /\ MayOptIn(host, o, Unset)
  /\ Enter(c, [pc |-> "insert", host |-> host, tenants |-> TenantsOf(host), id |-> Unset,
               tenant |-> t, optIn |-> o, overtaken |-> FALSE, mistaken |-> FALSE])

(* The row an update or a delete is for, which must be in the actor's scope. *)
InScope(host) == Access(host) /\ spRowOf # Unset /\ spRowOf.tenant \in TenantsOf(host)

(* samlIdpUpdateServiceProvider: a whole config, of the same tenant. *)
EnterUpdate(c, host, o) ==
  /\ InScope(host)
  /\ MayOptIn(host, o, spRowOf.optIn)
  /\ Enter(c, [pc |-> "write", host |-> host, tenants |-> TenantsOf(host), id |-> spRowOf.id,
               tenant |-> spRowOf.tenant, optIn |-> o, overtaken |-> FALSE,
               mistaken |-> FALSE])

(* samlIdpDeleteServiceProvider. *)
EnterDelete(c, host) ==
  /\ InScope(host)
  /\ Enter(c, [NoOp EXCEPT !.pc = "erase", !.host = host, !.tenants = TenantsOf(host),
                           !.id = spRowOf.id])

-----------------------------------------------------------------------------
Leave(c) == op' = [op EXCEPT ![c] = NoOp]

(* The INSERT; another row with the SP id makes it fail. *)
InsertRow(c) ==
  /\ op[c].pc = "insert"
  /\ \/ \E i \in DelRowIds :
           /\ spRowOf = Unset
           /\ spRowOf' = [id |-> i, tenant |-> op[c].tenant, optIn |-> op[c].optIn]
           /\ granted' = {op[c].optIn} \ {Unset}
           /\ op' = [d \in DelCalls |->
                       IF d = c THEN NoOp ELSE [op[d] EXCEPT !.mistaken = @ \/ op[d].id = i]]
     \/ /\ spRowOf # Unset
        /\ Leave(c)
        /\ UNCHANGED <<spRowOf, granted>>
  /\ UNCHANGED <<role, delegable, mixed>>

(* Faulty: the UPDATE goes by the SP's id, and not by the row's. *)
StillThere_bySpId(c) == spRowOf # Unset

(* The row that was read, or one that got its id. *)
StillThere(c) == spRowOf # Unset /\ spRowOf.id = op[c].id

(* The whole config and the columns made of it are written. *)
WriteConfig(c) ==
  /\ op[c].pc = "write"
  /\ IF StillThere(c)
       THEN /\ spRowOf' = [spRowOf EXCEPT !.tenant = op[c].tenant, !.optIn = op[c].optIn]
            /\ granted' = IF op[c].host THEN granted \cup ({op[c].optIn} \ {Unset}) ELSE granted
            /\ op' = [d \in DelCalls |->
                        IF d = c THEN NoOp
                        ELSE IF op[c].optIn # spRowOf.optIn /\ op[d].pc = "write"
                          THEN [op[d] EXCEPT !.overtaken = TRUE] ELSE op[d]]
            /\ mixed' = (mixed \/ op[c].mistaken)
       ELSE Leave(c) /\ UNCHANGED <<spRowOf, granted, mixed>>
  /\ UNCHANGED <<role, delegable>>

EraseRow(c) ==
  /\ op[c].pc = "erase"
  /\ IF StillThere(c) THEN spRowOf' = Unset /\ mixed' = FALSE
                      ELSE UNCHANGED <<spRowOf, mixed>>
  /\ Leave(c)
  /\ UNCHANGED <<role, delegable, granted>>

CrashOp(c) ==
  /\ op[c].pc # "idle"
  /\ Leave(c)
  /\ UNCHANGED <<role, delegable, spRowOf, granted, mixed>>

(* Roles are given and taken, users banned, tenants switched, and keys rotated in. *)
ChangeRole(t) ==
  /\ role' = IF t \in role THEN role \ {t} ELSE role \cup {t}
  /\ UNCHANGED <<delegable, spRowOf, op, granted, mixed>>

ChangeTenant(t) ==
  /\ delegable' = IF t \in delegable THEN delegable \ {t} ELSE delegable \cup {t}
  /\ UNCHANGED <<role, spRowOf, op, granted, mixed>>

DelNext ==
  \/ \E c \in DelCalls :
       \/ \E host \in BOOLEAN :
            \/ \E t \in Owners, o \in OptIns : EnterCreate(c, host, t, o)
            \/ \E o \in OptIns : EnterUpdate(c, host, o)
            \/ EnterDelete(c, host)
       \/ InsertRow(c) \/ WriteConfig(c) \/ EraseRow(c) \/ CrashOp(c)
  \/ \E t \in DelTenants : ChangeRole(t) \/ ChangeTenant(t)

DelSpec == DelInit /\ [][DelNext]_delVars

-----------------------------------------------------------------------------
(* "Its tenant's SPs only", and which client may exchange assertions is "kept as the  *)
(* host set it, or removed, never set or changed by the tenant": whatever a delegated *)
(* call changes is of a tenant it was given when it began, before and after, also if  *)
(* the SP was deleted and made again elsewhere under another row id in between; and   *)
(* the row then names no client, or one that the host gave this row - the one it      *)
(* names now, unless that was changed after the call had read the row.  Excepted is a *)
(* call for a row whose id the database has given to another since (serial ids), and  *)
(* a row such a call has written: the UPDATE and the DELETE ask for the id only, and  *)
(* reach the SP another tenant has made (registry.ts l.438, l.459).                   *)
StaysDelegated ==
  [][\A c \in DelCalls :
       /\ ~op[c].host /\ op[c].pc # "idle" /\ op'[c].pc = "idle" /\ spRowOf' # spRowOf
       /\ ~op[c].mistaken /\ ~mixed
       => /\ \A r \in {spRowOf, spRowOf'} \ {Unset} : r.tenant \in op[c].tenants
          /\ spRowOf' # Unset =>
               \/ spRowOf'.optIn = Unset
               \/ spRowOf'.optIn \in granted
                  /\ (op[c].overtaken \/ spRowOf'.optIn = spRowOf.optIn)]_delVars
=============================================================================
