---------------------------- MODULE Tenants_proofs ----------------------------
(***************************************************************************)
(* A tenant key is given out once: for any number of organizations, tenant *)
(* keys and overlapping calls, and wherever deletes stop.                  *)
(*                                                                         *)
(* The argument: a create before its second look, and every tenant whose   *)
(* create has looked, has its row in place, or the key is retired by now   *)
(* (a delete retires before it removes, and an undo removes only its own   *)
(* row). A create that finds its key not retired thus has the one row with *)
(* that key (UNIQUE), and so has whoever found it free before: there is    *)
(* nobody else.                                                            *)
(***************************************************************************)
EXTENDS Tenants, FiniteSetTheorems, TLAPS

Creating == {"recheck", "writeKey", "undo"}
Removing == {"retire", "deleteRow"}

(* What a call on its way knows. *)
JobOK(job) ==
  /\ job.pc # "idle" => job.org \in Orgs
  /\ job.pc \in {"insert"} \cup Creating \cup Removing => job.key \in TenantKeys
  /\ job.pc \in {"insert", "insertSp"} => job.born \in 1..MaxBorn
  /\ job.pc \in {"insertSp"} \cup Creating \cup Removing => job.row \in RowIds
  /\ job.pc = "insertSp" => job.sp \in Sps
JobsOK == \A c \in AdminCalls : JobOK(calls[c])
TypesOK == TenantsTypeOK /\ JobsOK

(* Row ids are never reused. *)
RowsOK ==
  /\ \A o \in Orgs : Present(o) => tenants[o].id <= made.rows
  /\ \A c \in AdminCalls : calls[c].pc \in Creating \cup Removing => calls[c].row <= made.rows
  /\ \A k \in TenantKeys : \A r \in given[k] : r <= made.rows
  /\ \A r \in signing : r <= made.rows
UniqueOK ==
  \A o, p \in Orgs : Present(o) /\ Present(p) /\ tenants[o].key = tenants[p].key => o = p

(* A delete takes the row whose key it retires, after it has retired it. *)
RemovingOK ==
  \A c \in AdminCalls :
    /\ calls[c].pc \in Removing /\ Exists(calls[c].org, calls[c].row) =>
         tenants[calls[c].org].key = calls[c].key
    /\ calls[c].pc = "deleteRow" => calls[c].key \in retired

(* A create's row is its own until it answers, and counts once it has looked again. *)
CreatingOK ==
  \A c \in AdminCalls : calls[c].pc \in Creating =>
    /\ calls[c].pc = "recheck" => \A k \in TenantKeys : calls[c].row \notin given[k]
    /\ \A d \in AdminCalls : calls[d].pc \in Creating /\ calls[d].row = calls[c].row => c = d

Held(r, k) == k \in retired \/ \E o \in Orgs : Exists(o, r) /\ tenants[o].key = k
HeldOK ==
  /\ \A c \in AdminCalls : calls[c].pc = "recheck" => Held(calls[c].row, calls[c].key)
  /\ \A k \in TenantKeys : \A r \in given[k] : Held(r, k)

OneOK == \A k \in TenantKeys : \A r, s \in given[k] : r = s

KInv == RowsOK /\ UniqueOK /\ RemovingOK /\ CreatingOK /\ HeldOK /\ OneOK

-----------------------------------------------------------------------------
(* One call changes: what its new job must be. *)
LEMMA OneJob ==
  ASSUME TypesOK, NEW c \in AdminCalls, NEW job \in AdminCall, JobOK(job),
         calls' = [calls EXCEPT ![c] = job]
  PROVE  /\ calls' \in [AdminCalls -> AdminCall]
         /\ JobsOK'
         /\ calls'[c] = job
         /\ \A d \in AdminCalls \ {c} : calls'[d] = calls[d]
<1>1. calls \in [AdminCalls -> AdminCall]
  BY DEF TypesOK, TenantsTypeOK
<1>2. /\ calls' \in [AdminCalls -> AdminCall]
      /\ calls'[c] = job
      /\ \A d \in AdminCalls \ {c} : calls'[d] = calls[d]
  BY <1>1
<1>3. \A d \in AdminCalls : calls'[d] = job \/ calls'[d] = calls[d]
  BY <1>2
<1>4. JobsOK'
  BY <1>3 DEF TypesOK, JobsOK, JobOK
<1> QED
  BY <1>2, <1>4

LEMMA NoJob == NoCall \in AdminCall /\ JobOK(NoCall) /\ NoCall.pc = "idle"
BY TenantsAssumption DEF TenantsAssumption, NoCall, AdminCall, CallSteps, JobOK, Creating, Removing

(* A call that goes on, or ends. *)
LEMMA StepJob ==
  ASSUME TypesOK, NEW c \in AdminCalls, NEW step \in CallSteps, Step(c, step),
         calls[c].pc # "idle",
         step \in {"insertSp", "insert"} => FALSE,
         step \in Creating \cup Removing => calls[c].pc \in Creating \cup Removing
  PROVE  /\ calls' \in [AdminCalls -> AdminCall]
         /\ JobsOK'
         /\ calls'[c].pc = step /\ calls'[c].org = calls[c].org
         /\ calls'[c].key = calls[c].key /\ calls'[c].row = calls[c].row
         /\ \A d \in AdminCalls \ {c} : calls'[d] = calls[d]
<1> DEFINE job == [calls[c] EXCEPT !.pc = step]
<1>1. calls[c] \in AdminCall /\ JobOK(calls[c])
  BY DEF TypesOK, TenantsTypeOK, JobsOK
<1>2. /\ job \in AdminCall /\ job.pc = step /\ job.org = calls[c].org
      /\ job.key = calls[c].key /\ job.row = calls[c].row
  BY <1>1 DEF AdminCall
<1>3. JobOK(job)
  BY <1>1, <1>2 DEF JobOK
<1>4. calls' = [calls EXCEPT ![c] = job]
  BY DEF Step
<1> HIDE DEF job
<1> QED
  BY <1>2, <1>3, <1>4, OneJob

LEMMA DoneJob ==
  ASSUME TypesOK, NEW c \in AdminCalls, Done(c)
  PROVE  /\ calls' \in [AdminCalls -> AdminCall]
         /\ JobsOK'
         /\ calls'[c].pc = "idle"
         /\ \A d \in AdminCalls \ {c} : calls'[d] = calls[d]
BY NoJob, OneJob DEF Done

LEMMA DeletedById ==
  ASSUME TypesOK, NEW o \in Orgs, NEW r, DeleteById(o, r)
  PROVE  /\ tenants' \in [Orgs -> TenantRow \cup {Nobody}]
         /\ \A p \in Orgs : tenants'[p] = IF p = o /\ Exists(o, r) THEN Nobody ELSE tenants[p]
BY DEF DeleteById, TypesOK, TenantsTypeOK

NoneBegins ==
  \A d \in AdminCalls : calls'[d] = calls[d] \/ calls'[d].pc \notin Creating \cup Removing
Kept ==
  \A o \in Orgs :
    /\ Present(o)' <=> Present(o)
    /\ Present(o) => /\ tenants'[o].id = tenants[o].id
                     /\ tenants'[o].key = tenants[o].key
                     /\ tenants'[o].born = tenants[o].born

(* A step that takes no key, gives none out and removes no row. *)
LEMMA QuietStep ==
  ASSUME TypesOK, KInv, TypesOK', NoneBegins, Kept, UNCHANGED <<retired, given>>, signing' \subseteq signing, made'.rows = made.rows
  PROVE  KInv'
<1> USE DEF KInv, NoneBegins, Kept
<1>1. \A o \in Orgs, r \in RowIds : Exists(o, r)' <=> Exists(o, r)
  BY DEF Exists
<1>2. \A c \in AdminCalls :
        calls[c].pc \in Creating \cup Removing => calls[c].org \in Orgs /\ calls[c].row \in RowIds
  BY DEF TypesOK, JobsOK, JobOK, Creating, Removing
<1>3. \A k \in TenantKeys : given[k] \subseteq RowIds
  BY DEF TypesOK, TenantsTypeOK
<1>4. \A k : \A r \in RowIds : Held(r, k) => Held(r, k)'
  BY <1>1 DEF Held, Exists
<1>5. RowsOK'
  BY DEF RowsOK
<1>6. UniqueOK'
  BY DEF UniqueOK
<1>7. RemovingOK'
  BY <1>1, <1>2 DEF RemovingOK, Exists, Removing
<1>8. CreatingOK'
  BY DEF CreatingOK
<1>9. HeldOK'
  BY <1>2, <1>3, <1>4 DEF HeldOK, Creating
<1>10. OneOK'
  BY DEF OneOK, Creating
<1> QED
  BY <1>5, <1>6, <1>7, <1>8, <1>9, <1>10

-----------------------------------------------------------------------------
(* The types, one operation at a time. *)
LEMMA TypesInit == TenantsInit => TypesOK
<1> SUFFICES ASSUME TenantsInit PROVE TypesOK
  OBVIOUS
<1> USE TenantsAssumption DEF TenantsAssumption
<1>1. JobsOK /\ calls \in [AdminCalls -> AdminCall]
  BY NoJob DEF TenantsInit, JobsOK
<1> QED
  BY <1>1 DEF TypesOK, TenantsTypeOK, TenantsInit

LEMMA CreateTypes ==
  ASSUME TypesOK, NEW c \in AdminCalls,
         \/ \E o \in Orgs, k \in TenantKeys : CreateTenant(c, o, k)
         \/ InsertTenant(c) \/ Recheck(c) \/ WriteActiveKey(c) \/ Undo(c)
  PROVE  TypesOK'
<1> USE TenantsAssumption DEF TenantsAssumption
<1>t. TenantsTypeOK /\ calls[c] \in AdminCall /\ JobOK(calls[c])
  BY DEF TypesOK, TenantsTypeOK, JobsOK
<1>1. ASSUME NEW o \in Orgs, NEW k \in TenantKeys, CreateTenant(c, o, k) PROVE TypesOK'
  <2> DEFINE job == [NoCall EXCEPT !.pc = "insert", !.org = o, !.key = k, !.born = orgs[o]]
  <2>1. orgs[o] \in 1..MaxBorn
    <3>1. orgs[o] \in 0..MaxBorn /\ orgs[o] # 0
      BY <1>1, <1>t DEF CreateTenant, TenantsTypeOK
    <3> QED
      BY <3>1
  <2>2. job \in AdminCall /\ JobOK(job)
    <3>1. /\ job \in AdminCall /\ job.pc = "insert" /\ job.org = o /\ job.key = k
          /\ job.born = orgs[o]
      <4>1. orgs[o] \in 0..MaxBorn
        BY <1>t DEF TenantsTypeOK
      <4> QED
        BY <4>1, NoJob DEF AdminCall, CallSteps
    <3> QED
      BY <2>1, <3>1 DEF JobOK, Creating, Removing
  <2>3. calls' = [calls EXCEPT ![c] = job]
    BY <1>1 DEF CreateTenant, Start
  <2> HIDE DEF job
  <2>4. JobsOK' /\ calls' \in [AdminCalls -> AdminCall]
    BY <2>2, <2>3, OneJob
  <2> QED
    BY <1>1, <1>t, <2>4 DEF CreateTenant, TypesOK, TenantsTypeOK
<1>2. ASSUME InsertTenant(c) PROVE TypesOK'
  <2>1. CASE Done(c) /\ UNCHANGED <<tenants, made>>
    BY <1>2, <1>t, <2>1, DoneJob DEF InsertTenant, TypesOK, TenantsTypeOK
  <2>2. CASE ~(Done(c) /\ UNCHANGED <<tenants, made>>)
    <3> DEFINE o == calls[c].org
               r == made.rows + 1
    <3>1. PICK on \in BOOLEAN :
            /\ made.rows < MaxTenants
            /\ tenants' = [tenants EXCEPT ![o] =
                             [id |-> r, key |-> calls[c].key, born |-> calls[c].born, enabled |-> on]]
            /\ calls' = [calls EXCEPT ![c].pc = "recheck", ![c].row = r]
            /\ made' = [made EXCEPT !.rows = r]
      BY <1>2, <2>2 DEF InsertTenant
    <3>2. /\ r \in RowIds /\ made' \in [orgs : 0..MaxBorn, rows : 0..MaxTenants]
          /\ o \in Orgs /\ calls[c].key \in TenantKeys /\ calls[c].born \in 1..MaxBorn
      BY <1>2, <1>t, <3>1 DEF TenantsTypeOK, RowIds, InsertTenant, Doing, JobOK
    <3>3. tenants' \in [Orgs -> TenantRow \cup {Nobody}]
      BY <1>t, <3>1, <3>2 DEF TenantsTypeOK, TenantRow
    <3> DEFINE job == [calls[c] EXCEPT !.pc = "recheck", !.row = r]
    <3>4. job \in AdminCall /\ JobOK(job)
      BY <1>t, <3>2 DEF AdminCall, CallSteps, JobOK, Creating, Removing
    <3>5. calls' = [calls EXCEPT ![c] = job]
      BY <1>t, <3>1 DEF TenantsTypeOK
    <3> HIDE DEF job
    <3>6. JobsOK' /\ calls' \in [AdminCalls -> AdminCall]
      BY <3>4, <3>5, OneJob
    <3> QED
      BY <1>2, <1>t, <3>2, <3>3, <3>6 DEF InsertTenant, TypesOK, TenantsTypeOK
  <2> QED
    BY <2>1, <2>2
<1>3. ASSUME Recheck(c) PROVE TypesOK'
  <2>1. PICK step \in {"undo", "writeKey"} : Step(c, step)
    BY <1>3 DEF Recheck
  <2>2. JobsOK' /\ calls' \in [AdminCalls -> AdminCall]
    BY <1>3, <2>1, StepJob DEF Recheck, Doing, CallSteps, Creating, Removing
  <2>3. calls[c].row \in RowIds /\ calls[c].key \in TenantKeys
    BY <1>3, <1>t DEF Recheck, Doing, JobOK, Creating
  <2>4. given' \in [TenantKeys -> SUBSET RowIds]
    BY <1>3, <1>t, <2>3 DEF Recheck, TenantsTypeOK
  <2> QED
    BY <1>3, <1>t, <2>2, <2>4 DEF Recheck, TypesOK, TenantsTypeOK
<1>4. ASSUME WriteActiveKey(c) PROVE TypesOK'
  <2>1. calls[c].row \in RowIds /\ calls[c].key \in TenantKeys /\ calls[c].org \in Orgs
    BY <1>4, <1>t DEF WriteActiveKey, Doing, JobOK, Creating
  <2>2. JobsOK' /\ calls' \in [AdminCalls -> AdminCall]
    BY <1>4, StepJob, DoneJob DEF WriteActiveKey, Doing, CallSteps, Creating, Removing
  <2>3. activeKey' \in [Orgs -> RowIds \cup {Nobody}] /\ signing' \subseteq RowIds
    BY <1>4, <1>t, <2>1 DEF WriteActiveKey, TenantsTypeOK
  <2> QED
    BY <1>4, <1>t, <2>2, <2>3 DEF WriteActiveKey, TypesOK, TenantsTypeOK
<1>5. ASSUME Undo(c) PROVE TypesOK'
  <2>1. calls[c].org \in Orgs
    BY <1>5, <1>t DEF Undo, Doing, JobOK
  <2>2. JobsOK' /\ calls' \in [AdminCalls -> AdminCall]
    BY <1>5, DoneJob DEF Undo
  <2>3. tenants' \in [Orgs -> TenantRow \cup {Nobody}]
    BY <1>5, <2>1, DeletedById DEF Undo
  <2>4. given' \in [TenantKeys -> SUBSET RowIds]
    BY <1>5, <1>t DEF Undo, TenantsTypeOK
  <2> QED
    BY <1>5, <1>t, <2>2, <2>3, <2>4 DEF Undo, TypesOK, TenantsTypeOK
<1> QED
  BY <1>1, <1>2, <1>3, <1>4, <1>5

LEMMA RemoveTypes ==
  ASSUME TypesOK, NEW c \in AdminCalls,
         \/ \E o \in Orgs : DeleteTenant(c, o)
         \/ RetireKey(c) \/ DeleteRow(c) \/ DeleteKeys(c)
  PROVE  TypesOK'
<1>t. TenantsTypeOK /\ calls[c] \in AdminCall /\ JobOK(calls[c])
  BY DEF TypesOK, TenantsTypeOK, JobsOK
<1>1. ASSUME NEW o \in Orgs, DeleteTenant(c, o) PROVE TypesOK'
  <2> DEFINE job == [NoCall EXCEPT !.pc = "retire", !.org = o, !.key = tenants[o].key, !.row = tenants[o].id]
  <2>1. tenants[o].key \in TenantKeys /\ tenants[o].id \in RowIds
    BY <1>1, <1>t DEF DeleteTenant, Present, TenantsTypeOK, TenantRow
  <2>2. /\ job \in AdminCall /\ job.pc = "retire" /\ job.org = o
        /\ job.key = tenants[o].key /\ job.row = tenants[o].id
    BY <2>1, NoJob DEF AdminCall, CallSteps
  <2>3. JobOK(job)
    BY <2>1, <2>2 DEF JobOK, Creating, Removing
  <2>4. calls' = [calls EXCEPT ![c] = job]
    BY <1>1 DEF DeleteTenant, Start
  <2> HIDE DEF job
  <2>5. JobsOK' /\ calls' \in [AdminCalls -> AdminCall]
    BY <2>2, <2>3, <2>4, OneJob
  <2> QED
    BY <1>1, <1>t, <2>5 DEF DeleteTenant, TypesOK, TenantsTypeOK
<1>2. ASSUME RetireKey(c) PROVE TypesOK'
  <2>1. JobsOK' /\ calls' \in [AdminCalls -> AdminCall]
    BY <1>2, StepJob DEF RetireKey, Doing, CallSteps, Creating, Removing
  <2>2. calls[c].key \in TenantKeys
    BY <1>2, <1>t DEF RetireKey, Doing, JobOK, Removing
  <2> QED
    BY <1>2, <1>t, <2>1, <2>2 DEF RetireKey, TypesOK, TenantsTypeOK
<1>3. ASSUME DeleteRow(c) PROVE TypesOK'
  <2>1. JobsOK' /\ calls' \in [AdminCalls -> AdminCall]
    BY <1>3, StepJob DEF DeleteRow, Doing, CallSteps, Creating, Removing
  <2>2. calls[c].org \in Orgs
    BY <1>3, <1>t DEF DeleteRow, Doing, JobOK
  <2>3. tenants' \in [Orgs -> TenantRow \cup {Nobody}]
    BY <1>3, <2>2, DeletedById DEF DeleteRow
  <2> QED
    BY <1>3, <1>t, <2>1, <2>3 DEF DeleteRow, TypesOK, TenantsTypeOK
<1>4. ASSUME DeleteKeys(c) PROVE TypesOK'
  <2>1. JobsOK' /\ calls' \in [AdminCalls -> AdminCall]
    BY <1>4, DoneJob DEF DeleteKeys
  <2>2. calls[c].org \in Orgs
    BY <1>4, <1>t DEF DeleteKeys, Doing, JobOK
  <2>3. activeKey' \in [Orgs -> RowIds \cup {Nobody}] /\ signing' \subseteq RowIds
    BY <1>4, <1>t, <2>2 DEF DeleteKeys, Present, TenantsTypeOK, TenantRow
  <2> QED
    BY <1>4, <1>t, <2>1, <2>3 DEF DeleteKeys, TypesOK, TenantsTypeOK
<1> QED
  BY <1>1, <1>2, <1>3, <1>4

LEMMA HostTypes ==
  ASSUME TypesOK,
         \/ \E o \in Orgs : CreateOrganization(o) \/ \E on \in BOOLEAN : SetEnabled(o, on)
         \/ \E c \in AdminCalls :
              \/ \E o \in Orgs : DeleteOrganization(c, o)
              \/ OrganizationDeleted(c) \/ Disable(c) \/ CrashCall(c)
  PROVE  TypesOK'
<1> USE TenantsAssumption DEF TenantsAssumption
<1>t. TenantsTypeOK
  BY DEF TypesOK
<1>j. \A c \in AdminCalls : calls[c] \in AdminCall /\ JobOK(calls[c])
  BY DEF TypesOK, TenantsTypeOK, JobsOK
<1>1. ASSUME NEW o \in Orgs, CreateOrganization(o) PROVE TypesOK'
  <2>1. made.orgs + 1 \in 0..MaxBorn
    BY <1>1, <1>t DEF CreateOrganization, TenantsTypeOK
  <2>2. JobsOK'
    BY <1>1 DEF CreateOrganization, TypesOK, JobsOK, JobOK
  <2> QED
    BY <1>1, <1>t, <2>1, <2>2 DEF CreateOrganization, TypesOK, TenantsTypeOK
<1>2. ASSUME NEW o \in Orgs, NEW on \in BOOLEAN, SetEnabled(o, on) PROVE TypesOK'
  <2>1. tenants' \in [Orgs -> TenantRow \cup {Nobody}]
    BY <1>2, <1>t DEF SetEnabled, Present, TenantsTypeOK, TenantRow
  <2>2. JobsOK'
    BY <1>2 DEF SetEnabled, TypesOK, JobsOK, JobOK
  <2> QED
    BY <1>2, <1>t, <2>1, <2>2 DEF SetEnabled, TypesOK, TenantsTypeOK
<1>3. ASSUME NEW c \in AdminCalls, NEW o \in Orgs, DeleteOrganization(c, o) PROVE TypesOK'
  <2> DEFINE job == [NoCall EXCEPT !.pc = "hook", !.org = o]
  <2>1. job \in AdminCall /\ job.pc = "hook" /\ job.org = o
    BY NoJob DEF AdminCall, CallSteps
  <2>2. JobOK(job)
    BY <2>1 DEF JobOK, Creating, Removing
  <2>3. calls' = [calls EXCEPT ![c] = job]
    BY <1>3 DEF DeleteOrganization, Start
  <2> HIDE DEF job
  <2>4. JobsOK' /\ calls' \in [AdminCalls -> AdminCall]
    BY <2>1, <2>2, <2>3, OneJob
  <2>5. orgs' \in [Orgs -> 0..MaxBorn]
    <3>1. 0 \in 0..MaxBorn
      OBVIOUS
    <3> QED
      BY <1>3, <1>t, <3>1 DEF DeleteOrganization, TenantsTypeOK
  <2> QED
    BY <1>3, <1>t, <2>4, <2>5 DEF DeleteOrganization, TypesOK, TenantsTypeOK
<1>4. ASSUME NEW c \in AdminCalls, OrganizationDeleted(c) PROVE TypesOK'
  <2>1. CASE Done(c)
    BY <1>4, <1>t, <2>1, DoneJob DEF OrganizationDeleted, TypesOK, TenantsTypeOK
  <2>2. CASE ~Done(c)
    <3> DEFINE o == calls[c].org
               job == [calls[c] EXCEPT !.pc = "disable", !.row = tenants[o].id]
    <3>1. Present(o) /\ calls' = [calls EXCEPT ![c].pc = "disable", ![c].row = tenants[o].id]
      BY <1>4, <2>2 DEF OrganizationDeleted
    <3>2. o \in Orgs
      BY <1>4, <1>j DEF OrganizationDeleted, Doing, JobOK
    <3>3. tenants[o].id \in RowIds
      BY <1>t, <3>1, <3>2 DEF Present, TenantsTypeOK, TenantRow
    <3>4. job \in AdminCall /\ JobOK(job)
      BY <1>j, <3>2, <3>3 DEF AdminCall, CallSteps, JobOK, Creating, Removing
    <3>5. calls' = [calls EXCEPT ![c] = job]
      BY <1>t, <3>1 DEF TenantsTypeOK
    <3> HIDE DEF job
    <3>6. JobsOK' /\ calls' \in [AdminCalls -> AdminCall]
      BY <3>4, <3>5, OneJob
    <3> QED
      BY <1>4, <1>t, <3>6 DEF OrganizationDeleted, TypesOK, TenantsTypeOK
  <2> QED
    BY <2>1, <2>2
<1>5. ASSUME NEW c \in AdminCalls, Disable(c) PROVE TypesOK'
  <2>1. calls[c].org \in Orgs
    BY <1>5, <1>j DEF Disable, Doing, JobOK
  <2>2. tenants' \in [Orgs -> TenantRow \cup {Nobody}]
    <3>1. CASE Exists(calls[c].org, calls[c].row)
      <4>1. tenants[calls[c].org] \in TenantRow
        BY <1>t, <2>1, <3>1 DEF Exists, Present, TenantsTypeOK
      <4>2. [tenants[calls[c].org] EXCEPT !.enabled = FALSE] \in TenantRow
        BY <4>1 DEF TenantRow
      <4> QED
        BY <1>5, <1>t, <2>1, <3>1, <4>2 DEF Disable, TenantsTypeOK
    <3>2. CASE ~Exists(calls[c].org, calls[c].row)
      BY <1>5, <1>t, <2>1, <3>2 DEF Disable, TenantsTypeOK
    <3> QED
      BY <3>1, <3>2
  <2>3. JobsOK' /\ calls' \in [AdminCalls -> AdminCall]
    BY <1>5, DoneJob DEF Disable
  <2> QED
    BY <1>5, <1>t, <2>2, <2>3 DEF Disable, TypesOK, TenantsTypeOK
<1>6. ASSUME NEW c \in AdminCalls, CrashCall(c) PROVE TypesOK'
  BY <1>6, <1>t, DoneJob DEF CrashCall, TypesOK, TenantsTypeOK
<1> QED
  BY <1>1, <1>2, <1>3, <1>4, <1>5, <1>6

LEMMA SpTypes ==
  ASSUME TypesOK,
         \/ \E c \in AdminCalls : InsertSp(c) \/ \E o \in Orgs, s \in Sps : CreateSp(c, s, o)
         \/ \E s \in Sps : DeleteSp(s)
  PROVE  TypesOK'
<1> USE TenantsAssumption DEF TenantsAssumption
<1>t. TenantsTypeOK
  BY DEF TypesOK
<1>j. \A c \in AdminCalls : calls[c] \in AdminCall /\ JobOK(calls[c])
  BY DEF TypesOK, TenantsTypeOK, JobsOK
<1>1. ASSUME NEW c \in AdminCalls, NEW o \in Orgs, NEW s \in Sps, CreateSp(c, s, o) PROVE TypesOK'
  <2> DEFINE job == [NoCall EXCEPT !.pc = "insertSp", !.org = o, !.row = tenants[o].id, !.born = tenants[o].born, !.sp = s]
  <2>1. tenants[o].born \in 1..MaxBorn /\ tenants[o].id \in RowIds
    BY <1>1, <1>t DEF CreateSp, Present, TenantsTypeOK, TenantRow
  <2>0. tenants[o].born \in 0..MaxBorn
    BY <2>1
  <2>2. /\ job \in AdminCall /\ job.pc = "insertSp" /\ job.org = o
        /\ job.born = tenants[o].born /\ job.row = tenants[o].id /\ job.sp = s
    BY <2>0, <2>1, NoJob DEF AdminCall, CallSteps
  <2>3. JobOK(job)
    BY <2>1, <2>2 DEF JobOK, Creating, Removing
  <2>4. calls' = [calls EXCEPT ![c] = job]
    BY <1>1 DEF CreateSp, Start
  <2> HIDE DEF job
  <2>5. JobsOK' /\ calls' \in [AdminCalls -> AdminCall]
    BY <2>2, <2>3, <2>4, OneJob
  <2> QED
    BY <1>1, <1>t, <2>5 DEF CreateSp, TypesOK, TenantsTypeOK
<1>2. ASSUME NEW c \in AdminCalls, InsertSp(c) PROVE TypesOK'
  <2> DEFINE job == calls[c]
  <2>1. job.org \in Orgs /\ job.row \in RowIds /\ job.born \in 1..MaxBorn /\ job.sp \in Sps
    BY <1>2, <1>j DEF InsertSp, Doing, JobOK
  <2>2. Leaving(job.org, job.row) \in BOOLEAN
    BY DEF Leaving, Exists, Present
  <2>3. sps' \in [Sps -> Sp \cup {Nobody}]
    BY <1>2, <1>t, <2>1, <2>2 DEF InsertSp, TenantsTypeOK, Sp
  <2>4. JobsOK' /\ calls' \in [AdminCalls -> AdminCall]
    BY <1>2, DoneJob DEF InsertSp
  <2> QED
    BY <1>2, <1>t, <2>3, <2>4 DEF InsertSp, TypesOK, TenantsTypeOK
<1>3. ASSUME NEW s \in Sps, DeleteSp(s) PROVE TypesOK'
  <2>1. JobsOK'
    BY <1>3 DEF DeleteSp, TypesOK, JobsOK, JobOK
  <2> QED
    BY <1>3, <1>t, <2>1 DEF DeleteSp, TypesOK, TenantsTypeOK
<1> QED
  BY <1>1, <1>2, <1>3

-----------------------------------------------------------------------------
LEMMA KeysInit == TenantsInit => KInv
BY NoJob DEF TenantsInit, KInv, RowsOK, UniqueOK, RemovingOK, CreatingOK, HeldOK, OneOK, Present,
     Exists, Creating, Removing

(* The INSERT: there is no row with the id, the organization or the key before. *)
Inserted(c, o, k, r) ==
  /\ o = calls[c].org /\ k = calls[c].key /\ made.rows < r /\ made'.rows = r
  /\ ~Present(o) /\ \A p \in Orgs : Present(p) => tenants[p].key # k
  /\ Present(o)' /\ tenants'[o].id = r /\ tenants'[o].key = k
  /\ \A p \in Orgs \ {o} : tenants'[p] = tenants[p]
  /\ calls'[c].pc = "recheck" /\ calls'[c].org = o /\ calls'[c].key = k /\ calls'[c].row = r
  /\ \A d \in AdminCalls \ {c} : calls'[d] = calls[d]

LEMMA InsertedRow ==
  ASSUME TypesOK, NEW c \in AdminCalls, InsertTenant(c)
  PROVE  \/ Done(c) /\ UNCHANGED <<tenants, made>>
         \/ \E o \in Orgs, k \in TenantKeys, r \in RowIds : Inserted(c, o, k, r)
<1> SUFFICES ASSUME ~(Done(c) /\ UNCHANGED <<tenants, made>>)
             PROVE  \E o \in Orgs, k \in TenantKeys, r \in RowIds : Inserted(c, o, k, r)
  OBVIOUS
<1> USE TenantsAssumption DEF TenantsAssumption
<1>t. TenantsTypeOK /\ calls[c] \in AdminCall /\ JobOK(calls[c])
  BY DEF TypesOK, TenantsTypeOK, JobsOK
<1>o. calls[c].org \in Orgs /\ calls[c].key \in TenantKeys /\ calls[c].born \in 1..MaxBorn
  BY <1>t DEF InsertTenant, Doing, JobOK
<1> PICK o \in Orgs : o = calls[c].org
  BY <1>o
<1> PICK k \in TenantKeys : k = calls[c].key
  BY <1>o
<1> PICK r \in Nat : r = made.rows + 1
  BY <1>t DEF TenantsTypeOK
<1>1. PICK on \in BOOLEAN :
        /\ ~Present(o) /\ \A p \in Orgs : Present(p) => tenants[p].key # k
        /\ made.rows < MaxTenants
        /\ tenants' = [tenants EXCEPT ![o] =
                         [id |-> r, key |-> k, born |-> calls[c].born, enabled |-> on]]
        /\ calls' = [calls EXCEPT ![c].pc = "recheck", ![c].row = r]
        /\ made' = [made EXCEPT !.rows = r]
  BY DEF InsertTenant
<1>2. r \in RowIds /\ made'.rows = r /\ made.rows < r
  BY <1>t, <1>1 DEF TenantsTypeOK, RowIds
<1>3. /\ calls'[c].pc = "recheck" /\ calls'[c].row = r /\ calls'[c].key = k /\ calls'[c].org = o
      /\ \A d \in AdminCalls \ {c} : calls'[d] = calls[d]
  BY <1>t, <1>1 DEF TenantsTypeOK, AdminCall
<1>4. /\ tenants'[o].id = r /\ tenants'[o].key = k /\ Present(o)'
      /\ \A p \in Orgs \ {o} : tenants'[p] = tenants[p]
  <2>1. [id |-> r, key |-> k, born |-> calls[c].born, enabled |-> on] \in TenantRow
    BY <1>o, <1>2 DEF TenantRow
  <2>2. tenants'[o] = [id |-> r, key |-> k, born |-> calls[c].born, enabled |-> on]
    BY <1>t, <1>1 DEF TenantsTypeOK
  <2> QED
    BY <1>t, <1>1, <2>1, <2>2 DEF TenantsTypeOK, Present
<1> QED
  BY <1>1, <1>2, <1>3, <1>4 DEF Inserted

(* The INSERT gives the row an id that nobody knows yet, and the key to one row only. *)
LEMMA InsertKeeps ==
  ASSUME TypesOK, KInv, TypesOK', NEW c \in AdminCalls, InsertTenant(c)
  PROVE  KInv'
<1> USE DEF KInv
<1>t. TenantsTypeOK
  BY DEF TypesOK
<1>1. CASE Done(c) /\ UNCHANGED <<tenants, made>>
  <2>1. NoneBegins
    BY <1>1, DoneJob DEF NoneBegins, Creating, Removing
  <2> QED
    BY <1>1, <2>1, QuietStep DEF InsertTenant, Kept, Present
<1>2. CASE ~(Done(c) /\ UNCHANGED <<tenants, made>>)
  <2> PICK o \in Orgs, k \in TenantKeys, r \in RowIds : Inserted(c, o, k, r)
    BY <1>2, InsertedRow
  <2>n. RowIds \subseteq Nat
    BY TenantsAssumption DEF TenantsAssumption, RowIds
  <2>1. ~Present(o) /\ \A p \in Orgs : Present(p) => tenants[p].key # k
    BY DEF Inserted
  <2>2. r \in Nat /\ made'.rows = r /\ made.rows \in Nat /\ made.rows < r
    BY <1>t, <2>n, TenantsAssumption DEF TenantsAssumption, TenantsTypeOK, Inserted
  <2>3. /\ calls'[c].pc = "recheck" /\ calls'[c].row = r /\ calls'[c].key = k /\ calls'[c].org = o
        /\ \A d \in AdminCalls \ {c} : calls'[d] = calls[d]
    BY DEF Inserted
  <2>4. /\ tenants'[o].id = r /\ tenants'[o].key = k /\ Present(o)'
        /\ \A p \in Orgs \ {o} : tenants'[p] = tenants[p]
    BY DEF Inserted
  <2>5. UNCHANGED <<retired, given, signing>>
    BY DEF InsertTenant
  <2>6. \A d \in AdminCalls :
          calls[d].pc \in Creating \cup Removing => calls[d].org \in Orgs /\ calls[d].row \in RowIds
    BY DEF TypesOK, JobsOK, JobOK, Creating, Removing
  <2>7. signing \subseteq RowIds /\ \A k1 \in TenantKeys : given[k1] \subseteq RowIds
    BY <1>t DEF TenantsTypeOK
  <2>8. \A q : \A p \in Orgs : Exists(p, q)' <=> (p # o /\ Exists(p, q)) \/ (p = o /\ q = r)
    BY <2>4 DEF Exists, Present
  <2>9. \A q, k1 : Held(q, k1) => Held(q, k1)'
    BY <2>1, <2>4, <2>5, <2>8 DEF Held, Exists
  <2>10. RowsOK'
    <3>1. \A p \in Orgs : Present(p) => tenants[p].id \in RowIds
      BY <1>t DEF TenantsTypeOK, Present, TenantRow
    <3>0. \A i \in RowIds : i <= made.rows => i <= r
      BY <2>2, <2>n
    <3>2. \A p \in Orgs : Present(p)' => tenants'[p].id <= r
      <4>1. \A p \in Orgs : Present(p) => tenants[p].id <= r
        BY <3>0, <3>1 DEF RowsOK
      <4>2. tenants'[o].id <= r
        BY <2>2, <2>4
      <4> QED
        BY <2>4, <4>1, <4>2 DEF Present
    <3>3. \A d \in AdminCalls : calls'[d].pc \in Creating \cup Removing => calls'[d].row <= r
      <4>1. \A d \in AdminCalls : calls[d].pc \in Creating \cup Removing => calls[d].row <= r
        BY <2>6, <3>0 DEF RowsOK
      <4>2. r <= r
        BY <2>2
      <4> QED
        BY <2>3, <4>1, <4>2
    <3>4. (\A k1 \in TenantKeys : \A q \in given[k1] : q <= r) /\ \A q \in signing : q <= r
      BY <2>7, <3>0 DEF RowsOK
    <3> QED
      BY <2>2, <2>5, <3>2, <3>3, <3>4 DEF RowsOK
  <2>11. UniqueOK'
    BY <2>1, <2>4 DEF UniqueOK, Present
  <2>12. RemovingOK'
    <3>1. \A d \in AdminCalls : calls[d].pc \in Removing => calls[d].row # r
      BY <2>2, <2>6, <2>n DEF RowsOK
    <3> SUFFICES ASSUME NEW d \in AdminCalls \ {c}, calls[d].pc \in Removing
                 PROVE  /\ Exists(calls[d].org, calls[d].row)' => tenants'[calls[d].org].key = calls[d].key
                        /\ calls[d].pc = "deleteRow" => calls[d].key \in retired
      BY <2>3, <2>5 DEF RemovingOK, Removing
    <3>2. calls[d].org \in Orgs /\ calls[d].row # r /\ calls'[d] = calls[d]
      BY <2>3, <2>6, <3>1
    <3>3. Exists(calls[d].org, calls[d].row)' => calls[d].org # o /\ Exists(calls[d].org, calls[d].row)
      BY <2>8, <3>2
    <3>4. Exists(calls[d].org, calls[d].row)' => tenants'[calls[d].org].key = calls[d].key
      BY <2>4, <3>2, <3>3 DEF RemovingOK
    <3> QED
      BY <3>4 DEF RemovingOK
  <2>13. CreatingOK'
    <3>1. \A d \in AdminCalls : calls[d].pc \in Creating => calls[d].row # r
      BY <2>2, <2>6, <2>n DEF RowsOK
    <3>2. \A k1 \in TenantKeys : r \notin given[k1]
      BY <2>2, <2>7, <2>n DEF RowsOK
    <3> QED
      BY <2>3, <2>5, <3>1, <3>2 DEF CreatingOK
  <2>14. HeldOK'
    <3>1. Held(r, k)'
      BY <2>4, <2>8 DEF Held
    <3> QED
      BY <2>3, <2>5, <2>9, <3>1 DEF HeldOK
  <2>15. OneOK'
    BY <2>3, <2>5 DEF OneOK
  <2> QED
    BY <2>10, <2>11, <2>12, <2>13, <2>14, <2>15
<1> QED
  BY <1>1, <1>2

(* A create that finds its key not retired is the only one that has found it so. *)
LEMMA RecheckKeeps ==
  ASSUME TypesOK, KInv, TypesOK', NEW c \in AdminCalls, Recheck(c)
  PROVE  KInv'
<1> USE DEF KInv
<1>t. TenantsTypeOK
  BY DEF TypesOK
<1>j. calls[c] \in AdminCall /\ JobOK(calls[c])
  BY DEF TypesOK, TenantsTypeOK, JobsOK
<1>p. calls[c].pc = "recheck"
  BY DEF Recheck, Doing
<1> PICK k \in TenantKeys, r \in RowIds : k = calls[c].key /\ r = calls[c].row
  BY <1>j, <1>p DEF JobOK, Creating
<1>1. PICK step \in {"undo", "writeKey"} :
        /\ Step(c, step)
        /\ step = "undo" => UNCHANGED given
        /\ step = "writeKey" => k \notin retired /\ given' = [given EXCEPT ![k] = @ \cup {r}]
  BY DEF Recheck
<1>2. /\ calls'[c].pc = step /\ calls'[c].key = k /\ calls'[c].row = r
      /\ \A d \in AdminCalls \ {c} : calls'[d] = calls[d]
  BY <1>1, <1>p, StepJob DEF CallSteps, Creating, Removing
<1>4. UNCHANGED <<tenants, retired, signing, made>>
  BY DEF Recheck
<1>5. \A q, l : Held(q, l)' <=> Held(q, l)
  BY <1>4 DEF Held, Exists, Present
<1>6. Held(r, k)
  BY <1>p DEF HeldOK
<1>7. step = "writeKey" => given[k] = {}
  <2> SUFFICES ASSUME step = "writeKey", NEW q \in given[k] PROVE FALSE
    OBVIOUS
  <2>1. Held(q, k) /\ k \notin retired
    BY <1>1 DEF HeldOK
  <2>2. q = r
    BY <1>6, <2>1 DEF Held, UniqueOK, Exists
  <2> QED
    BY <1>p, <2>2 DEF CreatingOK, Creating
<1>8. /\ \A l \in TenantKeys : given'[l] \subseteq given[l] \cup {r}
      /\ \A l \in TenantKeys \ {k} : given'[l] = given[l]
      /\ given'[k] = given[k] \/ given'[k] = {r}
  BY <1>1, <1>7, <1>t DEF TenantsTypeOK
<1>9. RowsOK'
  <2>1. r <= made.rows
    BY <1>p DEF RowsOK, Creating
  <2> QED
    BY <1>2, <1>4, <1>8, <1>p, <2>1 DEF RowsOK, Present, Creating, Removing
<1>10. UniqueOK'
  BY <1>4 DEF UniqueOK, Present
<1>11. RemovingOK'
  BY <1>1, <1>2, <1>4 DEF RemovingOK, Removing, Exists, Present
<1>12. CreatingOK'
  <2>1. ASSUME NEW d \in AdminCalls, calls'[d].pc = "recheck", NEW l \in TenantKeys
        PROVE  calls'[d].row \notin given'[l]
    <3>1. d # c /\ calls'[d] = calls[d]
      BY <1>1, <1>2, <2>1
    <3>2. calls[d].row # r
      BY <1>p, <2>1, <3>1 DEF CreatingOK, Creating
    <3> QED
      BY <1>8, <2>1, <3>1, <3>2 DEF CreatingOK, Creating
  <2>2. ASSUME NEW d \in AdminCalls, NEW e \in AdminCalls,
               calls'[d].pc \in Creating, calls'[e].pc \in Creating, calls'[d].row = calls'[e].row
        PROVE  d = e
    BY <1>2, <1>p, <2>2 DEF CreatingOK, Creating
  <2> QED
    BY <2>1, <2>2 DEF CreatingOK
<1>13. HeldOK'
  BY <1>1, <1>2, <1>5, <1>6, <1>8 DEF HeldOK
<1>14. OneOK'
  BY <1>8 DEF OneOK
<1> QED
  BY <1>9, <1>10, <1>11, <1>12, <1>13, <1>14

LEMMA WriteKeeps ==
  ASSUME TypesOK, KInv, TypesOK', NEW c \in AdminCalls, WriteActiveKey(c)
  PROVE  KInv'
<1> USE DEF KInv
<1>p. calls[c].pc = "writeKey"
  BY DEF WriteActiveKey, Doing
<1>1. UNCHANGED <<tenants, retired, given, made>> /\ signing' \subseteq signing \cup {calls[c].row}
  BY DEF WriteActiveKey
<1>2. /\ calls'[c].pc \in {"idle", "undo"}
      /\ calls'[c].pc = "undo" => calls'[c].row = calls[c].row
      /\ \A d \in AdminCalls \ {c} : calls'[d] = calls[d]
  <2>1. CASE Done(c)
    BY <2>1, DoneJob
  <2>2. CASE Step(c, "undo")
    BY <1>p, <2>2, StepJob DEF CallSteps, Creating, Removing
  <2> QED
    BY <2>1, <2>2 DEF WriteActiveKey
<1>3. \A q, l : Held(q, l)' <=> Held(q, l)
  BY <1>1 DEF Held, Exists, Present
<1>4. RowsOK' /\ UniqueOK'
  <2>1. calls[c].row <= made.rows
    BY <1>p DEF RowsOK, Creating
  <2> QED
    BY <1>1, <1>2, <2>1 DEF RowsOK, UniqueOK, Present, Creating, Removing
<1>5. RemovingOK'
  BY <1>1, <1>2 DEF RemovingOK, Removing, Exists, Present
<1>6. CreatingOK'
  BY <1>1, <1>2, <1>p DEF CreatingOK, Creating
<1>7. HeldOK'
  BY <1>1, <1>2, <1>3 DEF HeldOK
<1>8. OneOK'
  BY <1>1 DEF OneOK
<1> QED
  BY <1>4, <1>5, <1>6, <1>7, <1>8

(* An undo takes its own row, and that row counts no more. *)
LEMMA UndoKeeps ==
  ASSUME TypesOK, KInv, TypesOK', NEW c \in AdminCalls, Undo(c)
  PROVE  KInv'
<1> USE DEF KInv
<1>j. JobOK(calls[c]) /\ calls[c].pc = "undo"
  BY DEF TypesOK, JobsOK, Undo, Doing
<1> PICK o \in Orgs, r \in RowIds : o = calls[c].org /\ r = calls[c].row
  BY <1>j DEF JobOK, Creating
<1>1. \A p \in Orgs : tenants'[p] = IF p = o /\ Exists(o, r) THEN Nobody ELSE tenants[p]
  BY DeletedById DEF Undo
<1>2. calls'[c].pc = "idle" /\ \A d \in AdminCalls \ {c} : calls'[d] = calls[d]
  BY DoneJob DEF Undo
<1>3. UNCHANGED <<retired, signing, made>> /\ \A k \in TenantKeys : given'[k] = given[k] \ {r}
  BY DEF Undo
<1>4. \A q : \A p \in Orgs : Exists(p, q) /\ q # r => Exists(p, q)' /\ tenants'[p] = tenants[p]
  BY <1>1 DEF Exists, Present
<1>5. \A q : \A p \in Orgs : Exists(p, q)' => Exists(p, q) /\ tenants'[p] = tenants[p]
  BY <1>1 DEF Exists, Present
<1>6. \A p \in Orgs : Present(p)' => Present(p) /\ tenants'[p] = tenants[p]
  BY <1>1 DEF Present
<1>7. RowsOK' /\ UniqueOK'
  BY <1>2, <1>3, <1>6 DEF RowsOK, UniqueOK, Creating, Removing
<1>8. RemovingOK'
  <2>1. \A d \in AdminCalls : calls[d].pc \in Removing => calls[d].org \in Orgs
    BY DEF TypesOK, JobsOK, JobOK, Removing
  <2> QED
    BY <1>2, <1>3, <1>5, <2>1 DEF RemovingOK, Removing
<1>9. CreatingOK'
  BY <1>2, <1>3 DEF CreatingOK, Creating
<1>10. HeldOK'
  <2>1. \A q, k : q # r /\ Held(q, k) => Held(q, k)'
    BY <1>3, <1>4 DEF Held
  <2>2. \A d \in AdminCalls \ {c} : calls[d].pc \in Creating => calls[d].row # r
    BY <1>j DEF CreatingOK, Creating
  <2> QED
    BY <1>2, <1>3, <2>1, <2>2 DEF HeldOK, Creating
<1>11. OneOK'
  BY <1>2, <1>3 DEF OneOK
<1> QED
  BY <1>7, <1>8, <1>9, <1>10, <1>11

LEMMA RemoveKeeps ==
  ASSUME TypesOK, KInv, TypesOK', NEW c \in AdminCalls,
         \/ \E o \in Orgs : DeleteTenant(c, o)
         \/ RetireKey(c) \/ DeleteRow(c)
  PROVE  KInv'
<1> USE DEF KInv
<1>t. TenantsTypeOK
  BY DEF TypesOK
<1>j. JobOK(calls[c]) /\ calls[c] \in AdminCall
  BY DEF TypesOK, TenantsTypeOK, JobsOK
<1>1. ASSUME NEW o \in Orgs, DeleteTenant(c, o) PROVE KInv'
  <2>1. /\ calls'[c].pc = "retire" /\ calls'[c].org = o
        /\ calls'[c].key = tenants[o].key /\ calls'[c].row = tenants[o].id
        /\ \A d \in AdminCalls \ {c} : calls'[d] = calls[d]
    BY <1>1, <1>t, NoJob DEF DeleteTenant, Start, TenantsTypeOK, AdminCall
  <2>2. UNCHANGED <<tenants, retired, given, signing, made>> /\ Present(o)
    BY <1>1 DEF DeleteTenant
  <2>3. \A q, k : Held(q, k)' <=> Held(q, k)
    BY <2>2 DEF Held, Exists, Present
  <2>4. RowsOK' /\ UniqueOK'
    BY <2>1, <2>2 DEF RowsOK, UniqueOK, Present, Creating, Removing
  <2>5. RemovingOK'
    BY <2>1, <2>2 DEF RemovingOK, Removing, Exists, Present
  <2>6. CreatingOK' /\ OneOK'
    BY <2>1, <2>2 DEF CreatingOK, OneOK, Creating
  <2>7. HeldOK'
    BY <2>1, <2>2, <2>3 DEF HeldOK
  <2> QED
    BY <2>4, <2>5, <2>6, <2>7
<1>2. ASSUME RetireKey(c) PROVE KInv'
  <2>1. /\ calls[c].pc = "retire" /\ calls'[c].pc = "deleteRow" /\ calls'[c].org = calls[c].org
        /\ calls'[c].key = calls[c].key /\ calls'[c].row = calls[c].row
        /\ \A d \in AdminCalls \ {c} : calls'[d] = calls[d]
    BY <1>2, StepJob DEF RetireKey, Doing, CallSteps, Creating, Removing
  <2>2. UNCHANGED <<tenants, given, signing, made>> /\ retired' = retired \cup {calls[c].key}
    BY <1>2 DEF RetireKey
  <2>3. \A q, k : Held(q, k) => Held(q, k)'
    BY <2>2 DEF Held, Exists, Present
  <2>4. RowsOK' /\ UniqueOK'
    BY <2>1, <2>2 DEF RowsOK, UniqueOK, Present, Creating, Removing
  <2>5. RemovingOK'
    BY <2>1, <2>2 DEF RemovingOK, Removing, Exists, Present
  <2>6. CreatingOK' /\ OneOK'
    BY <2>1, <2>2 DEF CreatingOK, OneOK, Creating
  <2>7. HeldOK'
    BY <2>1, <2>2, <2>3 DEF HeldOK
  <2> QED
    BY <2>4, <2>5, <2>6, <2>7
<1>3. ASSUME DeleteRow(c) PROVE KInv'
  <2>p. calls[c].pc = "deleteRow"
    BY <1>3 DEF DeleteRow, Doing
  <2> PICK o \in Orgs, r \in RowIds : o = calls[c].org /\ r = calls[c].row
    BY <1>j, <2>p DEF JobOK, Removing
  <2>1. \A p \in Orgs : tenants'[p] = IF p = o /\ Exists(o, r) THEN Nobody ELSE tenants[p]
    BY <1>3, DeletedById DEF DeleteRow
  <2>2. calls'[c].pc = "deleteKeys" /\ \A d \in AdminCalls \ {c} : calls'[d] = calls[d]
    BY <1>3, StepJob DEF DeleteRow, Doing, CallSteps, Creating, Removing
  <2>3. UNCHANGED <<retired, given, made>> /\ signing' \subseteq signing
    BY <1>3 DEF DeleteRow
  <2>4. \A q : \A p \in Orgs : Exists(p, q)' => Exists(p, q) /\ tenants'[p] = tenants[p]
    BY <2>1 DEF Exists, Present
  <2>5. \A p \in Orgs : Present(p)' => Present(p) /\ tenants'[p] = tenants[p]
    BY <2>1 DEF Present
  <2>6. RowsOK' /\ UniqueOK'
    BY <2>2, <2>3, <2>5 DEF RowsOK, UniqueOK, Creating, Removing
  <2>7. RemovingOK'
    <3>1. \A d \in AdminCalls : calls[d].pc \in Removing => calls[d].org \in Orgs
      BY DEF TypesOK, JobsOK, JobOK, Removing
    <3> QED
      BY <2>2, <2>3, <2>4, <3>1 DEF RemovingOK, Removing
  <2>8. CreatingOK' /\ OneOK'
    BY <2>2, <2>3 DEF CreatingOK, OneOK, Creating
  <2>9. HeldOK'
    <3>1. Exists(o, r) => tenants[o].key \in retired
      BY <2>p DEF RemovingOK, Removing
    <3>2. ASSUME NEW q, NEW k, Held(q, k), k \notin retired PROVE Held(q, k)'
      <4>1. PICK p \in Orgs : Exists(p, q) /\ tenants[p].key = k
        BY <3>2 DEF Held
      <4>2. ~(p = o /\ Exists(o, r))
        BY <3>1, <3>2, <4>1
      <4>3. tenants'[p] = tenants[p]
        BY <2>1, <4>2
      <4> QED
        BY <4>1, <4>3 DEF Held, Exists, Present
    <3>3. \A q, k : Held(q, k) => Held(q, k)'
      <4>1. \A q, k : k \in retired => Held(q, k)'
        BY <2>3 DEF Held
      <4> QED
        BY <3>2, <4>1
    <3> QED
      BY <2>2, <2>3, <3>3 DEF HeldOK
  <2> QED
    BY <2>6, <2>7, <2>8, <2>9
<1> QED
  BY <1>1, <1>2, <1>3

(* Everything else leaves keys, rows and their ids alone. *)
Others ==
  \/ \E c \in AdminCalls :
       \/ \E o \in Orgs :
            \/ \E k \in TenantKeys : CreateTenant(c, o, k)
            \/ DeleteOrganization(c, o)
            \/ \E s \in Sps : CreateSp(c, s, o)
       \/ DeleteKeys(c) \/ OrganizationDeleted(c) \/ Disable(c) \/ InsertSp(c) \/ CrashCall(c)
  \/ \E o \in Orgs : CreateOrganization(o) \/ \E on \in BOOLEAN : SetEnabled(o, on)
  \/ \E s \in Sps : DeleteSp(s)

LEMMA OthersFrame ==
  ASSUME TypesOK, Others
  PROVE  NoneBegins /\ Kept /\ UNCHANGED <<retired, given>> /\ signing' \subseteq signing /\ made'.rows = made.rows
<1>t. TenantsTypeOK
  BY DEF TypesOK
<1>1. UNCHANGED <<retired, given>> /\ signing' \subseteq signing /\ made'.rows = made.rows
  BY <1>t DEF TenantsTypeOK, CreateTenant, DeleteOrganization, CreateSp, DeleteKeys, OrganizationDeleted,
    Disable, InsertSp, CrashCall, CreateOrganization, SetEnabled, DeleteSp, Others
<1>2. NoneBegins
  <2>n. {"idle", "insert", "hook", "disable", "insertSp"} \cap (Creating \cup Removing) = {}
    BY DEF Creating, Removing
  <2>1. CASE UNCHANGED calls
    BY <2>1 DEF NoneBegins
  <2>2. ASSUME NEW c \in AdminCalls, Done(c) PROVE NoneBegins
    BY <2>2, <2>n, DoneJob DEF NoneBegins
  <2>3. ASSUME NEW c \in AdminCalls, NEW o \in Orgs,
               \/ \E k \in TenantKeys : CreateTenant(c, o, k)
               \/ DeleteOrganization(c, o)
               \/ \E s \in Sps : CreateSp(c, s, o)
        PROVE  NoneBegins
    <3>1. \A d \in AdminCalls \ {c} : calls'[d] = calls[d]
      BY <1>t, <2>3 DEF CreateTenant, DeleteOrganization, CreateSp, Start, TenantsTypeOK
    <3>2. calls'[c].pc \in {"insert", "hook", "insertSp"}
      <4>1. CASE \E k \in TenantKeys : CreateTenant(c, o, k)
        <5> PICK k \in TenantKeys : CreateTenant(c, o, k)
          BY <4>1
        <5> DEFINE job == [NoCall EXCEPT !.pc = "insert", !.org = o, !.key = k, !.born = orgs[o]]
        <5>1. job.pc = "insert"
          BY NoJob DEF AdminCall
        <5>2. calls' = [calls EXCEPT ![c] = job]
          BY DEF CreateTenant, Start
        <5> HIDE DEF job
        <5> QED
          BY <1>t, <5>1, <5>2 DEF TenantsTypeOK
      <4>2. CASE DeleteOrganization(c, o)
        BY <1>t, <4>2, NoJob DEF DeleteOrganization, Start, TenantsTypeOK, AdminCall
      <4>3. CASE \E s \in Sps : CreateSp(c, s, o)
        <5> PICK s \in Sps : CreateSp(c, s, o)
          BY <4>3
        <5> DEFINE job == [NoCall EXCEPT !.pc = "insertSp", !.org = o, !.row = tenants[o].id, !.born = tenants[o].born, !.sp = s]
        <5>1. job.pc = "insertSp"
          BY NoJob DEF AdminCall
        <5>2. calls' = [calls EXCEPT ![c] = job]
          BY DEF CreateSp, Start
        <5> HIDE DEF job
        <5> QED
          BY <1>t, <5>1, <5>2 DEF TenantsTypeOK
      <4> QED
        BY <2>3, <4>1, <4>2, <4>3
    <3> QED
      BY <2>n, <3>1, <3>2 DEF NoneBegins
  <2>4. ASSUME NEW c \in AdminCalls, OrganizationDeleted(c), ~Done(c) PROVE NoneBegins
    <3>1. calls' = [calls EXCEPT ![c].pc = "disable", ![c].row = tenants[calls[c].org].id]
      BY <2>4 DEF OrganizationDeleted
    <3>2. calls'[c].pc = "disable" /\ \A d \in AdminCalls \ {c} : calls'[d] = calls[d]
      BY <1>t, <3>1 DEF TenantsTypeOK, AdminCall
    <3> QED
      BY <2>n, <3>2 DEF NoneBegins
  <2> QED
    BY <2>1, <2>2, <2>3, <2>4 DEF Others, DeleteKeys, OrganizationDeleted, Disable, InsertSp, CrashCall,
      CreateOrganization, SetEnabled, DeleteSp
<1>3. Kept
  <2>1. CASE UNCHANGED tenants
    BY <2>1 DEF Kept, Present
  <2>2. ASSUME NEW p \in Orgs, NEW on \in BOOLEAN,
               Present(p), tenants' = [tenants EXCEPT ![p].enabled = on]
        PROVE  Kept
    <3>1. tenants[p] \in TenantRow /\ [tenants[p] EXCEPT !.enabled = on] \in TenantRow
      BY <1>t, <2>2 DEF Present, TenantsTypeOK, TenantRow
    <3>2. /\ tenants'[p] \in TenantRow /\ tenants'[p].id = tenants[p].id
          /\ tenants'[p].key = tenants[p].key
          /\ tenants'[p].born = tenants[p].born
      BY <1>t, <2>2, <3>1 DEF TenantsTypeOK, TenantRow
    <3>3. Present(p)'
      BY <3>2, TenantsAssumption DEF TenantsAssumption, Present
    <3>4. \A o \in Orgs \ {p} : tenants'[o] = tenants[o]
      BY <1>t, <2>2 DEF TenantsTypeOK
    <3> QED
      BY <2>2, <3>2, <3>3, <3>4 DEF Kept, Present
  <2>3. ASSUME NEW c \in AdminCalls, Disable(c) PROVE Kept
    <3>1. calls[c].org \in Orgs
      BY <2>3 DEF TypesOK, JobsOK, JobOK, Disable, Doing
    <3>2. CASE Exists(calls[c].org, calls[c].row)
      BY <2>2, <2>3, <3>1, <3>2 DEF Disable, Exists
    <3>3. CASE ~Exists(calls[c].org, calls[c].row)
      BY <1>t, <2>1, <2>3, <3>1, <3>3 DEF Disable, TenantsTypeOK
    <3> QED
      BY <3>2, <3>3
  <2> QED
    BY <2>1, <2>2, <2>3 DEF Others, CreateTenant, DeleteOrganization, CreateSp, DeleteKeys, OrganizationDeleted,
      InsertSp, CrashCall, CreateOrganization, SetEnabled, DeleteSp
<1> QED
  BY <1>1, <1>2, <1>3

LEMMA OthersKeep ==
  ASSUME TypesOK, KInv, TypesOK', Others
  PROVE  KInv'
BY OthersFrame, QuietStep

-----------------------------------------------------------------------------
LEMMA TenantsStep == TypesOK /\ KInv /\ [TenantsNext]_tenantsVars => TypesOK' /\ KInv'
<1> SUFFICES ASSUME TypesOK, KInv, [TenantsNext]_tenantsVars PROVE TypesOK' /\ KInv'
  OBVIOUS
<1>1. CASE UNCHANGED tenantsVars
  <2>1. TypesOK'
    BY <1>1 DEF tenantsVars, TypesOK, TenantsTypeOK, JobsOK, JobOK
  <2>2. KInv'
    BY <1>1, <2>1, QuietStep DEF tenantsVars, NoneBegins, Kept, Present
  <2> QED
    BY <2>1, <2>2
<1>2. CASE TenantsNext
  <2>1. TypesOK'
    BY <1>2, CreateTypes, RemoveTypes, HostTypes, SpTypes DEF TenantsNext
  <2>2. KInv'
    BY <1>2, <2>1, InsertKeeps, RecheckKeeps, WriteKeeps, UndoKeeps, RemoveKeeps, OthersKeep
      DEF TenantsNext, Others
  <2> QED
    BY <2>1, <2>2
<1> QED
  BY <1>1, <1>2

(* Organizations, tenants, keys, SPs and calls keep their shape: a call has what its    *)
(* next access to the database needs.                                                   *)
THEOREM TenantsHaveTheirTypes == TenantsSpec => []TypesOK
<1>1. TenantsInit => TypesOK /\ KInv
  BY TypesInit, KeysInit
<1>2. TypesOK /\ KInv /\ [TenantsNext]_tenantsVars => (TypesOK /\ KInv)'
  BY TenantsStep
<1> QED
  BY <1>1, <1>2, PTL DEF TenantsSpec

(* However creates and deletes overlap, and wherever deletes stop, no two tenants that  *)
(* were made for a key (their creates found it free once their rows were in place) have *)
(* it, one after the other; row ids are not given out again.                            *)
THEOREM KeysAreGivenOnce == TenantsSpec => []KeyGivenOnce
<1>1. TenantsInit => TypesOK /\ KInv
  BY TypesInit, KeysInit
<1>2. TypesOK /\ KInv /\ [TenantsNext]_tenantsVars => (TypesOK /\ KInv)'
  BY TenantsStep
<1>3. KInv => KeyGivenOnce
  <2> SUFFICES ASSUME KInv, NEW k \in TenantKeys PROVE Cardinality(given[k]) <= 1
    BY DEF KeyGivenOnce
  <2>1. CASE given[k] = {}
    BY <2>1, FS_EmptySet
  <2>2. ASSUME NEW r \in given[k] PROVE Cardinality(given[k]) <= 1
    <3>1. given[k] = {r}
      BY <2>2 DEF KInv, OneOK
    <3> QED
      BY <3>1, FS_Singleton
  <2> QED
    BY <2>1, <2>2
<1> QED
  BY <1>1, <1>2, <1>3, PTL DEF TenantsSpec
-----------------------------------------------------------------------------
(* What SPs and signing keys depend on: the steps that take a tenant away, and the     *)
(* rows they take.                                                                     *)
NoneJoins ==
  \A d \in AdminCalls :
    /\ calls'[d].pc \in Creating => calls[d].pc \in Creating
    /\ calls'[d].pc \in Creating \cup Removing =>
         /\ calls[d].pc \in Creating \cup Removing
         /\ calls'[d].org = calls[d].org /\ calls'[d].row = calls[d].row

Removed(c, o, r) ==
  /\ calls[c].pc \in {"undo", "deleteRow"} /\ calls[c].org = o /\ calls[c].row = r
  /\ \A p \in Orgs : tenants'[p] = IF p = o /\ Exists(o, r) THEN Nobody ELSE tenants[p]

LEMMA StepShape ==
  ASSUME TypesOK, TenantsNext
  PROVE  \/ NoneJoins /\ Kept
         \/ NoneJoins /\ \E c \in AdminCalls, o \in Orgs, r \in RowIds : Removed(c, o, r)
         \/ \E c \in AdminCalls, o \in Orgs, k \in TenantKeys, r \in RowIds : Inserted(c, o, k, r)
         \/ \E c \in AdminCalls, o \in Orgs : DeleteTenant(c, o)
<1>f. NoneBegins => NoneJoins
  BY DEF NoneBegins, NoneJoins
<1>d. \A c \in AdminCalls : Done(c) => NoneJoins
  BY DoneJob DEF NoneJoins, Creating, Removing
<1>k. UNCHANGED tenants => Kept
  BY DEF Kept, Present
<1>1. ASSUME NEW c \in AdminCalls, InsertTenant(c)
      PROVE  \/ NoneJoins /\ Kept
             \/ \E o \in Orgs, k \in TenantKeys, r \in RowIds : Inserted(c, o, k, r)
  BY <1>1, <1>d, <1>k, InsertedRow
<1>2. ASSUME NEW c \in AdminCalls, Recheck(c) PROVE NoneJoins /\ Kept
  <2>1. PICK step \in {"undo", "writeKey"} : Step(c, step)
    BY <1>2 DEF Recheck
  <2>2. /\ calls'[c].org = calls[c].org /\ calls'[c].row = calls[c].row
        /\ \A d \in AdminCalls \ {c} : calls'[d] = calls[d]
    BY <1>2, <2>1, StepJob DEF Recheck, Doing, CallSteps, Creating, Removing
  <2> QED
    BY <1>2, <1>k, <2>2 DEF Recheck, Doing, NoneJoins, Creating
<1>3. ASSUME NEW c \in AdminCalls, WriteActiveKey(c) PROVE NoneJoins /\ Kept
  <2>1. CASE Done(c)
    BY <1>3, <1>d, <1>k, <2>1 DEF WriteActiveKey
  <2>2. CASE Step(c, "undo")
    <3>1. /\ calls'[c].org = calls[c].org /\ calls'[c].row = calls[c].row
          /\ \A d \in AdminCalls \ {c} : calls'[d] = calls[d]
      BY <1>3, <2>2, StepJob DEF WriteActiveKey, Doing, CallSteps, Creating, Removing
    <3> QED
      BY <1>3, <1>k, <3>1 DEF WriteActiveKey, Doing, NoneJoins, Creating
  <2> QED
    BY <1>3, <2>1, <2>2 DEF WriteActiveKey
<1>4. ASSUME NEW c \in AdminCalls, Undo(c)
      PROVE  NoneJoins /\ \E o \in Orgs, r \in RowIds : Removed(c, o, r)
  <2>1. calls[c].pc = "undo" /\ calls[c].org \in Orgs /\ calls[c].row \in RowIds
    BY <1>4 DEF TypesOK, JobsOK, JobOK, Undo, Doing, Creating
  <2>2. Removed(c, calls[c].org, calls[c].row)
    BY <1>4, <2>1, DeletedById DEF Undo, Removed
  <2> QED
    BY <1>4, <1>d, <2>1, <2>2 DEF Undo
<1>5. ASSUME NEW c \in AdminCalls, RetireKey(c) PROVE NoneJoins /\ Kept
  <2>1. /\ calls'[c].pc = "deleteRow" /\ calls'[c].org = calls[c].org /\ calls'[c].row = calls[c].row
        /\ \A d \in AdminCalls \ {c} : calls'[d] = calls[d]
    BY <1>5, StepJob DEF RetireKey, Doing, CallSteps, Creating, Removing
  <2> QED
    BY <1>5, <1>k, <2>1 DEF RetireKey, Doing, NoneJoins, Creating, Removing
<1>6. ASSUME NEW c \in AdminCalls, DeleteRow(c)
      PROVE  NoneJoins /\ \E o \in Orgs, r \in RowIds : Removed(c, o, r)
  <2>1. calls[c].pc = "deleteRow" /\ calls[c].org \in Orgs /\ calls[c].row \in RowIds
    BY <1>6 DEF TypesOK, JobsOK, JobOK, DeleteRow, Doing, Removing
  <2>2. Removed(c, calls[c].org, calls[c].row)
    BY <1>6, <2>1, DeletedById DEF DeleteRow, Removed
  <2>3. calls'[c].pc = "deleteKeys" /\ \A d \in AdminCalls \ {c} : calls'[d] = calls[d]
    BY <1>6, StepJob DEF DeleteRow, Doing, CallSteps, Creating, Removing
  <2> QED
    BY <2>1, <2>2, <2>3 DEF NoneJoins, Creating, Removing
<1>7. CASE Others
  BY <1>7, <1>f, OthersFrame
<1> QED
  BY <1>1, <1>2, <1>3, <1>4, <1>5, <1>6, <1>7 DEF TenantsNext, Others

(* A tenant that nobody is taking away stays, until a delete sets out to.              *)
LEMMA StayingStays ==
  ASSUME TypesOK, TenantsNext, NEW o \in Orgs, NEW r \in RowIds, ~Leaving(o, r),
         \A c \in AdminCalls : ~DeleteTenant(c, o)
  PROVE  ~Leaving(o, r)' /\ tenants'[o].born = tenants[o].born
<1>1. Exists(o, r) /\ Present(o)
  BY DEF Leaving, Exists
<1>2. \A d \in AdminCalls :
        calls[d].org = o /\ calls[d].row = r => calls[d].pc \notin Creating \cup Removing
  BY DEF Leaving, Creating, Removing
<1>3. SUFFICES /\ Exists(o, r)' /\ tenants'[o].born = tenants[o].born
               /\ \A d \in AdminCalls :
                    calls'[d].org = o /\ calls'[d].row = r => calls'[d].pc \notin Creating \cup Removing
  BY DEF Leaving, Creating, Removing
<1>4. CASE NoneJoins /\ Kept
  BY <1>1, <1>2, <1>4 DEF NoneJoins, Kept, Exists
<1>5. CASE NoneJoins /\ \E c \in AdminCalls, p \in Orgs, q \in RowIds : Removed(c, p, q)
  <2> PICK c \in AdminCalls, p \in Orgs, q \in RowIds : Removed(c, p, q)
    BY <1>5
  <2>1. ~(p = o /\ Exists(p, q))
    BY <1>1, <1>2 DEF Removed, Creating, Removing, Exists
  <2>2. tenants'[o] = tenants[o]
    BY <2>1 DEF Removed
  <2> QED
    BY <1>1, <1>2, <1>5, <2>2 DEF NoneJoins, Exists, Present
<1>6. CASE \E c \in AdminCalls, p \in Orgs, k \in TenantKeys, q \in RowIds : Inserted(c, p, k, q)
  <2> PICK c \in AdminCalls, p \in Orgs, k \in TenantKeys, q \in RowIds : Inserted(c, p, k, q)
    BY <1>6
  <2>1. p # o /\ tenants'[o] = tenants[o]
    BY <1>1 DEF Inserted
  <2> QED
    BY <1>1, <1>2, <2>1 DEF Inserted, Exists, Present
<1>7. CASE \E c \in AdminCalls, p \in Orgs : DeleteTenant(c, p)
  <2> PICK c \in AdminCalls, p \in Orgs : DeleteTenant(c, p)
    BY <1>7
  <2>1. p # o /\ UNCHANGED tenants
    BY DEF DeleteTenant
  <2>2. calls'[c].org = p /\ \A d \in AdminCalls \ {c} : calls'[d] = calls[d]
    BY NoJob DEF DeleteTenant, Start, TypesOK, TenantsTypeOK, AdminCall
  <2> QED
    BY <1>1, <1>2, <2>1, <2>2 DEF Exists, Present
<1> QED
  BY <1>4, <1>5, <1>6, <1>7, StepShape

-----------------------------------------------------------------------------
(* An SP that was not registered in a removal has its tenant, and no removal under way. *)
SpsOK ==
  \A s \in Sps : sps[s] # Nobody /\ ~sps[s].loose =>
    ~Leaving(sps[s].org, sps[s].for) /\ tenants[sps[s].org].born = sps[s].born

(* A call that registers an SP read a row with its organization's date. *)
SpCallsOK ==
  \A c \in AdminCalls : calls[c].pc = "insertSp" =>
    /\ calls[c].row <= made.rows
    /\ Exists(calls[c].org, calls[c].row) => tenants[calls[c].org].born = calls[c].born

(* A create's row is its organization's. *)
PlacesOK ==
  \A c \in AdminCalls : calls[c].pc \in Creating =>
    \A o \in Orgs : Exists(o, calls[c].row) => o = calls[c].org

SInv == SpsOK /\ SpCallsOK /\ PlacesOK /\ SignsWithItsOwn

LEMMA SpsInit == TenantsInit => SInv
BY NoJob DEF TenantsInit, SInv, SpsOK, SpCallsOK, PlacesOK, SignsWithItsOwn, Exists, Present, Creating

(* How the SPs can change. *)
LEMMA SpsFrame ==
  ASSUME TypesOK, TenantsNext, NEW s \in Sps
  PROVE  \/ sps'[s] = sps[s]
         \/ sps'[s] = Nobody
         \/ \E c \in AdminCalls :
              /\ calls[c].pc = "insertSp" /\ UNCHANGED tenants
              /\ sps'[s] = [org |-> calls[c].org, for |-> calls[c].row, born |-> calls[c].born,
                            loose |-> Leaving(calls[c].org, calls[c].row)]
<1>t. sps \in [Sps -> Sp \cup {Nobody}]
  BY DEF TypesOK, TenantsTypeOK
<1>1. CASE UNCHANGED sps
  BY <1>1
<1>2. ASSUME NEW t \in Sps, DeleteSp(t) PROVE sps'[s] = sps[s] \/ sps'[s] = Nobody
  BY <1>t, <1>2 DEF DeleteSp
<1>3. ASSUME NEW c \in AdminCalls, InsertSp(c), sps'[s] # sps[s]
      PROVE  /\ calls[c].pc = "insertSp" /\ UNCHANGED tenants
             /\ sps'[s] = [org |-> calls[c].org, for |-> calls[c].row, born |-> calls[c].born,
                           loose |-> Leaving(calls[c].org, calls[c].row)]
  <2>1. calls[c].pc = "insertSp" /\ UNCHANGED tenants
    BY <1>3 DEF InsertSp, Doing
  <2> DEFINE new == [org |-> calls[c].org, for |-> calls[c].row, born |-> calls[c].born,
                     loose |-> Leaving(calls[c].org, calls[c].row)]
  <2>2. sps' = [sps EXCEPT ![calls[c].sp] = new]
    BY <1>3 DEF InsertSp
  <2> HIDE DEF new
  <2>3. sps'[s] = new
    BY <1>t, <1>3, <2>2
  <2> QED
    BY <2>1, <2>3 DEF new
<1> QED
  BY <1>1, <1>2, <1>3 DEF TenantsNext, CreateTenant, DeleteTenant, DeleteOrganization, CreateSp,
    InsertTenant, Recheck, WriteActiveKey, Undo, RetireKey, DeleteRow, DeleteKeys, OrganizationDeleted,
    Disable, CrashCall, CreateOrganization, SetEnabled

LEMMA SpsKept ==
  ASSUME TypesOK, TypesOK', SInv, TenantsNext
  PROVE  SpsOK'
<1>t. \A s \in Sps : sps'[s] # Nobody => sps'[s].org \in Orgs /\ sps'[s].for \in RowIds
  BY DEF TypesOK, TenantsTypeOK, Sp
<1> SUFFICES ASSUME NEW s \in Sps, sps'[s] # Nobody, ~sps'[s].loose,
                    NEW o \in Orgs, NEW r \in RowIds, o = sps'[s].org, r = sps'[s].for
             PROVE  ~Leaving(o, r)' /\ tenants'[o].born = sps'[s].born
  BY <1>t DEF SpsOK
<1>1. ~Leaving(o, r) /\ tenants[o].born = sps'[s].born /\ \A c \in AdminCalls : ~DeleteTenant(c, o)
  <2>1. CASE sps'[s] = sps[s]
    BY <2>1 DEF SInv, SpsOK, DeleteTenant
  <2>2. CASE sps'[s] # sps[s]
    <3> PICK c \in AdminCalls :
               /\ calls[c].pc = "insertSp" /\ UNCHANGED tenants
               /\ sps'[s] = [org |-> calls[c].org, for |-> calls[c].row, born |-> calls[c].born,
                             loose |-> Leaving(calls[c].org, calls[c].row)]
      BY <2>2, SpsFrame
    <3>1. o = calls[c].org /\ r = calls[c].row /\ ~Leaving(o, r)
      OBVIOUS
    <3>2. Exists(o, r)
      BY <3>1 DEF Leaving
    <3> QED
      BY <2>2, <3>1, <3>2 DEF SInv, SpCallsOK, DeleteTenant
  <2> QED
    BY <2>1, <2>2
<1> QED
  BY <1>1, StayingStays

LEMMA PlacesKept ==
  ASSUME TypesOK, TypesOK', KInv, SInv, TenantsNext
  PROVE  PlacesOK'
<1> USE DEF SInv
<1>1. CASE NoneJoins /\ Kept
  BY <1>1 DEF NoneJoins, Kept, PlacesOK, Exists, Creating
<1>2. CASE NoneJoins /\ \E c \in AdminCalls, o \in Orgs, r \in RowIds : Removed(c, o, r)
  BY <1>2 DEF NoneJoins, Removed, PlacesOK, Exists, Present, Creating
<1>3. CASE \E c \in AdminCalls, o \in Orgs, k \in TenantKeys, r \in RowIds : Inserted(c, o, k, r)
  <2> PICK c \in AdminCalls, o \in Orgs, k \in TenantKeys, r \in RowIds : Inserted(c, o, k, r)
    BY <1>3
  <2>1. RowIds \subseteq Nat /\ made.rows \in Nat
    BY TenantsAssumption DEF TenantsAssumption, RowIds, TypesOK, TenantsTypeOK
  <2>2. \A p \in Orgs : Present(p) => tenants[p].id # r
    BY <2>1 DEF Inserted, KInv, RowsOK
  <2>3. \A d \in AdminCalls : calls[d].pc \in Creating => calls[d].row # r
    BY <2>1 DEF Inserted, KInv, RowsOK
  <2> SUFFICES ASSUME NEW d \in AdminCalls, calls'[d].pc \in Creating, NEW p \in Orgs,
                      NEW q, q = calls'[d].row, Exists(p, q)'
               PROVE  p = calls'[d].org
    BY DEF PlacesOK
  <2>4. CASE d = c
    BY <2>2, <2>4 DEF Inserted, Exists, Present
  <2>5. CASE d # c
    <3>1. calls'[d] = calls[d] /\ calls[d].row # r
      BY <2>3, <2>5 DEF Inserted
    <3>2. p # o /\ Exists(p, q)
      BY <3>1 DEF Inserted, Exists, Present
    <3> QED
      BY <3>1, <3>2 DEF PlacesOK
  <2> QED
    BY <2>4, <2>5
<1>4. CASE \E c \in AdminCalls, o \in Orgs : DeleteTenant(c, o)
  <2> PICK c \in AdminCalls, o \in Orgs : DeleteTenant(c, o)
    BY <1>4
  <2>1. calls'[c].pc = "retire" /\ \A d \in AdminCalls \ {c} : calls'[d] = calls[d]
    BY NoJob DEF DeleteTenant, Start, TypesOK, TenantsTypeOK, AdminCall
  <2> QED
    BY <2>1 DEF DeleteTenant, PlacesOK, Exists, Present, Creating
<1> QED
  BY <1>1, <1>2, <1>3, <1>4, StepShape

(* Which calls register an SP, and what they read. *)
LEMMA SpCallsFrame ==
  ASSUME TypesOK, TenantsNext, NEW d \in AdminCalls, calls'[d].pc = "insertSp"
  PROVE  \/ calls'[d] = calls[d]
         \/ /\ UNCHANGED <<tenants, made>>
            /\ calls'[d].org \in Orgs /\ Present(calls'[d].org)
            /\ calls'[d].row = tenants[calls'[d].org].id /\ calls'[d].born = tenants[calls'[d].org].born
<1>t. calls \in [AdminCalls -> AdminCall]
  BY DEF TypesOK, TenantsTypeOK
<1>1. ASSUME NEW c \in AdminCalls, Done(c) PROVE calls'[d] = calls[d]
  BY <1>1, DoneJob
<1>2. ASSUME NEW c \in AdminCalls, NEW step \in CallSteps \ {"insertSp"}, Step(c, step)
      PROVE  calls'[d] = calls[d]
  <2>1. d # c => calls'[d] = calls[d]
    BY <1>t, <1>2 DEF Step
  <2>2. calls'[c].pc = step
    BY <1>t, <1>2 DEF Step, AdminCall
  <2> QED
    BY <2>1, <2>2
<1>3. ASSUME NEW c \in AdminCalls, NEW o \in Orgs, NEW k \in TenantKeys, CreateTenant(c, o, k)
      PROVE  calls'[d] = calls[d]
  <2> DEFINE job == [NoCall EXCEPT !.pc = "insert", !.org = o, !.key = k, !.born = orgs[o]]
  <2>1. job.pc = "insert"
    BY NoJob DEF AdminCall
  <2>2. calls' = [calls EXCEPT ![c] = job]
    BY <1>3 DEF CreateTenant, Start
  <2> HIDE DEF job
  <2> QED
    BY <1>t, <2>1, <2>2
<1>4. ASSUME NEW c \in AdminCalls, NEW o \in Orgs, DeleteTenant(c, o) PROVE calls'[d] = calls[d]
  <2> DEFINE job == [NoCall EXCEPT !.pc = "retire", !.org = o, !.key = tenants[o].key, !.row = tenants[o].id]
  <2>1. job.pc = "retire"
    BY NoJob DEF AdminCall
  <2>2. calls' = [calls EXCEPT ![c] = job]
    BY <1>4 DEF DeleteTenant, Start
  <2> HIDE DEF job
  <2> QED
    BY <1>t, <2>1, <2>2
<1>5. ASSUME NEW c \in AdminCalls, NEW o \in Orgs, DeleteOrganization(c, o) PROVE calls'[d] = calls[d]
  <2> DEFINE job == [NoCall EXCEPT !.pc = "hook", !.org = o]
  <2>1. job.pc = "hook"
    BY NoJob DEF AdminCall
  <2>2. calls' = [calls EXCEPT ![c] = job]
    BY <1>5 DEF DeleteOrganization, Start
  <2> HIDE DEF job
  <2> QED
    BY <1>t, <2>1, <2>2
<1>6. ASSUME NEW c \in AdminCalls, NEW o \in Orgs, NEW s \in Sps, CreateSp(c, s, o),
             calls'[d] # calls[d]
      PROVE  /\ UNCHANGED <<tenants, made>>
             /\ calls'[d].org = o /\ Present(o)
             /\ calls'[d].row = tenants[o].id /\ calls'[d].born = tenants[o].born
  <2> DEFINE job == [NoCall EXCEPT !.pc = "insertSp", !.org = o, !.row = tenants[o].id, !.born = tenants[o].born, !.sp = s]
  <2>1. job.org = o /\ job.row = tenants[o].id /\ job.born = tenants[o].born
    BY NoJob DEF AdminCall
  <2>2. calls' = [calls EXCEPT ![c] = job]
    BY <1>6 DEF CreateSp, Start
  <2> HIDE DEF job
  <2>3. calls'[d] = job
    BY <1>t, <1>6, <2>2
  <2> QED
    BY <1>6, <2>1, <2>3 DEF CreateSp
<1>7. ASSUME NEW c \in AdminCalls, InsertTenant(c) PROVE calls'[d] = calls[d]
  <2>1. ASSUME NEW o, NEW k, NEW r, Inserted(c, o, k, r) PROVE calls'[d] = calls[d]
    BY <2>1 DEF Inserted
  <2> QED
    BY <1>1, <1>7, <2>1, InsertedRow
<1>8. ASSUME NEW c \in AdminCalls, OrganizationDeleted(c), ~Done(c) PROVE calls'[d] = calls[d]
  <2>1. calls' = [calls EXCEPT ![c].pc = "disable", ![c].row = tenants[calls[c].org].id]
    BY <1>8 DEF OrganizationDeleted
  <2>2. calls'[c].pc = "disable" /\ \A e \in AdminCalls \ {c} : calls'[e] = calls[e]
    BY <1>t, <2>1 DEF AdminCall
  <2> QED
    BY <2>2
<1>9. ASSUME NEW c \in AdminCalls, Recheck(c) PROVE calls'[d] = calls[d]
  BY <1>2, <1>9 DEF Recheck, CallSteps
<1>10. ASSUME NEW c \in AdminCalls, WriteActiveKey(c) PROVE calls'[d] = calls[d]
  BY <1>1, <1>2, <1>10 DEF WriteActiveKey, CallSteps
<1>11. ASSUME NEW c \in AdminCalls, RetireKey(c) \/ DeleteRow(c) PROVE calls'[d] = calls[d]
  BY <1>2, <1>11 DEF RetireKey, DeleteRow, CallSteps
<1>12. ASSUME NEW c \in AdminCalls,
              Undo(c) \/ DeleteKeys(c) \/ Disable(c) \/ InsertSp(c) \/ CrashCall(c)
       PROVE  calls'[d] = calls[d]
  BY <1>1, <1>12 DEF Undo, DeleteKeys, Disable, InsertSp, CrashCall
<1>13. CASE UNCHANGED calls
  BY <1>13
<1> QED
  BY <1>1, <1>3, <1>4, <1>5, <1>6, <1>7, <1>8, <1>9, <1>10, <1>11, <1>12, <1>13
     DEF TenantsNext, OrganizationDeleted, CreateOrganization, SetEnabled, DeleteSp

LEMMA SpCallsKept ==
  ASSUME TypesOK, TypesOK', KInv, SInv, TenantsNext
  PROVE  SpCallsOK'
<1> SUFFICES ASSUME NEW d \in AdminCalls, calls'[d].pc = "insertSp",
                    NEW o, NEW r, o = calls'[d].org, r = calls'[d].row
             PROVE  /\ r <= made'.rows
                    /\ Exists(o, r)' => tenants'[o].born = calls'[d].born
  BY DEF SpCallsOK
<1>n. RowIds \subseteq Nat /\ made.rows \in Nat /\ made'.rows \in Nat
  BY TenantsAssumption DEF TenantsAssumption, RowIds, TypesOK, TenantsTypeOK
<1>t. o \in Orgs /\ r \in RowIds
  BY DEF TypesOK, JobsOK, JobOK
<1>m. made.rows <= made'.rows
  <2>1. CASE \E c \in AdminCalls : InsertTenant(c)
    BY <1>n, <2>1, InsertedRow DEF Inserted
  <2>2. CASE \E p \in Orgs : CreateOrganization(p)
    BY <1>n, <2>2 DEF CreateOrganization, TypesOK, TenantsTypeOK
  <2>3. CASE UNCHANGED made
    BY <1>n, <2>3
  <2> QED
    BY <2>1, <2>2, <2>3 DEF TenantsNext, CreateTenant, DeleteTenant, DeleteOrganization, CreateSp,
      Recheck, WriteActiveKey, Undo, RetireKey, DeleteRow, DeleteKeys, OrganizationDeleted,
      Disable, InsertSp, CrashCall, SetEnabled, DeleteSp
<1>1. CASE calls'[d] # calls[d]
  <2>1. UNCHANGED <<tenants, made>> /\ Present(o) /\ r = tenants[o].id /\ calls'[d].born = tenants[o].born
    BY <1>1, SpCallsFrame
  <2> QED
    BY <1>t, <2>1 DEF KInv, RowsOK
<1>2. CASE calls'[d] = calls[d]
  <2>1. r <= made.rows /\ (Exists(o, r) => tenants[o].born = calls'[d].born)
    BY <1>2 DEF SInv, SpCallsOK
  <2>2. r <= made'.rows
    BY <1>n, <1>t, <1>m, <2>1
  <2>3. Exists(o, r)' => Exists(o, r) /\ tenants'[o].born = tenants[o].born
    <3>1. CASE Kept
      BY <1>t, <3>1 DEF Kept, Exists
    <3>2. CASE \E c \in AdminCalls, p \in Orgs, q \in RowIds : Removed(c, p, q)
      BY <1>t, <3>2 DEF Removed, Exists, Present
    <3>3. CASE \E c \in AdminCalls, p \in Orgs, k \in TenantKeys, q \in RowIds : Inserted(c, p, k, q)
      <4> PICK c \in AdminCalls, p \in Orgs, k \in TenantKeys, q \in RowIds : Inserted(c, p, k, q)
        BY <3>3
      <4>1. r # q
        BY <1>n, <1>t, <2>1 DEF Inserted
      <4> QED
        BY <1>t, <4>1 DEF Inserted, Exists, Present
    <3>4. CASE \E c \in AdminCalls, p \in Orgs : DeleteTenant(c, p)
      BY <3>4 DEF DeleteTenant, Exists, Present
    <3> QED
      BY <3>1, <3>2, <3>3, <3>4, StepShape
  <2> QED
    BY <2>1, <2>2, <2>3
<1> QED
  BY <1>1, <1>2

(* A create's key row stays while its tenant does, but for a late delete of key rows.   *)
LEMMA SigningKept ==
  ASSUME TypesOK, TypesOK', KInv, SInv, TenantsNext
  PROVE  SignsWithItsOwn'
<1>t. TenantsTypeOK
  BY DEF TypesOK
<1>h. \A o \in Orgs : Present(o) /\ tenants[o].id \in signing => activeKey[o] = tenants[o].id
  BY DEF SInv, SignsWithItsOwn
<1>1. ASSUME NEW c \in AdminCalls, WriteActiveKey(c), activeKey[calls[c].org] = Nobody,
             signing' \subseteq signing \cup {calls[c].row},
             activeKey' = [activeKey EXCEPT ![calls[c].org] = calls[c].row]
      PROVE  SignsWithItsOwn'
  <2>1. calls[c].pc = "writeKey" /\ UNCHANGED tenants
    BY <1>1 DEF WriteActiveKey, Doing
  <2>2. calls[c].org \in Orgs /\ calls[c].row \in RowIds
    BY <2>1 DEF TypesOK, JobsOK, JobOK, Creating
  <2> SUFFICES ASSUME NEW o \in Orgs, Present(o), tenants[o].id \in signing \cup {calls[c].row}
               PROVE  activeKey'[o] = tenants[o].id
    BY <1>1, <2>1 DEF SignsWithItsOwn, Present
  <2>4. CASE tenants[o].id = calls[c].row
    <3>1. o = calls[c].org
      BY <2>1, <2>4 DEF SInv, PlacesOK, Exists, Creating
    <3> QED
      BY <1>1, <1>t, <2>2, <2>4, <3>1 DEF TenantsTypeOK
  <2>5. CASE tenants[o].id \in signing
    <3>1. activeKey[o] = tenants[o].id
      BY <1>h, <2>5
    <3>2. tenants[o].id # Nobody
      BY <1>t, TenantsAssumption DEF TenantsAssumption, TenantsTypeOK, Present, TenantRow
    <3>3. o # calls[c].org
      BY <1>1, <3>1, <3>2
    <3> QED
      BY <1>1, <1>t, <2>2, <3>1, <3>3 DEF TenantsTypeOK
  <2> QED
    BY <2>4, <2>5
<1>2. ASSUME NEW c \in AdminCalls, DeleteKeys(c) PROVE SignsWithItsOwn'
  <2>1. UNCHANGED tenants
    BY <1>2 DEF DeleteKeys
  <2>2. activeKey' = [activeKey EXCEPT ![calls[c].org] = Nobody]
    BY <1>2 DEF DeleteKeys
  <2>3. signing' \subseteq signing /\ (Present(calls[c].org) => tenants[calls[c].org].id \notin signing')
    BY <1>2 DEF DeleteKeys
  <2> SUFFICES ASSUME NEW o \in Orgs, Present(o), tenants[o].id \in signing'
               PROVE  activeKey'[o] = tenants[o].id
    BY <2>1 DEF SignsWithItsOwn, Present
  <2>4. o # calls[c].org /\ activeKey[o] = tenants[o].id
    BY <1>h, <2>3
  <2> QED
    BY <1>t, <2>2, <2>4 DEF TenantsTypeOK
<1>3. CASE signing' \subseteq signing /\ UNCHANGED activeKey
  <2> SUFFICES ASSUME NEW o \in Orgs, Present(o)', tenants'[o].id \in signing
               PROVE  activeKey[o] = tenants'[o].id
    BY <1>3 DEF SignsWithItsOwn
  <2>1. SUFFICES Present(o) /\ tenants'[o].id = tenants[o].id
    BY <1>h
  <2>2. CASE Kept
    BY <2>2 DEF Kept
  <2>3. CASE \E c \in AdminCalls, p \in Orgs, q \in RowIds : Removed(c, p, q)
    BY <2>3 DEF Removed, Present
  <2>4. CASE \E c \in AdminCalls, p \in Orgs, k \in TenantKeys, q \in RowIds : Inserted(c, p, k, q)
    <3> PICK c \in AdminCalls, p \in Orgs, k \in TenantKeys, q \in RowIds : Inserted(c, p, k, q)
      BY <2>4
    <3>1. RowIds \subseteq Nat /\ made.rows \in Nat
      BY <1>t, TenantsAssumption DEF TenantsAssumption, RowIds, TenantsTypeOK
    <3>2. q \notin signing
      BY <3>1 DEF Inserted, KInv, RowsOK
    <3>3. o # p
      BY <3>2 DEF Inserted
    <3> QED
      BY <3>3 DEF Inserted, Present
  <2>5. CASE \E c \in AdminCalls, p \in Orgs : DeleteTenant(c, p)
    BY <2>5 DEF DeleteTenant, Present
  <2> QED
    BY <2>2, <2>3, <2>4, <2>5, StepShape
<1> QED
  BY <1>1, <1>2, <1>3 DEF TenantsNext, CreateTenant, DeleteTenant, DeleteOrganization, CreateSp,
    InsertTenant, Recheck, WriteActiveKey, Undo, RetireKey, DeleteRow, OrganizationDeleted,
    Disable, InsertSp, CrashCall, CreateOrganization, SetEnabled, DeleteSp

LEMMA TenantsInductive == TenantsSpec => [](TypesOK /\ KInv /\ SInv)
<1>1. TenantsInit => TypesOK /\ KInv /\ SInv
  BY TypesInit, KeysInit, SpsInit
<1>2. TypesOK /\ KInv /\ SInv /\ [TenantsNext]_tenantsVars => (TypesOK /\ KInv /\ SInv)'
  <2> SUFFICES ASSUME TypesOK, KInv, SInv, [TenantsNext]_tenantsVars PROVE (TypesOK /\ KInv /\ SInv)'
    OBVIOUS
  <2>1. TypesOK' /\ KInv'
    BY TenantsStep
  <2>2. CASE UNCHANGED tenantsVars
    BY <2>1, <2>2 DEF tenantsVars, SInv, SpsOK, SpCallsOK, PlacesOK, SignsWithItsOwn, Leaving, Exists, Present
  <2>3. CASE TenantsNext
    BY <2>1, <2>3, SpsKept, SpCallsKept, PlacesKept, SigningKept DEF SInv
  <2> QED
    BY <2>2, <2>3
<1> QED
  BY <1>1, <1>2, PTL DEF TenantsSpec

(* No delete, of however many that overlap with whatever, takes a tenant from under an  *)
(* SP that was registered before the delete had looked for SPs.                         *)
THEOREM SpsKeepTheirTenant == TenantsSpec => []NoOrphans
<1>1. SInv => NoOrphans
  BY DEF SInv, SpsOK, NoOrphans, Leaving
<1> QED
  BY <1>1, TenantsInductive, PTL

(* An organization that gets a freed id never answers for the SPs of the former one.    *)
THEOREM TenantsAreNotInherited == TenantsSpec => []NeverInherited
<1>1. SInv => NeverInherited
  BY DEF SInv, SpsOK, NeverInherited, Serves
<1> QED
  BY <1>1, TenantsInductive, PTL

(* A tenant that was answered with signs with the key made for it, in every interleaving *)
(* in which no late delete took that key.                                               *)
THEOREM TenantsSignWithTheirOwn == TenantsSpec => []SignsWithItsOwn
<1>1. SInv => SignsWithItsOwn
  BY DEF SInv
<1> QED
  BY <1>1, TenantsInductive, PTL
=============================================================================
