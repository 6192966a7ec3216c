--------------------------- MODULE MCAdministration ---------------------------
(***************************************************************************)
(* What administrators make and change: tenants, SPs by delegated          *)
(* administrators, the lookup keys of an older registry, and the first key *)
(* of the root, over small sets. They share no state: each behaviour is    *)
(* one of a single part.                                                   *)
(***************************************************************************)
EXTENDS Tenants, Delegation, Backfill, FirstKey, TLC

VARIABLE part

Parts == {"tenants", "delegation", "backfill", "first key"}
vars == <<tenantsVars, delVars, backfillVars, firstVars, part>>

TypeOK ==
  /\ part \in Parts
  /\ part = "tenants" => TenantsTypeOK
  /\ part = "delegation" => DelTypeOK
  /\ part = "backfill" => BackfillTypeOK
  /\ part = "first key" => FirstTypeOK

(* The parts that are not at work rest in one of their initial states. *)
Init ==
  /\ part \in Parts
  /\ TenantsInit /\ FirstInit
  /\ part # "first key" => unique
  /\ DelInit /\ (part # "delegation" => role = {} /\ delegable = {})
  /\ BackfillInit /\ (part # "backfill" => ~mongo /\ InTable = {})

Next ==
  /\ UNCHANGED part
  /\ \/ part = "tenants" /\ TenantsNext /\ UNCHANGED <<delVars, backfillVars, firstVars>>
     \/ part = "delegation" /\ DelNext /\ UNCHANGED <<tenantsVars, backfillVars, firstVars>>
     \/ part = "backfill" /\ BackfillNext /\ UNCHANGED <<tenantsVars, delVars, firstVars>>
     \/ part = "first key" /\ FirstNext /\ UNCHANGED <<tenantsVars, delVars, backfillVars>>

Spec == Init /\ [][Next]_vars

(* The cfg gives the concurrent calls of all parts the same names. Tenants go by the    *)
(* ids of their organizations, and so do the tenant keys: the id of an organization     *)
(* that is not there yet is a key like any other.                                       *)
Symmetry == Permutations(AdminCalls) \cup Permutations(Orgs)
=============================================================================
