-------------------------- MODULE Administration_proofs --------------------------
(***************************************************************************)
(* What administrators make and change besides tenants (Tenants_proofs),   *)
(* for any number of isolates, calls, SPs and keys.                        *)
(*                                                                         *)
(* First key: a repair deletes only keys that are later than one there is, *)
(* so a key it deletes leaves an earlier one, which no other repair can    *)
(* have taken without leaving a still earlier one. As long as nobody is    *)
(* cut short, every key but the earliest is still to be seen by a writer   *)
(* that will read again, or to be deleted by one that has.                 *)
(*                                                                         *)
(* Delegation: a call that is not mistaken and finds a row with its id has *)
(* found the row it read.  If no mistaken call has written that row, it is *)
(* of the same tenant, and its client the one that was read, or changed    *)
(* since.                                                                  *)
(*                                                                         *)
(* Backfill: an SP that was there when the run began is ahead of it - in   *)
(* the page, or at a place after the page, which then was full - or done   *)
(* with. Rows that are added only move an SP to a later place.             *)
(***************************************************************************)
EXTENDS MCAdministration, Tenants_proofs, FiniteSetTheorems, WellFoundedInduction, TLAPS

-----------------------------------------------------------------------------
(* The first key. *)

(* A writer's key is its own: nobody else can make it. *)
DrawnOK == \A i \in Makers : Making(i, "insert") => maker[i].key \in FirstKeys \ unused

(* What isolates have cached, been told or written says that there is a key. *)
SomeKey ==
  /\ relied => firsts # {}
  /\ \A i \in Makers : known[i] # {} \/ Making(i, "lookAgain") => firsts # {}

(* A repair leaves something earlier than whatever it deletes. *)
LeavesEarlier == \A i \in Makers : \A k \in maker[i].extras : \E m \in firsts : m < k

Earliest(k) == \A m \in firsts : k <= m

(* Every other key meets a writer that will see it, or is about to delete it. *)
Watched ==
  ~cutShort =>
    \A k \in firsts :
      \/ Earliest(k)
      \/ \E i \in Makers : Making(i, "lookAgain") \/ (Making(i, "repair") /\ k \in maker[i].extras)

UniqueKey == unique => \A k, m \in firsts : k = m

KeepsInv == FirstTypeOK /\ DrawnOK /\ SomeKey /\ LeavesEarlier
OneInv == Watched /\ UniqueKey

-----------------------------------------------------------------------------
LEMMA FirstKeyInit == FirstInit => KeepsInv /\ OneInv
<1> SUFFICES ASSUME FirstInit PROVE KeepsInv /\ OneInv
  OBVIOUS
<1>1. maker \in [Makers -> [pc : MakerSteps, key : FirstKeys \cup {0}, extras : SUBSET FirstKeys]]
  BY DEF FirstInit, NoMaker, MakerSteps
<1> QED
  BY <1>1 DEF FirstInit, KeepsInv, OneInv, FirstTypeOK, DrawnOK, SomeKey, LeavesEarlier, Watched,
       UniqueKey, Making, NoMaker

LEMMA KeepsStep == KeepsInv /\ [FirstNext]_firstVars => KeepsInv'
<1> SUFFICES ASSUME KeepsInv, [FirstNext]_firstVars PROVE KeepsInv'
  OBVIOUS
<1> USE DEF KeepsInv, FirstTypeOK, DrawnOK, SomeKey, LeavesEarlier, Making, MakerSteps
<1>1. CASE UNCHANGED firstVars
  BY <1>1 DEF firstVars
<1>2. ASSUME NEW i \in Makers, EnsureFirstKey(i) PROVE KeepsInv'
  <2>1. /\ UNCHANGED <<unique, firsts, unused, failed, cutShort>>
        /\ known' \in [Makers -> SUBSET FirstKeys]
        /\ \A j \in Makers : known'[j] # {} => firsts # {}
        /\ relied' \in BOOLEAN /\ (relied' => firsts # {})
    BY <1>2 DEF EnsureFirstKey, LoadRows
  <2>2. maker' = maker \/ maker' = [maker EXCEPT ![i].pc = "look"]
    BY <1>2 DEF EnsureFirstKey, Continue
  <2>3. /\ maker' \in [Makers -> [pc : MakerSteps, key : FirstKeys \cup {0}, extras : SUBSET FirstKeys]]
        /\ \A j \in Makers :
             /\ maker'[j].extras = maker[j].extras /\ maker'[j].key = maker[j].key
             /\ maker'[j].pc \in {"insert", "lookAgain"} => maker'[j] = maker[j]
    BY <2>2
  <2> QED
    BY <2>1, <2>3
<1>3. ASSUME NEW i \in Makers, LookFresh(i) PROVE KeepsInv'
  <2>1. CASE firsts # {}
    BY <1>3, <2>1 DEF LookFresh, LoadRows, Stop, NoMaker
  <2>2. CASE firsts = {}
    BY <1>3, <2>2 DEF LookFresh, LoadRows
  <2> QED
    BY <2>1, <2>2
<1>4. ASSUME NEW i \in Makers, InsertFirst(i) PROVE KeepsInv'
  <2>1. CASE firsts' = firsts \cup {maker[i].key}
    <3>1. maker[i].key \in FirstKeys \ unused /\ maker[i].key \in firsts'
      BY <1>4, <2>1 DEF InsertFirst
    <3>2. PICK next \in {"lookAgain", "classify"} : maker' = [maker EXCEPT ![i].pc = next]
      BY <1>4 DEF InsertFirst, Continue
    <3>3. UNCHANGED <<unique, unused, known, failed, relied>> /\ cutShort' \in BOOLEAN
      BY <1>4 DEF InsertFirst
    <3>4. FirstTypeOK'
      BY <2>1, <3>1, <3>2, <3>3
    <3>5. DrawnOK' /\ SomeKey'
      BY <2>1, <3>1, <3>2, <3>3
    <3>6. \A j \in Makers : maker'[j].extras = maker[j].extras
      BY <3>2
    <3>7. LeavesEarlier'
      BY <2>1, <3>6
    <3> QED
      BY <3>4, <3>5, <3>7
  <2>2. CASE UNCHANGED firsts /\ Continue(i, "classify")
    BY <1>4, <2>2 DEF InsertFirst, Continue
  <2> QED
    BY <1>4, <2>1, <2>2 DEF InsertFirst
<1>5. ASSUME NEW i \in Makers, ClassifyFailure(i) PROVE KeepsInv'
  BY <1>5 DEF ClassifyFailure, LoadRows, Stop, NoMaker
<1>6. ASSUME NEW i \in Makers, LookAgain(i) PROVE KeepsInv'
  <2>1. CASE Extras(i) = {}
    BY <1>6, <2>1 DEF LookAgain, LoadRows, Stop, NoMaker
  <2>2. CASE Extras(i) # {}
    <3>1. Extras(i) \subseteq FirstKeys /\ \A k \in Extras(i) : \E m \in firsts : m < k
      BY DEF Extras
    <3>2. maker' = [maker EXCEPT ![i].pc = "repair", ![i].extras = Extras(i)]
      BY <1>6, <2>2 DEF LookAgain
    <3>3. maker'[i].extras = Extras(i) /\ \A j \in Makers \ {i} : maker'[j] = maker[j]
      BY <3>2
    <3>4. UNCHANGED <<unique, firsts, unused, failed, cutShort, relied>> /\ LoadRows(i)
      BY <1>6, <2>2 DEF LookAgain
    <3>5. FirstTypeOK' /\ DrawnOK'
      BY <1>6, <3>1, <3>2, <3>4 DEF LoadRows
    <3>6. firsts # {}
      BY <1>6 DEF LookAgain
    <3>7. SomeKey' /\ LeavesEarlier'
      BY <3>1, <3>3, <3>4, <3>6
    <3> QED
      BY <3>5, <3>7
  <2> QED
    BY <2>1, <2>2
<1>7. ASSUME NEW i \in Makers, Repair(i) PROVE KeepsInv'
  <2> PICK k \in maker[i].extras :
        /\ firsts' = firsts \ {k}
        /\ IF maker[i].extras = {k}
             THEN Stop(i) /\ relied' = TRUE /\ known' = [known EXCEPT ![i] = {}]
             ELSE maker' = [maker EXCEPT ![i].extras = @ \ {k}] /\ UNCHANGED <<relied, known>>
    BY <1>7 DEF Repair
  <2>1. firsts' # {}
    BY DEF FirstKeys
  <2>2. \A m \in FirstKeys : (\E e \in firsts : e < m) => \E e \in firsts' : e < m
    <3> SUFFICES ASSUME NEW m \in FirstKeys, NEW e \in firsts, e < m PROVE \E f \in firsts' : f < m
      OBVIOUS
    <3>1. PICK d \in firsts : d < k
      OBVIOUS
    <3> QED
      BY <3>1, FirstKeyAssumption DEF FirstKeys, FirstKeyAssumption
  <2>3. \A j \in Makers : maker'[j].extras \subseteq maker[j].extras
    BY DEF Stop, NoMaker
  <2>4. /\ maker' \in [Makers -> [pc : MakerSteps, key : FirstKeys \cup {0}, extras : SUBSET FirstKeys]]
        /\ \A j \in Makers : maker'[j].pc \in {"insert", "lookAgain"} => maker'[j] = maker[j]
    BY <1>7 DEF Stop, NoMaker, Repair
  <2>5. LeavesEarlier'
    BY <2>2, <2>3
  <2> QED
    BY <1>7, <2>1, <2>4, <2>5 DEF Repair
<1>8. ASSUME NEW i \in Makers, CrashMaker(i) PROVE KeepsInv'
  BY <1>8 DEF CrashMaker, Stop, NoMaker
<1>9. ASSUME NEW i \in Makers, ForgetRows(i) \/ ForgetFailure(i) PROVE KeepsInv'
  BY <1>9 DEF ForgetRows, ForgetFailure
<1> QED
  BY <1>1, <1>2, <1>3, <1>4, <1>5, <1>6, <1>7, <1>8, <1>9 DEF FirstNext

LEMMA OneStep == KeepsInv /\ OneInv /\ [FirstNext]_firstVars => OneInv'
<1> SUFFICES ASSUME KeepsInv, OneInv, [FirstNext]_firstVars PROVE OneInv'
  OBVIOUS
<1> USE DEF OneInv, Watched, UniqueKey, Earliest, Making
<1> USE DEF KeepsInv, FirstTypeOK, MakerSteps
<1>1. CASE UNCHANGED firstVars
  BY <1>1 DEF firstVars
<1>2. ASSUME NEW i \in Makers, EnsureFirstKey(i) PROVE OneInv'
  BY <1>2 DEF EnsureFirstKey, Continue
<1>3. ASSUME NEW i \in Makers, LookFresh(i) PROVE OneInv'
  BY <1>3 DEF LookFresh, Stop, NoMaker
<1>4. ASSUME NEW i \in Makers, InsertFirst(i) PROVE OneInv'
  <2>1. CASE firsts' = firsts \cup {maker[i].key} /\ Continue(i, "lookAgain") /\ UNCHANGED cutShort
    <3>1. Making(i, "lookAgain")'
      BY <2>1 DEF Continue
    <3> QED
      BY <1>4, <2>1, <3>1 DEF InsertFirst
  <2>2. CASE firsts' = firsts \cup {maker[i].key} /\ cutShort'
    BY <1>4, <2>2 DEF InsertFirst
  <2>3. CASE UNCHANGED <<firsts, cutShort>> /\ Continue(i, "classify")
    BY <1>4, <2>3 DEF InsertFirst, Continue
  <2> QED
    BY <1>4, <2>1, <2>2, <2>3 DEF InsertFirst
<1>5. ASSUME NEW i \in Makers, ClassifyFailure(i) PROVE OneInv'
  BY <1>5 DEF ClassifyFailure, Stop, NoMaker
<1>6. ASSUME NEW i \in Makers, LookAgain(i) PROVE OneInv'
  <2>1. \A k \in firsts : Earliest(k) \/ k \in Extras(i)
    BY FirstKeyAssumption DEF Extras, FirstKeys, FirstKeyAssumption
  <2>2. UniqueKey'
    BY <1>6 DEF LookAgain
  <2>3. CASE Extras(i) = {}
    BY <1>6, <2>1, <2>2, <2>3 DEF LookAgain
  <2>4. CASE Extras(i) # {}
    <3>1. maker'[i].pc = "repair" /\ maker'[i].extras = Extras(i)
      BY <1>6, <2>4 DEF LookAgain
    <3> QED
      BY <1>6, <2>1, <2>2, <3>1 DEF LookAgain
  <2> QED
    BY <2>3, <2>4
<1>7. ASSUME NEW i \in Makers, Repair(i) PROVE OneInv'
  <2> PICK k \in maker[i].extras :
        /\ firsts' = firsts \ {k}
        /\ IF maker[i].extras = {k} THEN Stop(i) ELSE maker' = [maker EXCEPT ![i].extras = @ \ {k}]
    BY <1>7 DEF Repair
  <2>1. UNCHANGED <<unique, cutShort>> /\ Making(i, "repair")
    BY <1>7 DEF Repair
  <2>2. \A j \in Makers \ {i} : maker'[j] = maker[j]
    BY DEF Stop
  <2>3. \A m \in maker[i].extras \ {k} : Making(i, "repair")' /\ m \in maker'[i].extras
    BY <2>1
  <2> QED
    BY <2>1, <2>2, <2>3
<1>8. ASSUME NEW i \in Makers, CrashMaker(i) PROVE OneInv'
  BY <1>8 DEF CrashMaker, Stop, NoMaker
<1>9. ASSUME NEW i \in Makers, ForgetRows(i) \/ ForgetFailure(i) PROVE OneInv'
  BY <1>9 DEF ForgetRows, ForgetFailure
<1> QED
  BY <1>1, <1>2, <1>3, <1>4, <1>5, <1>6, <1>7, <1>8, <1>9 DEF FirstNext

LEMMA FirstKeyInductive == FirstSpec => [](KeepsInv /\ OneInv)
  BY FirstKeyInit, KeepsStep, OneStep, PTL DEF FirstSpec

-----------------------------------------------------------------------------
(* Once ensureFirstKey has returned anywhere there is a key, for any number of isolates, *)
(* although each of their repairs deletes keys by the rows it has seen.                  *)
THEOREM RootKeepsAKey == FirstSpec => []KeepsAKey
<1>1. KeepsInv => KeepsAKey
  BY DEF KeepsInv, SomeKey, KeepsAKey
<1> QED
  BY <1>1, FirstKeyInductive, PTL

(* When every writer is through, there is at most one first key, with the index or      *)
(* without it, unless there is no index and a writer was cut short.                     *)
THEOREM RootHasOneFirstKey == FirstSpec => []OneFirstKey
<1>1. KeepsInv /\ OneInv => OneFirstKey
  <2> SUFFICES ASSUME KeepsInv, OneInv,
                      \A i \in Makers : maker[i].pc \notin {"insert", "lookAgain", "repair"},
                      ~(cutShort /\ ~unique)
               PROVE  Cardinality(firsts) <= 1
    BY DEF OneFirstKey
  <2>1. \A k, m \in firsts : k = m
    <3>1. CASE unique
      BY <3>1 DEF OneInv, UniqueKey
    <3>2. CASE ~cutShort
      <4>1. \A k \in firsts : Earliest(k)
        BY <3>2 DEF OneInv, Watched, Making
      <4> QED
        BY <4>1, FirstKeyAssumption DEF Earliest, KeepsInv, FirstTypeOK, FirstKeys, FirstKeyAssumption
    <3> QED
      BY <3>1, <3>2
  <2>2. CASE firsts = {}
    BY <2>2, FS_EmptySet
  <2>3. CASE firsts # {}
    <3>1. PICK k \in firsts : firsts = {k}
      BY <2>1, <2>3
    <3> QED
      BY <3>1, FS_Singleton
  <2> QED
    BY <2>2, <2>3
<1> QED
  BY <1>1, FirstKeyInductive, PTL

-----------------------------------------------------------------------------
(* Delegated administration. *)

(* A call that will change the row it has read, and no other has got in between. *)
Sound(c) ==
  op[c].pc \in {"write", "erase"} /\ StillThere(c) /\ ~op[c].mistaken /\ ~mixed

(* What the host has given the row that is there. *)
GrantedOK == spRowOf # Unset /\ ~mixed => spRowOf.optIn \in granted \cup {Unset}

(* A call changes an SP of a tenant it may administer: the one its config is for, and the *)
(* one its row was, and still is, of.                                                      *)
ScopeOK ==
  \A c \in DelCalls :
    /\ op[c].pc \in {"insert", "write"} => op[c].tenant \in op[c].tenants
    /\ Sound(c) => spRowOf.tenant \in op[c].tenants
    /\ Sound(c) /\ op[c].pc = "write" => op[c].tenant = spRowOf.tenant

(* A delegated call names no client, or the one that the row it read had. *)
NamedOK ==
  \A c \in DelCalls :
    ~op[c].host =>
      /\ op[c].pc = "insert" => op[c].optIn = Unset
      /\ Sound(c) /\ op[c].pc = "write" /\ op[c].optIn # Unset =>
           op[c].optIn \in granted /\ (op[c].overtaken \/ op[c].optIn = spRowOf.optIn)

DelInv == DelTypeOK /\ GrantedOK /\ ScopeOK /\ NamedOK

LEMMA NoOpType == NoOp \in Ops
BY DelegationAssumption DEF NoOp, Ops, OptIns, Owners, DelegationAssumption

LEMMA RowIsThere == \A r \in DelRow : r # Unset
BY DelegationAssumption DEF DelegationAssumption

LEMMA DelInvInit == DelInit => DelInv
<1> SUFFICES ASSUME DelInit PROVE DelInv
  OBVIOUS
<1>1. DelTypeOK
  BY NoOpType, DelegationAssumption DEF DelInit, DelTypeOK, DelegationAssumption
<1>2. \A c \in DelCalls : op[c].pc = "idle"
  BY DEF DelInit, NoOp
<1>3. spRowOf = Unset
  BY DEF DelInit
<1> QED
  BY <1>1, <1>2, <1>3 DEF DelInv, GrantedOK, ScopeOK, NamedOK, Sound

(* A call that goes on, or ends, while the row stays. *)
LEMMA NewOp ==
  ASSUME DelInv, NEW c \in DelCalls, NEW job \in Ops, op' = [op EXCEPT ![c] = job],
         UNCHANGED <<spRowOf, granted, mixed>>,
         role' \subseteq DelTenants, delegable' \subseteq DelTenants,
         job.pc \in {"write", "erase"} =>
           spRowOf # Unset /\ job.id = spRowOf.id /\ spRowOf.tenant \in job.tenants,
         job.pc = "write" => job.tenant = spRowOf.tenant,
         job.pc = "insert" => job.tenant \in job.tenants,
         ~job.host /\ job.pc = "insert" => job.optIn = Unset,
         ~job.host /\ job.pc = "write" => job.optIn \in {Unset, spRowOf.optIn}
  PROVE  DelInv'
<1> USE DEF DelInv
<1>1. /\ op' \in [DelCalls -> Ops] /\ op'[c] = job
      /\ \A d \in DelCalls \ {c} : op'[d] = op[d]
  BY DEF DelTypeOK
<1>2. DelTypeOK'
  BY <1>1 DEF DelTypeOK
<1>3. GrantedOK'
  BY DEF GrantedOK
<1>4. \A d \in DelCalls \ {c} : Sound(d)' => Sound(d)
  BY <1>1 DEF Sound, StillThere
<1>5. ScopeOK'
  BY <1>1, <1>4 DEF ScopeOK, Sound
<1>6. NamedOK'
  BY <1>1, <1>4 DEF NamedOK, GrantedOK, Sound
<1> QED
  BY <1>2, <1>3, <1>5, <1>6

(* The row is gone, or is a new one, which no call has read that is not mistaken now. *)
LEMMA NewRow ==
  ASSUME DelInv, NEW c \in DelCalls, UNCHANGED <<role, delegable>>, mixed' \in BOOLEAN,
         op' \in [DelCalls -> Ops], op'[c].pc = "idle", granted' \subseteq OAuthClients,
         \A d \in DelCalls \ {c} :
           /\ op'[d].pc = op[d].pc /\ op'[d].host = op[d].host /\ op'[d].optIn = op[d].optIn
           /\ op'[d].tenant = op[d].tenant /\ op'[d].tenants = op[d].tenants,
         \/ spRowOf' = Unset
         \/ /\ spRowOf' \in DelRow /\ spRowOf'.optIn \in granted' \cup {Unset}
            /\ \A d \in DelCalls \ {c} : op'[d].id = spRowOf'.id => op'[d].mistaken
  PROVE  DelInv'
<1> USE DEF DelInv
<1>1. DelTypeOK' /\ GrantedOK'
  BY DEF DelTypeOK, GrantedOK
<1>2. \A d \in DelCalls : ~Sound(d)'
  BY DEF Sound, StillThere
<1>3. ScopeOK'
  BY <1>2 DEF ScopeOK
<1>4. NamedOK'
  BY <1>2 DEF NamedOK
<1> QED
  BY <1>1, <1>3, <1>4

LEMMA DelWrite == ASSUME DelInv, NEW c \in DelCalls, WriteConfig(c) PROVE DelInv'
<1> USE DEF DelInv
<1>1. CASE ~StillThere(c)
  BY <1>1, NewOp, NoOpType DEF WriteConfig, Leave, NoOp, DelTypeOK
<1>2. CASE StillThere(c)
  <2>1. /\ op[c].pc = "write" /\ spRowOf \in DelRow /\ op[c] \in Ops
        /\ UNCHANGED <<role, delegable>>
        /\ spRowOf' = [spRowOf EXCEPT !.tenant = op[c].tenant, !.optIn = op[c].optIn]
        /\ granted' = IF op[c].host THEN granted \cup ({op[c].optIn} \ {Unset}) ELSE granted
        /\ op' = [d \in DelCalls |->
                    IF d = c THEN NoOp
                    ELSE IF op[c].optIn # spRowOf.optIn /\ op[d].pc = "write"
                      THEN [op[d] EXCEPT !.overtaken = TRUE] ELSE op[d]]
    BY <1>2 DEF WriteConfig, StillThere, DelTypeOK
  <2>m. mixed' \in BOOLEAN /\ (~mixed' => ~mixed /\ ~op[c].mistaken)
    <3>1. mixed \in BOOLEAN /\ op[c].mistaken \in BOOLEAN
      BY <2>1 DEF DelTypeOK, Ops
    <3>2. mixed' = (mixed \/ op[c].mistaken)
      BY <1>2 DEF WriteConfig
    <3> QED
      BY <3>1, <3>2
  <2>2. ~mixed' => Sound(c)
    BY <1>2, <2>1, <2>m DEF Sound
  <2>3. /\ spRowOf' \in DelRow /\ spRowOf'.id = spRowOf.id /\ spRowOf'.tenant = op[c].tenant
        /\ spRowOf'.optIn = op[c].optIn /\ spRowOf' # Unset
    BY <2>1, RowIsThere DEF DelRow, Ops
  <2>4. granted \subseteq granted' /\ granted' \subseteq OAuthClients
    BY <2>1 DEF DelTypeOK, Ops, OptIns
  <2>5. /\ op'[c].pc = "idle"
        /\ \A d \in DelCalls \ {c} :
             /\ op'[d] \in Ops /\ op'[d].pc = op[d].pc /\ op'[d].host = op[d].host
             /\ op'[d].tenants = op[d].tenants /\ op'[d].id = op[d].id
             /\ op'[d].tenant = op[d].tenant /\ op'[d].optIn = op[d].optIn
             /\ op'[d].mistaken = op[d].mistaken
             /\ op[d].pc = "write" /\ op[c].optIn # spRowOf.optIn => op'[d].overtaken
             /\ op[d].overtaken => op'[d].overtaken
    <3>1. op'[c].pc = "idle"
      BY <2>1 DEF NoOp
    <3>2. \A d \in DelCalls \ {c} :
            op'[d] = IF op[c].optIn # spRowOf.optIn /\ op[d].pc = "write"
                       THEN [op[d] EXCEPT !.overtaken = TRUE] ELSE op[d]
      BY <2>1
    <3>3. \A d \in DelCalls : op[d] \in Ops
      BY DEF DelTypeOK
    <3>4. ASSUME NEW d \in DelCalls \ {c}
          PROVE  /\ op'[d] \in Ops /\ op'[d].pc = op[d].pc /\ op'[d].host = op[d].host
                 /\ op'[d].tenants = op[d].tenants /\ op'[d].id = op[d].id
                 /\ op'[d].tenant = op[d].tenant /\ op'[d].optIn = op[d].optIn
                 /\ op'[d].mistaken = op[d].mistaken
                 /\ op[d].pc = "write" /\ op[c].optIn # spRowOf.optIn => op'[d].overtaken
                 /\ op[d].overtaken => op'[d].overtaken
      <4>1. CASE op'[d] = [op[d] EXCEPT !.overtaken = TRUE]
        BY <3>3, <4>1 DEF Ops
      <4>2. CASE op'[d] = op[d] /\ ~(op[c].optIn # spRowOf.optIn /\ op[d].pc = "write")
        BY <3>3, <4>2
      <4> QED
        BY <3>2, <4>1, <4>2
    <3> QED
      BY <3>1, <3>4
  <2>6. op' \in [DelCalls -> Ops]
    <3>1. op'[c] = NoOp
      BY <2>1
    <3> QED
      BY <2>1, <2>5, <3>1, NoOpType
  <2>7. DelTypeOK'
    BY <2>1, <2>3, <2>4, <2>6, <2>m DEF DelTypeOK
  <2>8. ~mixed' => op[c].optIn \in granted' \cup {Unset} /\ op[c].tenant = spRowOf.tenant
    <3>1. CASE op[c].host
      BY <2>1, <2>2, <3>1 DEF ScopeOK
    <3>2. CASE ~op[c].host
      BY <2>1, <2>2, <3>2 DEF NamedOK, ScopeOK
    <3> QED
      BY <3>1, <3>2
  <2>9. GrantedOK'
    BY <2>3, <2>8 DEF GrantedOK
  <2>10. \A d \in DelCalls : Sound(d)' => Sound(d) /\ d # c /\ ~mixed'
    BY <1>2, <2>3, <2>5, <2>m DEF Sound, StillThere
  <2>11. ScopeOK'
    BY <2>3, <2>5, <2>8, <2>10 DEF ScopeOK
  <2>12. NamedOK'
    BY <2>3, <2>4, <2>5, <2>10 DEF NamedOK
  <2> QED
    BY <2>7, <2>9, <2>11, <2>12
<1> QED
  BY <1>1, <1>2

LEMMA ScopeTypes == ASSUME DelTypeOK PROVE \A h \in BOOLEAN : TenantsOf(h) \subseteq Owners
BY DEF DelTypeOK, TenantsOf, Owners

LEMMA DelStep == DelInv /\ [DelNext]_delVars => DelInv'
<1> SUFFICES ASSUME DelInv, [DelNext]_delVars PROVE DelInv'
  OBVIOUS
<1> USE DelegationAssumption DEF DelegationAssumption
<1>t. DelTypeOK
  BY DEF DelInv
<1>1. CASE UNCHANGED delVars
  BY <1>1 DEF delVars, DelInv, DelTypeOK, GrantedOK, ScopeOK, NamedOK, Sound, StillThere
<1>2. ASSUME NEW c \in DelCalls, NEW host \in BOOLEAN, NEW t \in Owners, NEW o \in OptIns,
             EnterCreate(c, host, t, o)
      PROVE  DelInv'
  <2> DEFINE job == [pc |-> "insert", host |-> host, tenants |-> TenantsOf(host), id |-> Unset,
                     tenant |-> t, optIn |-> o, overtaken |-> FALSE, mistaken |-> FALSE]
  <2>1. job \in Ops /\ op' = [op EXCEPT ![c] = job]
    BY <1>2, <1>t, ScopeTypes DEF EnterCreate, Enter, Ops
  <2>2. /\ t \in TenantsOf(host) /\ (~host => o = Unset)
        /\ UNCHANGED <<role, delegable, spRowOf, granted, mixed>>
    BY <1>2 DEF EnterCreate, Enter, MayOptIn
  <2> QED
    BY <1>t, <2>1, <2>2, NewOp DEF DelTypeOK
<1>3. ASSUME NEW c \in DelCalls, NEW host \in BOOLEAN, NEW o \in OptIns, EnterUpdate(c, host, o)
      PROVE  DelInv'
  <2> DEFINE job == [pc |-> "write", host |-> host, tenants |-> TenantsOf(host), id |-> spRowOf.id,
                     tenant |-> spRowOf.tenant, optIn |-> o, overtaken |-> FALSE,
                     mistaken |-> FALSE]
  <2>1. spRowOf \in DelRow /\ spRowOf # Unset /\ spRowOf.tenant \in TenantsOf(host)
    BY <1>3, <1>t DEF EnterUpdate, InScope, DelTypeOK
  <2>2. job \in Ops /\ op' = [op EXCEPT ![c] = job]
    BY <1>3, <1>t, <2>1, ScopeTypes DEF EnterUpdate, Enter, Ops, DelRow
  <2>3. /\ ~host => o \in {Unset, spRowOf.optIn}
        /\ UNCHANGED <<role, delegable, spRowOf, granted, mixed>>
    BY <1>3 DEF EnterUpdate, Enter, MayOptIn
  <2> QED
    BY <1>t, <2>1, <2>2, <2>3, NewOp DEF DelTypeOK
<1>4. ASSUME NEW c \in DelCalls, NEW host \in BOOLEAN, EnterDelete(c, host) PROVE DelInv'
  <2> DEFINE job == [NoOp EXCEPT !.pc = "erase", !.host = host, !.tenants = TenantsOf(host),
                                 !.id = spRowOf.id]
  <2>1. spRowOf \in DelRow /\ spRowOf # Unset /\ spRowOf.tenant \in TenantsOf(host)
    BY <1>4, <1>t DEF EnterDelete, InScope, DelTypeOK
  <2>b. spRowOf.id \in DelRowIds /\ TenantsOf(host) \subseteq Owners /\ Root \in Owners /\ Unset \in OptIns
    BY <1>t, <2>1, ScopeTypes DEF DelRow, Owners, OptIns
  <2>2. /\ job \in Ops /\ op' = [op EXCEPT ![c] = job]
        /\ job.pc = "erase" /\ job.tenants = TenantsOf(host) /\ job.id = spRowOf.id
    BY <1>4, <2>b, NoOpType DEF EnterDelete, Enter, Ops
  <2>3. UNCHANGED <<role, delegable, spRowOf, granted, mixed>>
    BY <1>4 DEF EnterDelete, Enter
  <2> QED
    BY <1>t, <2>1, <2>2, <2>3, NewOp DEF DelTypeOK
<1>5. ASSUME NEW c \in DelCalls, InsertRow(c) PROVE DelInv'
  <2>1. op[c] \in Ops /\ \A d \in DelCalls : op[d] \in Ops
    BY <1>t DEF DelTypeOK
  <2>2. ASSUME NEW i \in DelRowIds, op[c].pc = "insert",
               spRowOf' = [id |-> i, tenant |-> op[c].tenant, optIn |-> op[c].optIn],
               granted' = {op[c].optIn} \ {Unset},
               op' = [d \in DelCalls |->
                       IF d = c THEN NoOp ELSE [op[d] EXCEPT !.mistaken = @ \/ op[d].id = i]],
               UNCHANGED <<role, delegable, mixed>>
        PROVE  DelInv'
    <3>1. /\ spRowOf' \in DelRow /\ granted' \subseteq OAuthClients /\ mixed' \in BOOLEAN
          /\ spRowOf'.optIn \in granted' \cup {Unset} /\ spRowOf'.id = i
      BY <1>t, <2>1, <2>2 DEF DelRow, Ops, DelTypeOK, OptIns
    <3>2. op'[c] = NoOp /\ op'[c].pc = "idle"
      BY <2>2 DEF NoOp
    <3>3. ASSUME NEW d \in DelCalls \ {c}
          PROVE  /\ op'[d] \in Ops
                 /\ op'[d].pc = op[d].pc /\ op'[d].host = op[d].host /\ op'[d].optIn = op[d].optIn
                 /\ op'[d].tenant = op[d].tenant /\ op'[d].tenants = op[d].tenants
                 /\ op'[d].id = i => op'[d].mistaken
      <4>1. op'[d] = [op[d] EXCEPT !.mistaken = @ \/ op[d].id = i]
        BY <2>2
      <4>2. op[d] \in Ops
        BY <2>1
      <4> QED
        BY <4>1, <4>2 DEF Ops
    <3>4. op' \in [DelCalls -> Ops]
      BY <2>2, <3>2, <3>3, NoOpType
    <3>5. UNCHANGED <<role, delegable>>
      BY <2>2
    <3>6. \A d \in DelCalls \ {c} : op'[d].id = spRowOf'.id => op'[d].mistaken
      BY <3>1, <3>3
    <3> QED
      BY <3>1, <3>2, <3>3, <3>4, <3>5, <3>6, NewRow
  <2>3. CASE spRowOf # Unset
    BY <1>5, <1>t, <2>3, NewOp, NoOpType DEF InsertRow, Leave, NoOp, DelTypeOK
  <2> QED
    BY <1>5, <2>2, <2>3 DEF InsertRow
<1>6. ASSUME NEW c \in DelCalls, WriteConfig(c) PROVE DelInv'
  BY <1>6, DelWrite
<1>7. ASSUME NEW c \in DelCalls, EraseRow(c) PROVE DelInv'
  <2>1. CASE StillThere(c)
    <3>1. /\ op' \in [DelCalls -> Ops] /\ op'[c].pc = "idle"
          /\ \A d \in DelCalls \ {c} : op'[d] = op[d]
      BY <1>7, <1>t, NoOpType DEF EraseRow, Leave, DelTypeOK, NoOp
    <3>2. /\ spRowOf' = Unset /\ mixed' \in BOOLEAN /\ granted' \subseteq OAuthClients
          /\ UNCHANGED <<role, delegable>>
      BY <1>7, <1>t, <2>1 DEF EraseRow, DelTypeOK
    <3> QED
      BY <3>1, <3>2, NewRow
  <2>2. CASE ~StillThere(c)
    BY <1>7, <1>t, <2>2, NewOp, NoOpType DEF EraseRow, Leave, NoOp, DelTypeOK
  <2> QED
    BY <2>1, <2>2
<1>8. ASSUME NEW c \in DelCalls, CrashOp(c) PROVE DelInv'
  BY <1>8, <1>t, NewOp, NoOpType DEF CrashOp, Leave, NoOp, DelTypeOK
<1>9. ASSUME NEW t \in DelTenants, ChangeRole(t) \/ ChangeTenant(t) PROVE DelInv'
  BY <1>9 DEF ChangeRole, ChangeTenant, DelInv, DelTypeOK, GrantedOK, ScopeOK, NamedOK, Sound,
              StillThere
<1> QED
  BY <1>1, <1>2, <1>3, <1>4, <1>5, <1>6, <1>7, <1>8, <1>9 DEF DelNext

LEMMA DelInductive == DelSpec => []DelInv
BY DelInvInit, DelStep, PTL DEF DelSpec

(* What a delegated administrator changes is of a tenant that was its own when the call *)
(* began, and names a client only as the host gave it, unless the id of the row the     *)
(* call has read was given out again before its write (endpoints/registry.ts).          *)
THEOREM DelegatesStayInScope == DelSpec => StaysDelegated
<1>1. DelInv /\ [DelNext]_delVars =>
        [\A c \in DelCalls :
           /\ ~op[c].host /\ op[c].pc # "idle" /\ op'[c].pc = "idle" /\ spRowOf' # spRowOf
           /\ ~op[c].mistaken /\ ~mixed
           => /\ \A r \in {spRowOf, spRowOf'} \ {Unset} : r.tenant \in op[c].tenants
              /\ spRowOf' # Unset =>
                   \/ spRowOf'.optIn = Unset
                   \/ spRowOf'.optIn \in granted
                      /\ (op[c].overtaken \/ spRowOf'.optIn = spRowOf.optIn)]_delVars
  <2> SUFFICES ASSUME DelInv, DelNext, NEW c \in DelCalls, ~op[c].host, op[c].pc # "idle",
                      op'[c].pc = "idle", spRowOf' # spRowOf, ~op[c].mistaken, ~mixed
               PROVE  /\ \A r \in {spRowOf, spRowOf'} \ {Unset} : r.tenant \in op[c].tenants
                      /\ spRowOf' # Unset =>
                           \/ spRowOf'.optIn = Unset
                           \/ spRowOf'.optIn \in granted
                              /\ (op[c].overtaken \/ spRowOf'.optIn = spRowOf.optIn)
    OBVIOUS
  <2>t. /\ op \in [DelCalls -> Ops] /\ (spRowOf = Unset \/ spRowOf \in DelRow)
        /\ \A d \in DelCalls : op[d] \in Ops
    BY DEF DelInv, DelTypeOK
  (* Only this call can have ended. *)
  <2>1. PICK d \in DelCalls : InsertRow(d) \/ WriteConfig(d) \/ EraseRow(d)
    BY DEF DelNext, EnterCreate, EnterUpdate, EnterDelete, Enter, CrashOp, ChangeRole, ChangeTenant
  <2>2. d = c
    <3> SUFFICES ASSUME d # c PROVE FALSE
      OBVIOUS
    <3>1. \/ op'[c] = op[c] \/ op'[c] = [op[c] EXCEPT !.overtaken = TRUE]
          \/ \E b : op'[c] = [op[c] EXCEPT !.mistaken = b]
      BY <2>1, <2>t DEF InsertRow, WriteConfig, EraseRow, Leave
    <3> QED
      BY <2>t, <3>1 DEF Ops
  <2>3. CASE InsertRow(c)
    <3>1. PICK i : /\ spRowOf = Unset /\ op[c].pc = "insert"
                   /\ spRowOf' = [id |-> i, tenant |-> op[c].tenant, optIn |-> op[c].optIn]
      BY <2>3 DEF InsertRow
    <3> QED
      BY <3>1 DEF DelInv, ScopeOK, NamedOK
  <2>4. CASE WriteConfig(c)
    <3>1. /\ StillThere(c) /\ op[c].pc = "write" /\ Sound(c)
          /\ spRowOf' = [spRowOf EXCEPT !.tenant = op[c].tenant, !.optIn = op[c].optIn]
      BY <2>4 DEF WriteConfig, Sound
    <3>2. spRowOf \in DelRow
      BY <2>t, <3>1 DEF StillThere
    <3>3. spRowOf'.tenant = op[c].tenant /\ spRowOf'.optIn = op[c].optIn
      BY <3>1, <3>2 DEF DelRow
    <3> QED
      BY <3>1, <3>3 DEF DelInv, ScopeOK, NamedOK
  <2>5. CASE EraseRow(c)
    BY <2>5 DEF EraseRow, DelInv, ScopeOK, Sound
  <2> QED
    BY <2>1, <2>2, <2>3, <2>4, <2>5
<1> QED
  BY DelInductive, <1>1, PTL DEF DelSpec, StaysDelegated

-----------------------------------------------------------------------------
(* The backfill of lookup keys. *)

(* Places in a finite set of numbers. *)
Lower(T, x) == {t \in T : t < x}
PlaceIn(T, x) == Cardinality(Lower(T, x))

LEMMA LeastOf ==
  ASSUME NEW T, T \subseteq Nat, T # {}
  PROVE  \E x \in T : \A y \in T : x <= y
<1> DEFINE R == OpToRel(<, Nat)
<1>1. IsWellFoundedOn(R, Nat)
  BY NatLessThanWellFounded
<1>2. \A a, b \in Nat : a < b => <<a, b>> \in R
  BY DEF OpToRel
<1> HIDE DEF R
<1>3. PICK x \in T : \A y \in T : ~(<<y, x>> \in R)
  BY <1>1, WFMin
<1>4. ASSUME NEW y \in T PROVE x <= y
  <2>1. x \in Nat /\ y \in Nat /\ ~(y < x)
    BY <1>2, <1>3
  <2> QED
    BY <2>1
<1> QED
  BY <1>4

LEMMA PlaceType ==
  ASSUME NEW T, IsFiniteSet(T), NEW x
  PROVE  IsFiniteSet(Lower(T, x)) /\ PlaceIn(T, x) \in Nat
<1>1. Lower(T, x) \in SUBSET T
  BY DEF Lower
<1> QED
  BY <1>1, FS_Subset, FS_CardinalityType DEF PlaceIn

(* The element before x has the place before. *)
LEMMA PlaceBefore ==
  ASSUME NEW T, IsFiniteSet(T), T \subseteq Nat, NEW x \in Nat, Lower(T, x) # {}
  PROVE  \E m \in T : m < x /\ PlaceIn(T, m) = PlaceIn(T, x) - 1
<1> DEFINE D == {x - t : t \in Lower(T, x)}
<1>1. D \subseteq Nat /\ D # {}
  <2>1. \A t \in Lower(T, x) : t \in Nat /\ x - t \in Nat
    BY DEF Lower
  <2> QED
    BY <2>1
<1>2. PICK d \in D : \A e \in D : d <= e
  <2> HIDE DEF D
  <2> QED
    BY <1>1, LeastOf
<1>3. PICK m \in Lower(T, x) : d = x - m
  BY <1>2
<1>4. m \in T /\ m < x /\ m \in Nat
  BY <1>3 DEF Lower
<1>5. ASSUME NEW t \in Lower(T, x) PROVE t <= m
  <2>1. x - t \in D /\ t \in Nat
    BY DEF Lower
  <2>2. x - m <= x - t
    BY <1>2, <1>3, <2>1
  <2> QED
    BY <1>4, <2>1, <2>2
<1>6. Lower(T, m) = Lower(T, x) \ {m}
  <2>1. ASSUME NEW t \in Lower(T, m) PROVE t \in Lower(T, x) \ {m}
    <3>1. t \in T /\ t \in Nat /\ t < m
      BY DEF Lower
    <3> QED
      BY <3>1, <1>4 DEF Lower
  <2>2. ASSUME NEW t \in Lower(T, x) \ {m} PROVE t \in Lower(T, m)
    <3>1. t \in T /\ t \in Nat /\ t <= m
      BY <1>5 DEF Lower
    <3> QED
      BY <3>1, <1>4 DEF Lower
  <2> QED
    BY <2>1, <2>2
<1>7. PlaceIn(T, m) = PlaceIn(T, x) - 1
  BY <1>3, <1>6, PlaceType, FS_RemoveElement DEF PlaceIn
<1> QED
  BY <1>4, <1>7

(* No place is left out. *)
LEMMA PlaceTaken ==
  ASSUME NEW T, IsFiniteSet(T), T \subseteq Nat, NEW s \in Nat, NEW n \in Nat, n < PlaceIn(T, s)
  PROVE  \E m \in T : m < s /\ PlaceIn(T, m) = n
<1> DEFINE U == {u \in T \cup {s} : u <= s /\ n < PlaceIn(T, u)}
<1>1. U \subseteq Nat /\ s \in U
  <2>1. s <= s /\ T \cup {s} \subseteq Nat
    OBVIOUS
  <2> QED
    BY <2>1
<1>2. PICK u \in U : \A v \in U : u <= v
  <2> HIDE DEF U
  <2> QED
    BY <1>1, LeastOf
<1>3. u \in Nat /\ u <= s /\ n < PlaceIn(T, u) /\ PlaceIn(T, u) \in Nat
  BY <1>1, <1>2, PlaceType
<1>4. Lower(T, u) # {}
  BY <1>3, FS_EmptySet DEF PlaceIn
<1>5. PICK m \in T : m < u /\ PlaceIn(T, m) = PlaceIn(T, u) - 1
  BY <1>3, <1>4, PlaceBefore
<1>6. m \notin U /\ m \in Nat
  BY <1>2, <1>3, <1>5
<1>7. ~(n < PlaceIn(T, m)) /\ PlaceIn(T, m) \in Nat
  BY <1>3, <1>5, <1>6, PlaceType
<1> QED
  BY <1>3, <1>5, <1>6, <1>7

LEMMA PlaceGrows ==
  ASSUME NEW T, IsFiniteSet(T), T \subseteq Nat, NEW s \in T, NEW t \in Nat, s < t
  PROVE  PlaceIn(T, s) < PlaceIn(T, t)
<1>1. Lower(T, s) \cup {s} \in SUBSET Lower(T, t)
  <2>1. ASSUME NEW u \in Lower(T, s) PROVE u \in Lower(T, t)
    <3>1. u \in T /\ u \in Nat /\ s \in Nat /\ u < s
      BY DEF Lower
    <3> QED
      BY <3>1 DEF Lower
  <2>2. s \in Lower(T, t)
    BY DEF Lower
  <2> QED
    BY <2>1, <2>2
<1>2. s \notin Lower(T, s)
  BY DEF Lower
<1>3. IsFiniteSet(Lower(T, s)) /\ IsFiniteSet(Lower(T, t))
  BY PlaceType
<1>4. Cardinality(Lower(T, s) \cup {s}) = Cardinality(Lower(T, s)) + 1
  BY <1>2, <1>3, FS_AddElement
<1>5. Cardinality(Lower(T, s) \cup {s}) <= Cardinality(Lower(T, t))
  BY <1>1, <1>3, FS_Subset
<1>6. Cardinality(Lower(T, s)) \in Nat /\ Cardinality(Lower(T, t)) \in Nat
  BY <1>3, FS_CardinalityType
<1> QED
  BY <1>4, <1>5, <1>6 DEF PlaceIn

(* A page with rows after it is full. *)
LEMMA FullPage ==
  ASSUME NEW T, IsFiniteSet(T), T \subseteq Nat, NEW s \in Nat, NEW a \in Nat, NEW n \in Nat, n > 0,
         a + n <= PlaceIn(T, s),
         NEW P, P \subseteq T,
         \A t \in T : a <= PlaceIn(T, t) /\ PlaceIn(T, t) < a + n => t \in P
  PROVE  IsFiniteSet(P) /\ Cardinality(P) >= n
<1>0. PlaceIn(T, s) \in Nat
  BY PlaceType
<1>1. PICK x \in T : x < s /\ PlaceIn(T, x) = a
  <2>1. a < PlaceIn(T, s)
    BY <1>0
  <2> QED
    BY <2>1, PlaceTaken
<1>2. PICK y \in T \cup {s} : PlaceIn(T, y) = a + n
  <2>1. CASE PlaceIn(T, s) = a + n
    BY <2>1
  <2>2. CASE a + n < PlaceIn(T, s)
    <3>1. a + n \in Nat
      OBVIOUS
    <3> QED
      BY <2>2, <3>1, PlaceTaken
  <2> QED
    BY <2>1, <2>2, PlaceType
<1> DEFINE Q == Lower(T, y) \ Lower(T, x)
<1>3. x \in Nat /\ y \in Nat /\ x < y
  <2>1. x \in Nat /\ y \in Nat
    OBVIOUS
  <2>2. CASE y <= x
    <3>1. CASE y = x
      BY <3>1, <1>1, <1>2
    <3>2. CASE y < x
      <4>1. y \in T
        BY <1>1, <2>1, <3>2
      <4>2. PlaceIn(T, y) < PlaceIn(T, x)
        BY <4>1, <3>2, <2>1, PlaceGrows
      <4> QED
        BY <4>2, <1>1, <1>2
    <3> QED
      BY <2>1, <2>2, <3>1, <3>2
  <2> QED
    BY <2>1, <2>2
<1>4. Lower(T, x) \subseteq Lower(T, y)
  <2> SUFFICES ASSUME NEW t \in Lower(T, x) PROVE t \in Lower(T, y)
    OBVIOUS
  <2>1. t \in T /\ t \in Nat /\ t < x
    BY DEF Lower
  <2> QED
    BY <1>3, <2>1 DEF Lower
<1>5. Cardinality(Q) = n
  <2>1. Lower(T, y) \cap Lower(T, x) = Lower(T, x)
    BY <1>4
  <2>2. IsFiniteSet(Lower(T, y))
    BY PlaceType
  <2>3. Cardinality(Q) = Cardinality(Lower(T, y)) - Cardinality(Lower(T, x))
    BY <2>1, <2>2, FS_Difference
  <2> QED
    BY <1>1, <1>2, <2>3 DEF PlaceIn
<1>6. ASSUME NEW t \in Q PROVE t \in P
  <2>1. t \in T /\ t \in Nat /\ t < y /\ ~(t < x)
    BY DEF Lower
  <2>2. PlaceIn(T, t) < a + n /\ PlaceIn(T, t) \in Nat
    BY <1>2, <1>3, <2>1, PlaceGrows, PlaceType
  <2>3. a <= PlaceIn(T, t)
    <3>1. CASE t = x
      BY <3>1, <1>1
    <3>2. CASE x < t
      <4>1. PlaceIn(T, x) < PlaceIn(T, t)
        BY <3>2, <2>1, PlaceGrows
      <4> QED
        BY <1>1, <2>2, <4>1
    <3> QED
      BY <1>3, <2>1, <3>1, <3>2
  <2> QED
    BY <2>1, <2>2, <2>3
<1>7. IsFiniteSet(P)
  <2>1. P \in SUBSET T
    OBVIOUS
  <2> QED
    BY <2>1, FS_Subset
<1>8. Cardinality(Q) <= Cardinality(P)
  <2>1. Q \in SUBSET P
    BY <1>6
  <2> HIDE DEF Q
  <2> QED
    BY <1>7, <2>1, FS_Subset
<1> QED
  BY <1>5, <1>7, <1>8, FS_CardinalityType

-----------------------------------------------------------------------------
(* A row has no key or the one of its entity ID, which is the one that was read, unless *)
(* an edit came in between; and the endpoint runs with tenants on.                       *)
KeysOK ==
  /\ mongo \/ tenantsOn
  /\ InTable \subseteq used /\ atStart \subseteq used
  /\ \A s \in InTable \ raced :
       /\ table[s].key \in {table[s].entity, NoKey}
       /\ page[s] # NoKey => page[s].entity = table[s].entity

(* What a page holds of a row: a key is never taken away again. *)
PageOK ==
  /\ step # "write" => page = NoPage
  /\ mongo /\ step = "write" => ~wasFull
  /\ \A s \in SpIds :
       page[s] # NoKey =>
         /\ s \in used
         /\ mongo => page[s].key = NoKey
         /\ s \in InTable /\ page[s].key # NoKey => table[s].key # NoKey

(* The SPs that the run still comes to, and those it has done with. *)
Ahead(s) ==
  \/ step = "read" /\ (mongo \/ Place(s) >= offset)
  \/ step = "write" /\ (page[s] # NoKey \/ (~mongo /\ wasFull /\ Place(s) >= offset + PageSize))
DoneWith(s) ==
  \/ s \in reported
  \/ ~mongo /\ (shrunk \/ s \in raced \/ table[s].key = table[s].entity)
  \/ mongo /\ table[s].key # NoKey
Reached == step # "idle" => \A s \in atStart \cap InTable : Ahead(s) \/ DoneWith(s)

BInv == BackfillTypeOK /\ KeysOK /\ PageOK /\ Reached

LEMMA TableIsFinite ==
  ASSUME NEW T, T \subseteq SpIds
  PROVE  IsFiniteSet(T) /\ T \subseteq Nat
<1>1. IsFiniteSet(SpIds) /\ SpIds \subseteq Nat
  BY FS_Interval, BackfillAssumption DEF SpIds, BackfillAssumption
<1> QED
  BY <1>1, FS_Subset

(* Only a deletion moves an SP to an earlier place. *)
LEMMA PlacesGrow ==
  ASSUME InTable \subseteq InTable', NEW s
  PROVE  Place(s) \in Nat /\ Place(s)' \in Nat /\ Place(s) <= Place(s)'
<1>1. InTable \subseteq SpIds /\ InTable' \subseteq SpIds
  BY DEF InTable
<1>2. /\ IsFiniteSet(InTable) /\ IsFiniteSet(InTable')
  BY <1>1, TableIsFinite
<1>3. Lower(InTable, s) \in SUBSET Lower(InTable', s)
  BY DEF Lower
<1>4. Place(s) = Cardinality(Lower(InTable, s)) /\ Place(s)' = Cardinality(Lower(InTable', s))
  BY DEF Place, Lower
<1> QED
  BY <1>2, <1>3, <1>4, PlaceType, FS_Subset, FS_CardinalityType

LEMMA RowIsARow == \A r \in SpTableRow : r # NoKey
BY BackfillAssumption DEF BackfillAssumption

LEMMA BackfillInitInv == BackfillInit => BInv
<1> SUFFICES ASSUME BackfillInit PROVE BInv
  OBVIOUS
<1>1. table \in [SpIds -> {r \in SpTableRow : r.key = NoKey} \cup {NoKey}]
  BY DEF BackfillInit
<1>2. \A s \in InTable : table[s].key = NoKey
  BY <1>1 DEF InTable
<1>3. InTable \subseteq SpIds /\ NoPage \in [SpIds -> SpTableRow \cup {NoKey}]
  BY DEF InTable, NoPage
<1>4. BackfillTypeOK
  BY <1>1, <1>3 DEF BackfillInit, BackfillTypeOK
<1>5. KeysOK
  BY <1>2, <1>3 DEF BackfillInit, KeysOK, NoPage, InTable
<1>6. PageOK
  BY DEF BackfillInit, PageOK, NoPage
<1> QED
  BY <1>4, <1>5, <1>6 DEF BackfillInit, BInv, Reached

(* The registry writes one row, of an SP that was there or is new; the run stands still. *)
LEMMA RegistryWrites ==
  ASSUME BInv, NEW s \in SpIds, NEW row \in SpTableRow, table' = [table EXCEPT ![s] = row],
         UNCHANGED <<mongo, tenantsOn, run, shrunk>>,
         s \in InTable \/ (s \notin used /\ raced' = raced),
         used' = used \cup {s},
         raced' \in SUBSET SpIds, \A t \in SpIds \ {s} : t \in raced' <=> t \in raced,
         s \notin raced' => row.key \in {row.entity, NoKey} /\ page[s] = NoKey,
         tenantsOn => row.key = row.entity,
         s \in InTable => (table[s].key # NoKey => row.key # NoKey)
  PROVE  BInv'
<1> USE DEF BInv, run
<1>1. /\ table' \in [SpIds -> SpTableRow \cup {NoKey}] /\ table'[s] = row
      /\ \A t \in SpIds \ {s} : table'[t] = table[t]
  BY DEF BackfillTypeOK
<1>2. InTable' = InTable \cup {s} /\ InTable \subseteq SpIds
  BY <1>1, RowIsARow DEF InTable
<1>3. BackfillTypeOK'
  BY <1>1 DEF BackfillTypeOK
<1>4. s \notin InTable => page[s] = NoKey /\ s \notin atStart
  BY DEF PageOK, KeysOK
<1>5. KeysOK'
  BY <1>1, <1>2, <1>4 DEF KeysOK
<1>6. PageOK'
  BY <1>1, <1>2, <1>4 DEF PageOK
<1>7. Reached'
  <2> SUFFICES ASSUME step # "idle", NEW t \in atStart \cap InTable' PROVE Ahead(t)' \/ DoneWith(t)'
    BY DEF Reached
  <2>1. t \in InTable /\ t \in SpIds
    BY <1>2, <1>4
  <2>2. Ahead(t) \/ DoneWith(t)
    BY <2>1 DEF Reached
  <2>3. Ahead(t) => Ahead(t)'
    <3>1. Place(t) \in Nat /\ Place(t)' \in Nat /\ Place(t) <= Place(t)'
      BY <1>2, PlacesGrow
    <3>2. offset \in Nat /\ PageSize \in Nat
      BY BackfillAssumption DEF BackfillTypeOK, BackfillAssumption
    <3> QED
      BY <3>1, <3>2 DEF Ahead
  <2>4. CASE t # s /\ DoneWith(t)
    BY <1>1, <2>1, <2>4 DEF DoneWith
  <2>5. CASE t = s /\ DoneWith(t)
    BY <1>1, <2>1, <2>5 DEF DoneWith, KeysOK
  <2> QED
    BY <2>2, <2>3, <2>4, <2>5
<1> QED
  BY <1>3, <1>5, <1>6, <1>7

LEMMA EditKeeps ==
  ASSUME BInv, NEW s \in SpIds, NEW e \in EntityIds, EditRow(s, e)
  PROVE  BInv'
<1> DEFINE row == [entity |-> e, key |-> KeyColumn(e, table[s].key), readable |-> TRUE]
<1>1. s \in InTable /\ table[s] \in SpTableRow
  BY DEF EditRow, BInv, BackfillTypeOK, InTable
<1>2. row \in SpTableRow
  BY <1>1 DEF SpTableRow, KeyColumn
<1>3. table' = [table EXCEPT ![s] = row]
  BY DEF EditRow
<1>4. /\ raced' = IF page[s] = NoKey /\ row.key \in {e, NoKey} THEN raced \ {s} ELSE raced \cup {s}
      /\ UNCHANGED <<mongo, tenantsOn, used, run, shrunk>>
  BY DEF EditRow
<1>5. used' = used \cup {s} /\ raced \subseteq SpIds
  BY <1>1, <1>4 DEF BInv, KeysOK, BackfillTypeOK
<1>6. /\ tenantsOn => row.key = row.entity
      /\ table[s].key # NoKey => row.key # NoKey
      /\ row.entity = e
  BY BackfillAssumption DEF KeyColumn, BackfillAssumption
<1> HIDE DEF row
<1> QED
  BY <1>1, <1>2, <1>3, <1>4, <1>5, <1>6, RegistryWrites

LEMMA CreateKeeps ==
  ASSUME BInv, NEW s \in SpIds, NEW e \in EntityIds, CreateRow(s, e)
  PROVE  BInv'
<1> DEFINE row == [entity |-> e, key |-> KeyColumn(e, NoKey), readable |-> TRUE]
<1>1. row \in SpTableRow /\ table' = [table EXCEPT ![s] = row]
  BY DEF CreateRow, SpTableRow, KeyColumn
<1>2. /\ s \notin used /\ used' = used \cup {s}
      /\ UNCHANGED <<mongo, tenantsOn, run, shrunk, raced>>
  BY DEF CreateRow
<1>3. s \notin InTable /\ page[s] = NoKey /\ raced \subseteq SpIds
  BY <1>2 DEF BInv, KeysOK, PageOK, BackfillTypeOK
<1>4. /\ row.key \in {row.entity, NoKey}
      /\ tenantsOn => row.key = row.entity
  BY DEF KeyColumn
<1> HIDE DEF row
<1> QED
  BY <1>1, <1>2, <1>3, <1>4, RegistryWrites

LEMMA DropKeeps ==
  ASSUME BInv, NEW s \in SpIds, DropRow(s)
  PROVE  BInv'
<1> USE DEF BInv
<1>1. /\ table' = [table EXCEPT ![s] = NoKey] /\ shrunk' = (shrunk \/ step \in {"read", "write"})
      /\ UNCHANGED <<mongo, tenantsOn, used, run, raced>>
  BY DEF DropRow
<1>2. /\ table' \in [SpIds -> SpTableRow \cup {NoKey}] /\ table'[s] = NoKey
      /\ \A t \in SpIds \ {s} : table'[t] = table[t]
  BY <1>1 DEF BackfillTypeOK
<1>3. InTable' = InTable \ {s}
  BY <1>2 DEF InTable
<1>4. BackfillTypeOK'
  BY <1>1, <1>2 DEF BackfillTypeOK, run
<1>5. KeysOK'
  BY <1>1, <1>2, <1>3 DEF KeysOK, run, InTable
<1>6. PageOK'
  BY <1>1, <1>2, <1>3 DEF PageOK, run
<1>7. Reached'
  <2> SUFFICES ASSUME step # "idle", NEW t \in atStart \cap InTable' PROVE Ahead(t)' \/ DoneWith(t)'
    BY <1>1 DEF Reached, run
  <2>1. t \in InTable /\ t # s /\ table'[t] = table[t]
    BY <1>2, <1>3 DEF InTable
  <2>2. Ahead(t) \/ DoneWith(t)
    BY <2>1 DEF Reached
  <2>3. CASE DoneWith(t)
    BY <1>1, <2>1, <2>3 DEF DoneWith, run
  <2>4. CASE Ahead(t) /\ ~mongo
    BY <1>1, <2>4 DEF Ahead, DoneWith, run
  <2>5. CASE Ahead(t) /\ mongo
    BY <1>1, <2>5 DEF Ahead, run
  <2> QED
    BY <2>2, <2>3, <2>4, <2>5
<1> QED
  BY <1>4, <1>5, <1>6, <1>7

LEMMA ReadKeeps == ASSUME BInv, ReadPage PROVE BInv'
<1> USE DEF BInv
<1> DEFINE found == {s \in InTable : InPage(s)}
<1>1. /\ step = "read" /\ step' = "write"
      /\ page' = [s \in SpIds |-> IF s \in found THEN table[s] ELSE NoKey]
      /\ wasFull' = (~mongo /\ Cardinality(found) >= PageSize)
      /\ UNCHANGED <<mongo, tenantsOn, table, used, offset, reported, atStart, shrunk, raced>>
  BY DEF ReadPage
<1>2. found \subseteq InTable /\ InTable \subseteq SpIds /\ InTable' = InTable
  BY <1>1 DEF InTable
<1>3. \A s \in SpIds : page'[s] # NoKey => s \in found /\ page'[s] = table[s]
  BY <1>1
<1>4. BackfillTypeOK'
  <2>1. page' \in [SpIds -> SpTableRow \cup {NoKey}]
    BY <1>1, <1>2 DEF BackfillTypeOK
  <2> QED
    BY <1>1, <2>1 DEF BackfillTypeOK
<1>5. KeysOK'
  BY <1>1, <1>2, <1>3 DEF KeysOK
<1>6. PageOK'
  <2>1. mongo => \A s \in found : table[s].key = NoKey
    BY DEF InPage
  <2> QED
    BY <1>1, <1>2, <1>3, <2>1 DEF PageOK, KeysOK
<1>7. Reached'
  <2> SUFFICES ASSUME NEW s \in atStart \cap InTable PROVE Ahead(s)' \/ DoneWith(s)'
    BY <1>1, <1>2 DEF Reached
  <2>1. s \in SpIds /\ table[s] # NoKey /\ Place(s)' = Place(s)
    BY <1>1, <1>2 DEF InTable, Place
  <2>2. Ahead(s) \/ DoneWith(s)
    BY <1>1 DEF Reached
  <2>3. CASE s \in found
    BY <1>1, <2>1, <2>3 DEF Ahead
  <2>4. CASE DoneWith(s)
    BY <1>1, <2>4 DEF DoneWith
  <2>5. CASE s \notin found /\ Ahead(s)
    <3>1. CASE mongo
      BY <1>1, <2>5, <3>1 DEF DoneWith, InPage
    <3>2. CASE ~mongo
      <4>1. /\ Place(s) \in Nat /\ offset \in Nat /\ PageSize \in Nat /\ PageSize > 0
            /\ s \in Nat /\ IsFiniteSet(InTable) /\ InTable \subseteq Nat
        BY <1>2, TableIsFinite, PlacesGrow, BackfillAssumption DEF BackfillTypeOK, BackfillAssumption
      <4>2. offset + PageSize <= Place(s)
        BY <1>1, <2>5, <3>2, <4>1 DEF Ahead, InPage
      <4>3. \A t : Place(t) = PlaceIn(InTable, t)
        BY DEF Place, PlaceIn, Lower
      <4>4. \A t \in InTable :
              offset <= PlaceIn(InTable, t) /\ PlaceIn(InTable, t) < offset + PageSize => t \in found
        BY <3>2, <4>3 DEF InPage
      <4>5. Cardinality(found) >= PageSize
        <5> HIDE DEF found
        <5> QED
          <6>1. offset + PageSize <= PlaceIn(InTable, s)
            BY <4>2, <4>3
          <6> QED
            BY <1>2, <4>1, <4>4, <6>1, FullPage
      <4> QED
        BY <1>1, <2>1, <3>2, <4>2, <4>5 DEF Ahead
    <3> QED
      BY <3>1, <3>2
  <2> QED
    BY <2>2, <2>3, <2>4, <2>5
<1> QED
  BY <1>4, <1>5, <1>6, <1>7

LEMMA GiveKeeps == ASSUME BInv, NEW s \in SpIds, WriteKeyOf(s) PROVE BInv'
<1> USE DEF BInv
<1>1. /\ step = "write" /\ page[s] # NoKey /\ page' = [page EXCEPT ![s] = NoKey]
      /\ UNCHANGED <<mongo, tenantsOn, used, offset, wasFull, step, atStart, shrunk, raced>>
  BY DEF WriteKeyOf
<1>2. /\ page \in [SpIds -> SpTableRow \cup {NoKey}] /\ table \in [SpIds -> SpTableRow \cup {NoKey}]
      /\ page[s] \in SpTableRow /\ page[s].entity \in EntityIds
      /\ page' \in [SpIds -> SpTableRow \cup {NoKey}] /\ page'[s] = NoKey
      /\ \A t \in SpIds \ {s} : page'[t] = page[t]
  BY <1>1 DEF BackfillTypeOK, SpTableRow
<1> DEFINE keyed == page[s].key = NoKey /\ Hits(s) /\ table' = [table EXCEPT ![s].key = page[s].entity]
<1>3. \/ page[s].key # NoKey /\ UNCHANGED <<table, reported>>
      \/ page[s].key = NoKey /\ ~Hits(s) /\ UNCHANGED <<table, reported>>
      \/ reported' = reported \cup {s} /\ UNCHANGED table
      \/ keyed /\ UNCHANGED reported
  BY DEF WriteKeyOf, GiveKey
<1>4. keyed => s \in InTable /\ table[s] \in SpTableRow
  BY <1>2 DEF Hits, InTable
(* The table: at most the key of s is another one. *)
<1>5. /\ table' \in [SpIds -> SpTableRow \cup {NoKey}]
      /\ \A t \in SpIds \ {s} : table'[t] = table[t]
      /\ table'[s] = table[s]
         \/ (/\ keyed /\ table'[s] \in SpTableRow /\ table'[s].entity = table[s].entity
             /\ table'[s].key = page[s].entity)
  <2>1. CASE keyed
    <3>1. table[s] \in SpTableRow /\ table' = [table EXCEPT ![s] = [table[s] EXCEPT !.key = page[s].entity]]
      BY <1>4, <2>1
    <3>2. [table[s] EXCEPT !.key = page[s].entity] \in SpTableRow
      BY <1>2, <3>1 DEF SpTableRow
    <3> QED
      BY <1>2, <2>1, <3>1, <3>2 DEF SpTableRow
  <2>2. CASE table' = table
    BY <1>2, <2>2
  <2> QED
    BY <1>3, <2>1, <2>2
<1> HIDE DEF keyed
<1>6. InTable' = InTable /\ InTable \subseteq SpIds
  BY <1>4, <1>5, RowIsARow DEF InTable
<1>7. reported' \in SUBSET SpIds /\ reported \subseteq reported'
  BY <1>3 DEF BackfillTypeOK
<1>8. BackfillTypeOK'
  BY <1>1, <1>2, <1>5, <1>7 DEF BackfillTypeOK
<1>k. page[s].entity # NoKey
  BY <1>2, BackfillAssumption DEF BackfillAssumption
<1>9. KeysOK'
  BY <1>1, <1>2, <1>5, <1>6 DEF KeysOK
<1>10. PageOK'
  BY <1>1, <1>2, <1>5, <1>6, <1>k DEF PageOK
<1>11. Reached'
  <2> SUFFICES ASSUME NEW t \in atStart \cap InTable PROVE Ahead(t)' \/ DoneWith(t)'
    BY <1>1, <1>6 DEF Reached
  <2>1. t \in SpIds /\ Place(t)' = Place(t)
    BY <1>6 DEF Place
  <2>2. Ahead(t) \/ DoneWith(t)
    BY <1>1 DEF Reached
  <2>3. CASE DoneWith(t)
    <3>1. CASE t # s
      BY <1>1, <1>5, <1>7, <2>1, <2>3, <3>1 DEF DoneWith
    <3>2. CASE t = s /\ table'[s] = table[s]
      BY <1>1, <1>7, <2>3, <3>2 DEF DoneWith
    <3>3. CASE t = s /\ table'[s] # table[s]
      BY <1>1, <1>5, <1>7, <1>k, <2>3, <3>3 DEF DoneWith, KeysOK
    <3> QED
      BY <3>1, <3>2, <3>3
  <2>4. CASE t # s /\ Ahead(t)
    BY <1>1, <1>2, <2>1, <2>4 DEF Ahead
  <2>5. CASE t = s
    <3>1. CASE s \in raced /\ ~mongo
      BY <1>1, <2>5, <3>1 DEF DoneWith
    <3>2. CASE s \notin raced \/ mongo
      <4>1. CASE page[s].key # NoKey /\ UNCHANGED <<table, reported>>
        BY <1>1, <2>5, <3>2, <4>1 DEF DoneWith, PageOK, KeysOK
      <4>2. CASE page[s].key = NoKey /\ ~Hits(s) /\ UNCHANGED <<table, reported>>
        BY <1>1, <2>5, <4>2 DEF DoneWith, Hits
      <4>3. CASE reported' = reported \cup {s}
        BY <2>5, <4>3 DEF DoneWith
      <4>4. CASE keyed
        <5>1. table'[s].key = page[s].entity /\ table'[s].entity = table[s].entity
          <6>1. table' = [table EXCEPT ![s].key = page[s].entity] /\ table[s] \in SpTableRow
            BY <1>4, <4>4 DEF keyed
          <6> QED
            BY <1>2, <6>1 DEF SpTableRow
        <5> QED
          BY <1>1, <1>k, <2>5, <3>2, <5>1 DEF DoneWith, KeysOK
      <4> QED
        BY <1>3, <4>1, <4>2, <4>3, <4>4
    <3> QED
      BY <3>1, <3>2
  <2> QED
    BY <2>2, <2>3, <2>4, <2>5
<1> QED
  BY <1>8, <1>9, <1>10, <1>11

LEMMA BackfillStep == BInv /\ [BackfillNext]_backfillVars => BInv'
<1> SUFFICES ASSUME BInv, [BackfillNext]_backfillVars PROVE BInv'
  OBVIOUS
<1> USE BackfillAssumption DEF BInv, BackfillAssumption, run
<1>1. CASE UNCHANGED backfillVars
  BY <1>1 DEF backfillVars, BackfillTypeOK, KeysOK, PageOK, Reached, Ahead, DoneWith, Place, InTable, NoPage
<1>2. CASE TurnOn
  BY <1>2 DEF TurnOn, BackfillTypeOK, KeysOK, PageOK, Reached, Ahead, DoneWith, Place, InTable, NoPage
<1>3. CASE BeginBackfill
  <2>1. /\ step' = "read" /\ offset' = 0 /\ page' = NoPage /\ wasFull' = FALSE /\ reported' = {}
        /\ atStart' = InTable /\ shrunk' = FALSE
        /\ UNCHANGED <<mongo, tenantsOn, table, used, raced>>
    BY <1>3 DEF BeginBackfill
  <2>2. InTable' = InTable /\ InTable \subseteq SpIds /\ NoPage \in [SpIds -> SpTableRow \cup {NoKey}]
    BY <2>1 DEF InTable, NoPage
  <2>3. BackfillTypeOK'
    BY <2>1, <2>2 DEF BackfillTypeOK
  <2>4. KeysOK' /\ PageOK'
    BY <2>1, <2>2 DEF KeysOK, PageOK, NoPage
  <2>5. \A s : Place(s)' \in Nat
    BY <2>2, PlacesGrow
  <2>6. Reached'
    BY <2>1, <2>5 DEF Reached, Ahead
  <2> QED
    BY <2>3, <2>4, <2>6
<1>4. CASE ReadPage
  BY <1>4, ReadKeeps
<1>5. CASE NextPage
  <2>1. /\ step = "write" /\ page = NoPage
        /\ UNCHANGED <<mongo, tenantsOn, table, used, page, wasFull, reported, atStart, shrunk, raced>>
        /\ \/ wasFull /\ step' = "read" /\ offset' = offset + PageSize
           \/ ~wasFull /\ step' = "done" /\ offset' = offset
    BY <1>5 DEF NextPage
  <2>2. InTable' = InTable /\ \A s : Place(s)' = Place(s)
    BY <2>1 DEF InTable, Place
  <2>3. BackfillTypeOK' /\ KeysOK' /\ PageOK'
    BY <2>1, <2>2 DEF BackfillTypeOK, KeysOK, PageOK
  <2>4. \A s \in SpIds : page[s] = NoKey
    BY <2>1 DEF NoPage
  <2>5. Reached'
    BY <2>1, <2>2, <2>4 DEF Reached, Ahead, DoneWith, InTable
  <2> QED
    BY <2>3, <2>5
<1>6. CASE CrashBackfill
  BY <1>6 DEF CrashBackfill, BackfillTypeOK, KeysOK, PageOK, Reached, InTable, NoPage
<1>7. ASSUME NEW s \in SpIds, NEW e \in EntityIds, CreateRow(s, e) PROVE BInv'
  BY <1>7, CreateKeeps
<1>8. ASSUME NEW s \in SpIds, NEW e \in EntityIds, EditRow(s, e) PROVE BInv'
  BY <1>8, EditKeeps
<1>9. ASSUME NEW s \in SpIds, DropRow(s) PROVE BInv'
  BY <1>9, DropKeeps
<1>10. ASSUME NEW s \in SpIds, WriteKeyOf(s) PROVE BInv'
  BY <1>10, GiveKeeps
<1> QED
  BY <1>1, <1>2, <1>3, <1>4, <1>5, <1>6, <1>7, <1>8, <1>9, <1>10 DEF BackfillNext

(* For any number of SPs, any page size and any interleaving of the registry with the  *)
(* pages, a backfill that returns has given every SP its key, or reports it - but for  *)
(* those edited meanwhile, and for those that a deletion has moved to a page before.   *)
THEOREM BackfillFindsEverySp == BackfillSpec => []EverySpIsFound
<1>1. BInv => EverySpIsFound
  <2> SUFFICES ASSUME BInv, step = "done", NEW s \in (atStart \cap InTable) \ raced
               PROVE  \/ table[s].key = table[s].entity
                      \/ s \in reported
                      \/ ~mongo /\ shrunk
    BY DEF EverySpIsFound
  <2>1. DoneWith(s)
    BY DEF BInv, Reached, Ahead
  <2> QED
    BY <2>1 DEF DoneWith, BInv, KeysOK
<1> QED
  BY BackfillInitInv, BackfillStep, <1>1, PTL DEF BackfillSpec

-----------------------------------------------------------------------------
(* Tenants, delegation, the backfill and the first key keep their types together.     *)
THEOREM TypeCorrect == Spec => []TypeOK
<1> DEFINE Inv == part \in Parts /\ TypesOK /\ KInv /\ DelInv /\ BInv /\ KeepsInv
<1>1. Init => Inv
  BY TypesInit, KeysInit, DelInvInit, BackfillInitInv, FirstKeyInit DEF Init
<1>2. Inv /\ [Next]_vars => Inv'
  <2> SUFFICES ASSUME Inv, [Next]_vars PROVE Inv'
    OBVIOUS
  <2>1. part' = part
    BY DEF Next, vars
  <2>2. [TenantsNext]_tenantsVars /\ [DelNext]_delVars /\ [BackfillNext]_backfillVars /\ [FirstNext]_firstVars
    BY DEF Next, vars
  <2>3. TypesOK' /\ KInv'
    BY <2>2, TenantsStep
  <2>4. DelInv' /\ BInv' /\ KeepsInv'
    BY <2>2, DelStep, BackfillStep, KeepsStep
  <2> QED
    BY <2>1, <2>3, <2>4
<1>3. Inv => TypeOK
  BY DEF TypesOK, DelInv, BInv, KeepsInv, TypeOK
<1> QED
  BY <1>1, <1>2, <1>3, PTL DEF Spec
=============================================================================
