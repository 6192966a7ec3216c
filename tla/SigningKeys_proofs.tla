------------------------- MODULE SigningKeys_proofs -------------------------
(***************************************************************************)
(* The theorems about an owner's keys, for any number of rows, concurrent  *)
(* calls and isolates, and every cache, publication and waiting time.      *)
(*                                                                         *)
(* 1. Rows are ordered by their INSERT. The latest is the one published    *)
(*    last as a next key (before there is one, the owner's first key).     *)
(*    Only a newer next key lets a call demote or retire a row, so the     *)
(*    latest is never demoted, retired or erased, however old the rows are *)
(*    that a call works on: it is next or active, and brings the owner     *)
(*    back.                                                                *)
(* 2. Steps are sorted by what they do to rows and calls (Kinds); a copy   *)
(*    of the rows is in use until a cache time and a lag after its read.   *)
(* 3. Whose the rows are that become active, and what evidence of an own   *)
(*    key pruning leaves: the shared key expires.                          *)
(* 4. When nobody forces or hurries, the activations under way are of one  *)
(*    row, and no call undoes what another has done: rows only move on.    *)
(* 5. Then what an isolate signs with, by a copy however old, is still     *)
(*    published by all others: a row that gave way is kept for as long as  *)
(*    a copy that relies on it is in use.                                  *)
(***************************************************************************)
EXTENDS SigningKeys, FiniteSetTheorems, WellFoundedInduction, TLAPS

Rotated == {k \in Ids : rows[k].origin = "rotated"}
Created == {k \in Ids : rows[k].origin = "created"}

(* The latest of the owner's own rows. *)
Latest(k) ==
  \/ k \in Rotated /\ \A m \in Rotated : m <= k
  \/ Rotated = {} /\ k \in Created /\ \A m \in Created : m <= k

NoneIsNoRow == \A k \in Ids : rows[k].state = "none" => rows[k].origin = "shared"
SomeLatest == Rotated \cup Created # {} => \E k \in Ids : Latest(k)
LatestUsable == \A k \in Ids : Latest(k) => rows[k].state \in {"next", "active"} /\ rows[k].key
NextIsLatest == \A k \in Ids : rows[k].state = "next" => k \in Rotated /\ Latest(k)

(* What a call is going to demote or retire is a row, and not the latest. *)
Doomed(c) == call[c].old \cup ({call[c].active} \ {None})
DoomedBehind == \A c \in Calls : \A k \in Doomed(c) : rows[k].state # "none" /\ ~Latest(k)

IInv ==
  TypeOK /\ NoneIsNoRow /\ SomeLatest /\ LatestUsable /\ NextIsLatest /\ DoomedBehind

-----------------------------------------------------------------------------
LEMMA IdleType == Idle \in Call /\ WellFormed(Idle)
  BY DEF Idle, Call, Steps, Homes, WellFormed

LEMMA TypeInit == Init => TypeOK
<1> SUFFICES ASSUME Init PROVE TypeOK
  OBVIOUS
<1>1. NoRow \in Row /\ FirstRow \in Row
  BY DEF NoRow, FirstRow, Row, States, Origins
<1>2. rows \in View
  BY <1>1 DEF Init, View
<1>3. /\ call \in [Calls -> Call]
      /\ \A c \in Calls : WellFormed(call[c])
  BY IdleType DEF Init
<1> QED
  BY <1>2, <1>3 DEF Init, TypeOK

(* What the helpers of the actions give, in a well-typed state. *)
LEMMA InsertType ==
  ASSUME TypeOK, NEW k \in Ids, NEW state \in States, NEW origin \in Origins,
         Insert(k, state, origin)
  PROVE  rows' \in View
<1>1. [state |-> state, origin |-> origin, key |-> origin # "shared"] \in Row
  BY DEF Row
<1> QED
  BY <1>1 DEF Insert, TypeOK, View

LEMMA MoveType ==
  ASSUME TypeOK, NEW k \in Ids, NEW state \in States, Move(k, state)
  PROVE  rows' \in View
<1>1. rows[k] \in Row
  BY DEF TypeOK, View
<1>2. [rows[k] EXCEPT !.state = IF @ = "deleted" THEN @ ELSE state] \in Row
  BY <1>1 DEF Row
<1> QED
  BY <1>2 DEF Move, TypeOK, View

LEMMA EraseType ==
  ASSUME TypeOK, NEW k \in Ids, Erase(k)
  PROVE  rows' \in View
<1>1. rows[k] \in Row
  BY DEF TypeOK, View
<1> QED
  BY <1>1 DEF Erase, TypeOK, View, Row, States

LEMMA BeginType ==
  ASSUME TypeOK, NEW c \in Calls, NEW i \in Homes, NEW pc \in Steps,
         NEW next \in Ids \cup {None}, NEW active \in Ids \cup {None}, NEW old \in SUBSET Ids,
         pc \in {"addShared", "promote"} => next # None,
         active # None => pc = "retire" /\ next # None,
         Begin(c, i, pc, next, active, old)
  PROVE  /\ call' \in [Calls -> Call]
         /\ \A d \in Calls : WellFormed(call'[d])
<1> DEFINE j == [pc |-> pc, home |-> i, at |-> now, next |-> next, active |-> active, old |-> old]
<1>1. j \in Call
  BY DEF TypeOK, Call
<1>2. call' = [call EXCEPT ![c] = j]
  BY DEF Begin
<1>3. WellFormed(j)
  BY DEF WellFormed
<1> HIDE DEF j
<1> QED
  BY <1>1, <1>2, <1>3 DEF TypeOK

LEMMA ReturnType ==
  ASSUME TypeOK, NEW c \in Calls, Return(c)
  PROVE  /\ call' \in [Calls -> Call]
         /\ \A d \in Calls : WellFormed(call'[d])
  BY IdleType DEF Return, TypeOK

LEMMA InvalidateType ==
  ASSUME TypeOK, NEW c \in Calls, Invalidate(c)
  PROVE  cache' \in [Isolates -> [view : View, until : Nat] \cup {None}]
  BY DEF Invalidate, TypeOK

LEMMA TypeStep == TypeOK /\ [Next]_vars => TypeOK'
<1> SUFFICES ASSUME TypeOK, [Next]_vars PROVE TypeOK'
  OBVIOUS
<1>1. CASE UNCHANGED vars
  BY <1>1 DEF vars, db, history, TypeOK
<1>2. ASSUME NEW c \in Calls, NEW i \in Homes, CreateTenant(c, i) PROVE TypeOK'
  <2>1. call' \in [Calls -> Call] /\ \A d \in Calls : WellFormed(call'[d])
    BY <1>2, BeginType DEF CreateTenant, Steps
  <2> QED
    BY <1>2, <2>1 DEF CreateTenant, history, TypeOK
<1>3. ASSUME NEW c \in Calls, NEW i \in Homes, Rotate(c, i) PROVE TypeOK'
  <2>1. call' \in [Calls -> Call] /\ \A d \in Calls : WellFormed(call'[d])
    BY <1>3, BeginType DEF Rotate, Steps
  <2>2. hasty' \in BOOLEAN
    BY <1>3 DEF Rotate, TypeOK
  <2> QED
    BY <1>3, <2>1, <2>2 DEF Rotate, db, TypeOK
<1>4. ASSUME NEW c \in Calls, NEW i \in Homes, Activate(c, i) PROVE TypeOK'
  <2>1. In(rows, "previous") \in SUBSET Ids
    BY DEF In
  <2>2. /\ call' \in [Calls -> Call]
        /\ \A d \in Calls : WellFormed(call'[d])
    <3>1. PICK n \in In(rows, "next") :
            \/ \E a \in In(rows, "active") : Begin(c, i, "retire", n, a, In(rows, "previous"))
            \/ Begin(c, i, IF In(rows, "previous") # {} THEN "promote" ELSE "addShared", n, None,
                     In(rows, "previous"))
      BY <1>4 DEF Activate
    <3>2. n \in Ids /\ n # None
      BY ConstantsAssumption DEF In, Ids, ConstantsAssumption
    <3>3. ASSUME NEW a \in In(rows, "active"),
                 Begin(c, i, "retire", n, a, In(rows, "previous"))
          PROVE  <2>2!1 /\ <2>2!2
      <4>1. a \in Ids
        BY DEF In
      <4> QED
        BY <2>1, <3>2, <3>3, <4>1, BeginType DEF Steps
    <3>4. CASE Begin(c, i, IF In(rows, "previous") # {} THEN "promote" ELSE "addShared", n, None,
                     In(rows, "previous"))
      BY <2>1, <3>2, <3>4, BeginType DEF Steps
    <3> QED
      BY <3>1, <3>3, <3>4
  <2>3. hasty' \in BOOLEAN
    BY <1>4 DEF Activate, TypeOK
  <2> QED
    BY <1>4, <2>2, <2>3 DEF Activate, db, TypeOK
<1>5. ASSUME NEW c \in Calls, NEW i \in Homes, Retire(c, i) PROVE TypeOK'
  <2>1. In(rows, "previous") \in SUBSET Ids
    BY DEF In
  <2>2. hasty' \in BOOLEAN
    BY <1>5 DEF Retire, TypeOK
  <2> QED
    BY <1>5, <2>1, <2>2, BeginType DEF Retire, Steps, db, TypeOK
<1>6. ASSUME NEW c \in Calls, WriteKey(c) PROVE TypeOK'
  <2>1. rows' \in View /\ cache' \in [Isolates -> [view : View, until : Nat] \cup {None}]
    BY <1>6, InsertType, InvalidateType DEF WriteKey, States, Origins, TypeOK
  <2> QED
    BY <1>6, <2>1, ReturnType DEF WriteKey, TypeOK
<1>7. ASSUME NEW c \in Calls, InsertNext(c) PROVE TypeOK'
  <2>1. rows' \in View /\ cache' \in [Isolates -> [view : View, until : Nat] \cup {None}]
    BY <1>7, InsertType, InvalidateType DEF InsertNext, States, Origins, TypeOK
  <2>2. nextFrom' \in Nat
    BY <1>7 DEF InsertNext, TypeOK, Call
  <2> QED
    BY <1>7, <2>1, <2>2, ReturnType DEF InsertNext, history, TypeOK
<1>8. ASSUME NEW c \in Calls, RetireOld(c) PROVE TypeOK'
  <2>1. PICK k \in call[c].old : Erase(k) /\ call' = [call EXCEPT ![c].old = @ \ {k}]
    BY <1>8 DEF RetireOld
  <2>2. k \in Ids
    BY DEF TypeOK, Call
  <2>3. rows' \in View
    BY <2>1, <2>2, EraseType
  <2>4. call' \in [Calls -> Call] /\ \A d \in Calls : WellFormed(call'[d])
    BY <2>1 DEF TypeOK, Call, WellFormed
  <2> QED
    BY <1>8, <2>1, <2>3, <2>4 DEF RetireOld, history, TypeOK
<1>9. ASSUME NEW c \in Calls, Demote(c) PROVE TypeOK'
  <2>1. call[c].active \in Ids
    BY <1>9 DEF Demote, TypeOK, Call
  <2>2. rows' \in View
    BY <1>9, <2>1, MoveType DEF Demote, States
  <2> DEFINE j == [call[c] EXCEPT !.pc = "promote", !.active = None]
  <2>3. j \in Call /\ WellFormed(j)
    BY <1>9 DEF Demote, TypeOK, Call, Steps, WellFormed
  <2>4. call' = [call EXCEPT ![c] = j]
    BY <1>9 DEF Demote
  <2> HIDE DEF j
  <2>5. call' \in [Calls -> Call] /\ \A d \in Calls : WellFormed(call'[d])
    BY <2>3, <2>4 DEF TypeOK
  <2> QED
    BY <1>9, <2>2, <2>5 DEF Demote, TypeOK
<1>10. ASSUME NEW c \in Calls, AddShared(c) PROVE TypeOK'
  <2>1. rows' \in View
    BY <1>10, InsertType DEF AddShared, States, Origins
  <2>2. call' \in [Calls -> Call] /\ \A d \in Calls : WellFormed(call'[d])
    BY <1>10 DEF AddShared, Goto, At, TypeOK, Call, Steps, WellFormed
  <2> QED
    BY <1>10, <2>1, <2>2 DEF AddShared, history, TypeOK
<1>11. ASSUME NEW c \in Calls, Promote(c) PROVE TypeOK'
  <2>1. call[c].next \in Ids
    BY <1>11 DEF Promote, At, TypeOK, Call, WellFormed
  <2>2. CASE ~SlotFree(call[c].next, "active")
    BY <1>11, <2>2, ReturnType DEF Promote, TypeOK
  <2>3. CASE SlotFree(call[c].next, "active")
    <3>1. rows' \in View
      BY <1>11, <2>1, <2>3, MoveType DEF Promote, States
    <3>2. call' = [call EXCEPT ![c] = [@ EXCEPT !.pc = "prune", !.next = None, !.old = {}]]
      BY <1>11, <2>3 DEF Promote
    <3> DEFINE j == [call[c] EXCEPT !.pc = "prune", !.next = None, !.old = {}]
    <3>3. j \in Call /\ WellFormed(j)
      BY <1>11 DEF Promote, At, TypeOK, Call, Steps, WellFormed
    <3>4. call' = [call EXCEPT ![c] = j]
      BY <3>2
    <3> HIDE DEF j
    <3>5. call' \in [Calls -> Call] /\ \A d \in Calls : WellFormed(call'[d])
      BY <3>3, <3>4 DEF TypeOK
    <3> QED
      BY <1>11, <2>3, <3>1, <3>5 DEF Promote, TypeOK
  <2> QED
    BY <2>2, <2>3
<1>12. ASSUME NEW c \in Calls, Prune(c) PROVE TypeOK'
  <2>1. rows' \in View
    BY <1>12 DEF Prune, TypeOK, View, Row
  <2> QED
    BY <1>12, <2>1, InvalidateType, ReturnType DEF Prune, history, TypeOK
<1>13. ASSUME NEW c \in Calls, Crash(c) PROVE TypeOK'
  BY <1>13, ReturnType DEF Crash, db, history, TypeOK
<1>14. ASSUME NEW i \in Isolates, Load(i) PROVE TypeOK'
  BY <1>14 DEF Load, db, history, TypeOK
<1>15. ASSUME NEW i \in Isolates, Store(i) PROVE TypeOK'
  <2>1. loading[i].view \in View
    BY <1>15 DEF Store, TypeOK
  <2>2. now + CacheTime \in Nat
    BY ConstantsAssumption DEF ConstantsAssumption, TypeOK
  <2> QED
    BY <1>15, <2>1, <2>2 DEF Store, db, history, TypeOK
<1>16. ASSUME NEW i \in Isolates, Evict(i) PROVE TypeOK'
  BY <1>16 DEF Evict, db, history, TypeOK
<1>17. CASE Tick
  BY <1>17 DEF Tick, db, history, TypeOK
<1>18. ASSUME NEW c \in Calls, NEW i \in Homes, RotateRoot(c, i) PROVE TypeOK'
  BY <1>18, BeginType DEF RotateRoot, Steps, db, history, TypeOK
<1>19. ASSUME NEW c \in Calls, NEW i \in Homes, ActivateRoot(c, i) PROVE TypeOK'
  <2>1. In(rows, "previous") \in SUBSET Ids /\ {} \in SUBSET Ids
    BY DEF In
  <2>2. PICK n \in In(rows, "next") :
          \/ \E a \in In(rows, "active") : Begin(c, i, "retire", n, a, In(rows, "previous"))
          \/ Begin(c, i, "promote", n, None, {})
    BY <1>19 DEF ActivateRoot
  <2>3. n \in Ids /\ n # None /\ \A a \in In(rows, "active") : a \in Ids
    BY ConstantsAssumption DEF In, Ids, ConstantsAssumption
  <2>4. call' \in [Calls -> Call] /\ \A d \in Calls : WellFormed(call'[d])
    BY <2>1, <2>2, <2>3, BeginType DEF Steps
  <2> QED
    BY <1>19, <2>4 DEF ActivateRoot, db, TypeOK
<1>20. ASSUME NEW c \in Calls, NEW i \in Homes, RetireRoot(c, i) PROVE TypeOK'
  <2>1. In(rows, "previous") \in SUBSET Ids
    BY DEF In
  <2> QED
    BY <1>20, <2>1, BeginType DEF RetireRoot, Steps, db, TypeOK
<1> QED
  BY <1>1, <1>2, <1>3, <1>4, <1>5, <1>6, <1>7, <1>8, <1>9, <1>10, <1>11, <1>12, <1>13, <1>14,
     <1>15, <1>16, <1>17, <1>18, <1>19, <1>20 DEF Next

(* Every variable of the keys keeps its type. *)
THEOREM TypeCorrect == Spec => []TypeOK
  BY TypeInit, TypeStep, PTL DEF Spec

-----------------------------------------------------------------------------
LEMMA IInvInit == Init => IInv
<1> SUFFICES ASSUME Init PROVE IInv
  OBVIOUS
<1>1. TypeOK
  BY TypeInit
<1>2. \A k \in Ids : rows[k] = IF owner = "root" /\ k = 1 THEN FirstRow ELSE NoRow
  BY DEF Init
<1>3. /\ Rotated = {} /\ Created \subseteq {1}
      /\ \A k \in Ids : rows[k].state # "next" /\ (rows[k].state = "none" => k \notin Created)
      /\ \A k \in Created : rows[k].state = "active" /\ rows[k].key
  BY <1>2 DEF Rotated, Created, FirstRow, NoRow
<1>4. \A c \in Calls : Doomed(c) = {}
  BY DEF Init, Idle, Doomed
<1>5. NoneIsNoRow
  BY <1>2 DEF NoneIsNoRow, FirstRow, NoRow
<1>6. SomeLatest /\ LatestUsable
  BY <1>3 DEF SomeLatest, LatestUsable, Latest, Created
<1> QED
  BY <1>1, <1>3, <1>4, <1>5, <1>6 DEF IInv, NextIsLatest, DoomedBehind

(* There is one latest row. *)
LEMMA LatestUnique ==
  ASSUME NEW k \in Ids, NEW m \in Ids, Latest(k), Latest(m)
  PROVE  k = m
  BY ConstantsAssumption DEF ConstantsAssumption, Latest, Rotated, Created, Ids

(* A step that makes no row, and leaves the latest usable. *)
LEMMA RowsKept ==
  ASSUME IInv,
         \A k \in Ids : rows'[k].origin = rows[k].origin,
         \A k \in Ids : rows'[k].state = "none" => rows[k].state = "none",
         \A k \in Ids : rows'[k].state = "next" => rows[k].state = "next",
         \A k \in Ids : Latest(k) => rows'[k].state \in {"next", "active"} /\ rows'[k].key
  PROVE  /\ NoneIsNoRow' /\ SomeLatest' /\ LatestUsable' /\ NextIsLatest'
         /\ \A k \in Ids : Latest(k)' <=> Latest(k)
<1>1. Rotated' = Rotated /\ Created' = Created
  BY DEF Rotated, Created
<1>2. \A k \in Ids : Latest(k)' <=> Latest(k)
  BY <1>1 DEF Latest
<1> QED
  BY <1>1, <1>2 DEF IInv, NoneIsNoRow, SomeLatest, LatestUsable, NextIsLatest

(* The same, when no call has more to demote or to retire than before. *)
LEMMA Kept ==
  ASSUME IInv, TypeOK',
         \A k \in Ids : rows'[k].origin = rows[k].origin,
         \A k \in Ids : rows'[k].state = "none" => rows[k].state = "none",
         \A k \in Ids : rows'[k].state = "next" => rows[k].state = "next",
         \A k \in Ids : Latest(k) => rows'[k].state \in {"next", "active"} /\ rows'[k].key,
         \A c \in Calls : Doomed(c)' \subseteq Doomed(c)
  PROVE  IInv'
<1>1. /\ NoneIsNoRow' /\ SomeLatest' /\ LatestUsable' /\ NextIsLatest'
      /\ \A k \in Ids : Latest(k)' <=> Latest(k)
  BY RowsKept
<1>2. \A c \in Calls : Doomed(c) \subseteq Ids
  BY DEF IInv, TypeOK, Call, Doomed
<1>3. DoomedBehind'
  BY <1>1, <1>2 DEF IInv, DoomedBehind
<1> QED
  BY <1>1, <1>3 DEF IInv

(* A new next key is the latest; a first key is, if none was rotated in before. *)
LEMMA Inserted ==
  ASSUME IInv, TypeOK', NEW k \in Ids,
         \/ Insert(k, "next", "rotated")
         \/ Insert(k, "active", "created")
         \/ Insert(k, "previous", "shared"),
         \A c \in Calls : Doomed(c)' \subseteq Doomed(c)
  PROVE  IInv'
<1> USE ConstantsAssumption DEF ConstantsAssumption, Ids
<1>1. /\ rows \in View
      /\ rows[k].state = "none" /\ k \notin Rotated \cup Created
      /\ \A m \in Ids : rows[m].state # "none" => m < k
  BY DEF IInv, TypeOK, Insert, In, NoneIsNoRow, Rotated, Created
<1>2. \A m \in Rotated \cup Created : m < k
  BY <1>1 DEF IInv, NoneIsNoRow, Rotated, Created
<1>3. \A m \in Ids \ {k} : rows'[m] = rows[m]
  BY <1>1 DEF Insert, View
<1>4. \A c \in Calls : k \notin Doomed(c) /\ Doomed(c) \subseteq Ids
  BY <1>1 DEF IInv, TypeOK, Call, Doomed, DoomedBehind
<1>5. CASE Insert(k, "next", "rotated")
  <2>1. rows'[k].state = "next" /\ rows'[k].origin = "rotated" /\ rows'[k].key
    BY <1>1, <1>5 DEF Insert, View
  <2>2. Rotated' = Rotated \cup {k}
    BY <1>3, <2>1 DEF Rotated
  <2>3. Latest(k)' /\ \A m \in Ids \ {k} : ~Latest(m)'
    BY <1>2, <2>2 DEF Latest, Rotated
  <2>4. \A m \in Ids \ {k} : rows'[m].state # "next"
    BY <1>3, <1>5, <1>1 DEF Insert, SlotFree, In
  <2> QED
    BY <1>1, <1>3, <1>4, <2>1, <2>2, <2>3, <2>4
    DEF IInv, NoneIsNoRow, SomeLatest, LatestUsable, NextIsLatest, DoomedBehind
<1>6. CASE Insert(k, "active", "created")
  <2>1. rows'[k].state = "active" /\ rows'[k].origin = "created" /\ rows'[k].key
    BY <1>1, <1>6 DEF Insert, View
  <2>2. Rotated' = Rotated /\ Created' = Created \cup {k}
    BY <1>1, <1>3, <2>1 DEF Rotated, Created
  <2>3. CASE Rotated # {}
    <3>1. \A m \in Ids : Latest(m)' <=> Latest(m)
      BY <2>2, <2>3 DEF Latest
    <3>2. ~Latest(k)
      BY <1>1, <2>3 DEF Latest
    <3>3. SomeLatest'
      BY <2>2, <2>3, <3>1 DEF IInv, SomeLatest
    <3>4. NoneIsNoRow' /\ LatestUsable' /\ NextIsLatest'
      BY <1>3, <2>1, <2>2, <3>1, <3>2 DEF IInv, NoneIsNoRow, LatestUsable, NextIsLatest
    <3>5. DoomedBehind'
      BY <1>3, <1>4, <3>1 DEF IInv, DoomedBehind
    <3> QED
      BY <3>3, <3>4, <3>5 DEF IInv
  <2>4. CASE Rotated = {}
    <3>1. Latest(k)' /\ \A m \in Ids \ {k} : ~Latest(m)'
      BY <1>2, <2>2, <2>4 DEF Latest, Created
    <3>2. \A m \in Ids : rows'[m].state # "next"
      BY <1>3, <2>1, <2>4 DEF IInv, NextIsLatest
    <3>3. NoneIsNoRow' /\ SomeLatest' /\ LatestUsable'
      BY <1>1, <1>3, <2>1, <3>1 DEF IInv, NoneIsNoRow, SomeLatest, LatestUsable
    <3>4. NextIsLatest'
      BY <3>2 DEF NextIsLatest
    <3>5. DoomedBehind'
      BY <1>3, <1>4, <3>1 DEF IInv, DoomedBehind
    <3> QED
      BY <3>3, <3>4, <3>5 DEF IInv
  <2> QED
    BY <2>3, <2>4
<1>7. CASE Insert(k, "previous", "shared")
  <2>1. rows'[k].state = "previous" /\ rows'[k].origin = "shared"
    BY <1>1, <1>7 DEF Insert, View
  <2>2. Rotated' = Rotated /\ Created' = Created
    BY <1>1, <1>3, <2>1 DEF Rotated, Created
  <2>3. \A m \in Ids : Latest(m)' <=> Latest(m)
    BY <2>2 DEF Latest
  <2>4. ~Latest(k)
    BY <1>1 DEF Latest
  <2> QED
    BY <1>1, <1>3, <1>4, <2>1, <2>2, <2>3, <2>4
    DEF IInv, NoneIsNoRow, SomeLatest, LatestUsable, NextIsLatest, DoomedBehind
<1> QED
  BY <1>5, <1>6, <1>7

(* A call that begins: what it read is a row, and not the latest. *)
LEMMA Begun ==
  ASSUME IInv, TypeOK', rows' = rows, NEW c \in Calls, NEW i, NEW pc, NEW next,
         NEW active \in Ids \cup {None}, NEW old \in SUBSET Ids,
         Begin(c, i, pc, next, active, old),
         \A k \in old \cup ({active} \ {None}) : rows[k].state # "none" /\ ~Latest(k)
  PROVE  IInv'
<1>1. /\ NoneIsNoRow' /\ SomeLatest' /\ LatestUsable' /\ NextIsLatest'
      /\ \A k \in Ids : Latest(k)' <=> Latest(k)
  BY RowsKept DEF IInv, LatestUsable
<1>2. Doomed(c)' = old \cup ({active} \ {None})
  BY DEF Begin, Doomed, IInv, TypeOK
<1>3. \A d \in Calls \ {c} : Doomed(d)' = Doomed(d)
  BY DEF Begin, Doomed, IInv, TypeOK
<1>4. \A d \in Calls : Doomed(d) \subseteq Ids
  BY DEF IInv, TypeOK, Call, Doomed
<1>5. DoomedBehind'
  BY <1>1, <1>2, <1>3, <1>4 DEF IInv, DoomedBehind
<1> QED
  BY <1>1, <1>5 DEF IInv

(* Of the rows that are active next to a next key, and of the previous ones, none is the latest. *)
LEMMA ReadBehind ==
  ASSUME IInv
  PROVE  /\ \A k \in In(rows, "previous") : rows[k].state # "none" /\ ~Latest(k)
         /\ \A n \in In(rows, "next"), a \in In(rows, "active") :
              rows[a].state # "none" /\ ~Latest(a)
<1>1. \A k \in In(rows, "previous") : rows[k].state # "none" /\ ~Latest(k)
  BY DEF IInv, In, LatestUsable
<1>2. ASSUME NEW n \in In(rows, "next"), NEW a \in In(rows, "active")
      PROVE  rows[a].state # "none" /\ ~Latest(a)
  <2>1. n \in Ids /\ a \in Ids /\ n # a /\ Latest(n)
    BY DEF IInv, In, NextIsLatest
  <2> QED
    BY <2>1, LatestUnique DEF In
<1> QED
  BY <1>1, <1>2

LEMMA IInvStep == IInv /\ [Next]_vars => IInv'
<1> SUFFICES ASSUME IInv, [Next]_vars PROVE IInv'
  OBVIOUS
<1>0. TypeOK /\ TypeOK'
  BY TypeStep DEF IInv
<1>a. \A k \in Ids : Latest(k) => rows[k].state \in {"next", "active"} /\ rows[k].key
  BY DEF IInv, LatestUsable
<1>r. ASSUME NEW c \in Calls, Return(c)
      PROVE  \A d \in Calls : Doomed(d)' \subseteq Doomed(d)
  BY <1>0, <1>r DEF Return, Idle, Doomed, TypeOK
<1>s. ASSUME rows' = rows, \A d \in Calls : Doomed(d)' \subseteq Doomed(d) PROVE IInv'
  BY <1>0, <1>a, <1>s, Kept
<1>t. ASSUME UNCHANGED <<rows, call>> PROVE IInv'
  BY <1>s, <1>t DEF Doomed
<1>1. CASE UNCHANGED vars
  BY <1>1, <1>t DEF vars, db
<1>2. ASSUME NEW c \in Calls, NEW i \in Homes, CreateTenant(c, i) PROVE IInv'
  BY <1>0, <1>2, Begun DEF CreateTenant
<1>3. ASSUME NEW c \in Calls, NEW i \in Homes, Rotate(c, i) PROVE IInv'
  BY <1>0, <1>3, Begun DEF Rotate, db
<1>4. ASSUME NEW c \in Calls, NEW i \in Homes, Activate(c, i) PROVE IInv'
  <2>1. PICK n \in In(rows, "next") :
          \/ \E a \in In(rows, "active") : Begin(c, i, "retire", n, a, In(rows, "previous"))
          \/ Begin(c, i, IF In(rows, "previous") # {} THEN "promote" ELSE "addShared", n, None,
                   In(rows, "previous"))
    BY <1>4 DEF Activate
  <2>2. rows' = rows /\ In(rows, "previous") \in SUBSET Ids
    BY <1>4 DEF Activate, db, In
  <2>3. ASSUME NEW a \in In(rows, "active"), Begin(c, i, "retire", n, a, In(rows, "previous"))
        PROVE  IInv'
    <3>1. a \in Ids
      BY DEF In
    <3>2. \A k \in In(rows, "previous") \cup ({a} \ {None}) : rows[k].state # "none" /\ ~Latest(k)
      BY <2>1, ReadBehind
    <3> QED
      BY <1>0, <2>2, <2>3, <3>1, <3>2, Begun
  <2>4. CASE Begin(c, i, IF In(rows, "previous") # {} THEN "promote" ELSE "addShared", n, None,
                   In(rows, "previous"))
    <3>1. \A k \in In(rows, "previous") \cup ({None} \ {None}) :
            rows[k].state # "none" /\ ~Latest(k)
      BY ReadBehind
    <3> QED
      BY <1>0, <2>2, <2>4, <3>1, Begun
  <2> QED
    BY <2>1, <2>3, <2>4
<1>5. ASSUME NEW c \in Calls, NEW i \in Homes, Retire(c, i) PROVE IInv'
  <2>1. \A k \in In(rows, "previous") \cup ({None} \ {None}) :
          rows[k].state # "none" /\ ~Latest(k)
    BY ReadBehind
  <2>2. rows' = rows /\ In(rows, "previous") \in SUBSET Ids
    BY <1>5 DEF Retire, db, In
  <2> QED
    BY <1>0, <1>5, <2>1, <2>2, Begun DEF Retire
<1>6. ASSUME NEW c \in Calls, WriteKey(c) PROVE IInv'
  BY <1>0, <1>6, <1>r, <1>s, Inserted DEF WriteKey
<1>7. ASSUME NEW c \in Calls, InsertNext(c) PROVE IInv'
  BY <1>0, <1>7, <1>r, <1>s, Inserted DEF InsertNext
<1>8. ASSUME NEW c \in Calls, RetireOld(c) PROVE IInv'
  <2>1. PICK k \in call[c].old : Erase(k) /\ call' = [call EXCEPT ![c].old = @ \ {k}]
    BY <1>8 DEF RetireOld
  <2>2. k \in Ids /\ rows[k].state # "none" /\ ~Latest(k)
    BY <1>0, <2>1 DEF IInv, TypeOK, Call, DoomedBehind, Doomed
  <2>3. \A d \in Calls : Doomed(d)' \subseteq Doomed(d)
    BY <1>0, <2>1 DEF Doomed, TypeOK, Call
  <2>4. /\ rows'[k].origin = rows[k].origin /\ rows'[k].state \in {"deleted", "retired"}
        /\ \A m \in Ids \ {k} : rows'[m] = rows[m]
    BY <1>0, <2>1, <2>2 DEF Erase, TypeOK, View, Row
  <2> QED
    BY <1>0, <1>a, <2>2, <2>3, <2>4, Kept
<1>9. ASSUME NEW c \in Calls, Demote(c) PROVE IInv'
  <2> DEFINE k == call[c].active
  <2>1. k \in Ids /\ rows[k].state # "none" /\ ~Latest(k)
    BY <1>0, <1>9 DEF Demote, IInv, TypeOK, Call, DoomedBehind, Doomed
  <2>2. Move(k, "previous") /\ call' = [call EXCEPT ![c].pc = "promote", ![c].active = None]
    BY <1>9 DEF Demote
  <2>3. \A d \in Calls : Doomed(d)' \subseteq Doomed(d)
    BY <1>0, <2>2 DEF Doomed, TypeOK, Call
  <2> HIDE DEF k
  <2>4. /\ rows'[k].origin = rows[k].origin /\ rows'[k].state \in {"deleted", "previous"}
        /\ \A m \in Ids \ {k} : rows'[m] = rows[m]
    BY <1>0, <2>1, <2>2 DEF Move, TypeOK, View, Row
  <2> QED
    BY <1>0, <1>a, <2>1, <2>3, <2>4, Kept
<1>10. ASSUME NEW c \in Calls, AddShared(c) PROVE IInv'
  <2>1. \A d \in Calls : Doomed(d)' \subseteq Doomed(d)
    BY <1>0, <1>10 DEF AddShared, Goto, Doomed, TypeOK, Call
  <2> QED
    BY <1>0, <1>10, <2>1, Inserted DEF AddShared
<1>11. ASSUME NEW c \in Calls, Promote(c) PROVE IInv'
  <2> DEFINE k == call[c].next
  <2>1. CASE ~SlotFree(k, "active")
    BY <1>11, <1>r, <1>s, <2>1 DEF Promote
  <2>2. CASE SlotFree(k, "active")
    <3>1. k \in Ids
      BY <1>0, <1>11 DEF Promote, At, TypeOK, Call, WellFormed
    <3>2. /\ Move(k, "active")
          /\ call' = [call EXCEPT ![c] = [@ EXCEPT !.pc = "prune", !.next = None, !.old = {}]]
      BY <1>11, <2>2 DEF Promote
    <3>3. \A d \in Calls : Doomed(d)' \subseteq Doomed(d)
      BY <1>0, <3>2 DEF Doomed, TypeOK, Call
    <3> HIDE DEF k
    <3>4. /\ rows'[k].origin = rows[k].origin /\ rows'[k].key = rows[k].key
          /\ rows'[k].state = IF rows[k].state = "deleted" THEN "deleted" ELSE "active"
          /\ \A m \in Ids \ {k} : rows'[m] = rows[m]
      BY <1>0, <3>1, <3>2 DEF Move, TypeOK, View, Row
    <3> QED
      BY <1>0, <1>a, <3>1, <3>3, <3>4, Kept
  <2> QED
    BY <2>1, <2>2
<1>12. ASSUME NEW c \in Calls, Prune(c) PROVE IInv'
  <2>1. /\ \A k \in Ids : rows'[k].origin = rows[k].origin /\ rows'[k].key = rows[k].key
        /\ \A k \in Ids : rows'[k].state # rows[k].state =>
                             rows[k].state = "retired" /\ rows'[k].state = "deleted"
    BY <1>0, <1>12 DEF Prune, In, TypeOK, View, Row
  <2> QED
    BY <1>0, <1>12, <1>a, <1>r, <2>1, Kept DEF Prune
<1>13. ASSUME NEW c \in Calls, Crash(c) PROVE IInv'
  BY <1>13, <1>r, <1>s DEF Crash, db
<1>14. ASSUME NEW i \in Isolates, Load(i) PROVE IInv'
  BY <1>14, <1>t DEF Load, db
<1>15. ASSUME NEW i \in Isolates, Store(i) PROVE IInv'
  BY <1>15, <1>t DEF Store, db
<1>16. ASSUME NEW i \in Isolates, Evict(i) PROVE IInv'
  BY <1>16, <1>t DEF Evict, db
<1>17. CASE Tick
  BY <1>17, <1>t DEF Tick, db
<1>18. ASSUME NEW c \in Calls, NEW i \in Homes, RotateRoot(c, i) PROVE IInv'
  BY <1>0, <1>18, Begun DEF RotateRoot, db
<1>19. ASSUME NEW c \in Calls, NEW i \in Homes, ActivateRoot(c, i) PROVE IInv'
  <2>1. rows' = rows /\ In(rows, "previous") \in SUBSET Ids
    BY <1>19 DEF ActivateRoot, db, In
  <2>2. PICK n \in In(rows, "next") :
          \/ \E a \in In(rows, "active") : Begin(c, i, "retire", n, a, In(rows, "previous"))
          \/ Begin(c, i, "promote", n, None, {})
    BY <1>19 DEF ActivateRoot
  <2>3. ASSUME NEW a \in In(rows, "active"), Begin(c, i, "retire", n, a, In(rows, "previous"))
        PROVE  IInv'
    <3>1. a \in Ids
      BY DEF In
    <3>2. \A k \in In(rows, "previous") \cup ({a} \ {None}) : rows[k].state # "none" /\ ~Latest(k)
      BY ReadBehind
    <3> QED
      BY <1>0, <2>1, <2>3, <3>1, <3>2, Begun
  <2>4. CASE Begin(c, i, "promote", n, None, {})
    BY <1>0, <2>1, <2>4, Begun
  <2> QED
    BY <2>2, <2>3, <2>4
<1>20. ASSUME NEW c \in Calls, NEW i \in Homes, RetireRoot(c, i) PROVE IInv'
  <2>1. \A k \in In(rows, "previous") \cup ({None} \ {None}) :
          rows[k].state # "none" /\ ~Latest(k)
    BY ReadBehind
  <2>2. rows' = rows /\ In(rows, "previous") \in SUBSET Ids
    BY <1>20 DEF RetireRoot, db, In
  <2> QED
    BY <1>0, <1>20, <2>1, <2>2, Begun DEF RetireRoot
<1> QED
  BY <1>1, <1>2, <1>3, <1>4, <1>5, <1>6, <1>7, <1>8, <1>9, <1>10, <1>11, <1>12, <1>13, <1>14,
     <1>15, <1>16, <1>17, <1>18, <1>19, <1>20 DEF Next

(* An owner that has a key of its own has an active one, or a next one to activate, with  *)
(* its private key: the latest row is one.                                               *)
THEOREM AlwaysRecoverable == Spec => []Recoverable
<1>1. IInv => Recoverable
  BY DEF IInv, Recoverable, Own, Rotated, Created, SomeLatest, LatestUsable, TypeOK, View, Row,
         Origins
<1> QED
  BY <1>1, IInvInit, IInvStep, PTL DEF Spec

-----------------------------------------------------------------------------
(* What the helpers do to the rows and to the calls. *)
LEMMA InsertEffect ==
  ASSUME TypeOK, NEW k \in Ids, NEW state, NEW origin, Insert(k, state, origin)
  PROVE  /\ rows[k].state = "none" /\ SlotFree(k, state)
         /\ rows'[k].state = state /\ rows'[k].origin = origin
         /\ \A m \in Ids \ {k} : rows'[m] = rows[m]
<1>1. rows \in [Ids -> Row] /\ k \in In(rows, "none")
  BY ConstantsAssumption DEF ConstantsAssumption, TypeOK, View, Insert, Ids
<1> QED
  BY <1>1 DEF Insert, In

LEMMA MoveEffect ==
  ASSUME TypeOK, NEW k \in Ids, NEW state, Move(k, state)
  PROVE  /\ rows'[k].state = IF rows[k].state = "deleted" THEN "deleted" ELSE state
         /\ rows'[k].origin = rows[k].origin
         /\ \A m \in Ids \ {k} : rows'[m] = rows[m]
  BY DEF TypeOK, View, Row, Move

LEMMA EraseEffect ==
  ASSUME TypeOK, NEW k \in Ids, Erase(k)
  PROVE  /\ rows'[k].state = IF rows[k].state = "deleted" THEN "deleted" ELSE "retired"
         /\ rows'[k].origin = rows[k].origin
         /\ \A m \in Ids \ {k} : rows'[m] = rows[m]
  BY DEF TypeOK, View, Row, Erase

LEMMA PruneEffect ==
  ASSUME TypeOK, NEW c \in Calls, Prune(c)
  PROVE  \A k \in Ids :
           /\ rows'[k].origin = rows[k].origin
           /\ \/ rows'[k].state = rows[k].state
              \/ rows[k].state = "retired" /\ rows'[k].state = "deleted"
  BY DEF TypeOK, View, Row, Prune, In

LEMMA BeginEffect ==
  ASSUME TypeOK, NEW c \in Calls, NEW i, NEW pc, NEW next, NEW active, NEW old,
         Begin(c, i, pc, next, active, old)
  PROVE  /\ call'[c].pc = pc /\ call'[c].at = now /\ call'[c].next = next
         /\ call'[c].active = active /\ call'[c].old = old
         /\ \A d \in Calls \ {c} : call'[d] = call[d]
  BY DEF TypeOK, Begin

LEMMA ReturnEffect ==
  ASSUME TypeOK, NEW c \in Calls, Return(c)
  PROVE  call'[c] = Idle /\ \A d \in Calls \ {c} : call'[d] = call[d]
  BY DEF TypeOK, Return

LEMMA RetireOldEffect ==
  ASSUME TypeOK, NEW c \in Calls, NEW k \in call[c].old, call' = [call EXCEPT ![c].old = @ \ {k}]
  PROVE  /\ call'[c].pc = call[c].pc /\ call'[c].at = call[c].at /\ call'[c].next = call[c].next
         /\ call'[c].active = call[c].active /\ call'[c].old = call[c].old \ {k}
         /\ \A d \in Calls \ {c} : call'[d] = call[d]
  BY DEF TypeOK, Call

LEMMA DemoteEffect ==
  ASSUME TypeOK, NEW c \in Calls, Demote(c)
  PROVE  /\ call'[c].pc = "promote" /\ call'[c].at = call[c].at /\ call'[c].next = call[c].next
         /\ call'[c].active = None /\ call'[c].old = call[c].old
         /\ \A d \in Calls \ {c} : call'[d] = call[d]
  BY DEF TypeOK, Call, Demote

LEMMA AddSharedEffect ==
  ASSUME TypeOK, NEW c \in Calls, AddShared(c)
  PROVE  /\ call'[c].pc = "promote" /\ call'[c].at = call[c].at /\ call'[c].next = call[c].next
         /\ call'[c].active = call[c].active /\ call'[c].old = call[c].old
         /\ \A d \in Calls \ {c} : call'[d] = call[d]
  BY DEF TypeOK, Call, AddShared, Goto

LEMMA PromoteEffect ==
  ASSUME TypeOK, NEW c \in Calls, Promote(c), SlotFree(call[c].next, "active")
  PROVE  /\ call'[c].pc = "prune" /\ call'[c].at = call[c].at /\ call'[c].next = None
         /\ call'[c].active = call[c].active /\ call'[c].old = {}
         /\ \A d \in Calls \ {c} : call'[d] = call[d]
<1> DEFINE j == [call[c] EXCEPT !.pc = "prune", !.next = None, !.old = {}]
<1>1. call' = [call EXCEPT ![c] = j]
  BY DEF Promote
<1>2. /\ j.pc = "prune" /\ j.at = call[c].at /\ j.next = None
      /\ j.active = call[c].active /\ j.old = {}
  BY DEF TypeOK, Call
<1> HIDE DEF j
<1> QED
  BY <1>1, <1>2 DEF TypeOK

-----------------------------------------------------------------------------
(* How long a copy of the rows may be worked with after it was read. *)
Window == CacheTime + Lag

Activating(c) == call[c].next # None

(* No call and no load takes longer than it may, and no copy is used for longer. *)
Timely ==
  /\ switched <= now
  /\ \A c \in Calls : ~At(c, "idle") => call[c].at <= now /\ now <= call[c].at + Lag
  /\ \A i \in Isolates :
       /\ cache[i] # None => now < cache[i].until /\ cache[i].until <= now + CacheTime
       /\ loading[i] # None => loading[i].at <= now /\ now <= loading[i].at + Lag
Shaped ==
  \A c \in Calls :
    /\ At(c, "idle") => call[c] = Idle
    /\ Activating(c) => call[c].pc \in {"retire", "addShared", "promote"}
OneEach ==
  \A k, m \in Ids :
    rows[k].state = rows[m].state /\ rows[k].state \in {"next", "active"} => k = m

Paced == TypeOK /\ Timely /\ Shaped /\ OneEach

LEMMA PacedInit == Init => Paced
<1> SUFFICES ASSUME Init PROVE Paced
  OBVIOUS
<1>1. TypeOK
  BY TypeInit
<1>2. \A k \in Ids : rows[k] = IF owner = "root" /\ k = 1 THEN FirstRow ELSE NoRow
  BY DEF Init
<1>3. OneEach
  BY <1>2 DEF OneEach, FirstRow, NoRow
<1>4. Timely
  BY DEF Init, Timely, At, Idle
<1>5. Shaped
  BY DEF Init, Shaped, Activating, At, Idle
<1> QED
  BY <1>1, <1>3, <1>4, <1>5 DEF Paced

(* A call that begins, and a call that goes on or returns. *)
LEMMA BeginTimely ==
  ASSUME Paced, TypeOK', NEW c \in Calls, NEW i, NEW pc \in Steps, NEW next, NEW active, NEW old,
         Begin(c, i, pc, next, active, old), UNCHANGED <<now, cache, loading, switched>>
  PROVE  Timely'
<1>1. call'[c].at = now /\ \A d \in Calls \ {c} : call'[d] = call[d]
  BY BeginEffect DEF Paced
<1>2. now \in Nat /\ now <= now + Lag
  BY ConstantsAssumption DEF ConstantsAssumption, Paced, TypeOK
<1> QED
  BY <1>1, <1>2 DEF Paced, Timely, At

LEMMA GoOnTimely ==
  ASSUME Paced, TypeOK',
         \A c \in Calls : At(c, "idle")' \/ (~At(c, "idle") /\ call'[c].at = call[c].at),
         now' = now, loading' = loading, switched' \in {switched, now},
         \A i \in Isolates : cache'[i] \in {cache[i], None}
  PROVE  Timely'
<1>1. switched' <= now'
  BY DEF Paced, Timely, TypeOK
<1>2. \A c \in Calls : ~At(c, "idle")' => call'[c].at <= now' /\ now' <= call'[c].at + Lag
  BY DEF Paced, Timely
<1> QED
  BY <1>1, <1>2 DEF Paced, Timely, At

LEMMA InvalidateCache ==
  ASSUME TypeOK, NEW c \in Calls, Invalidate(c)
  PROVE  \A i \in Isolates : cache'[i] \in {cache[i], None}
  BY DEF TypeOK, Invalidate

LEMMA TimelyStep == Paced /\ [Next]_vars => Timely'
<1> SUFFICES ASSUME Paced, [Next]_vars PROVE Timely'
  OBVIOUS
<1>0. TypeOK /\ TypeOK'
  BY TypeStep DEF Paced
<1>r. ASSUME NEW c \in Calls, Return(c)
      PROVE  \A d \in Calls : At(d, "idle")' \/ (~At(d, "idle") /\ call'[d].at = call[d].at)
  BY <1>0, <1>r, ReturnEffect DEF At, Idle
<1>g. ASSUME NEW c \in Calls, ~At(c, "idle"), call'[c].at = call[c].at,
             \A d \in Calls \ {c} : call'[d] = call[d]
      PROVE  \A d \in Calls : At(d, "idle")' \/ (~At(d, "idle") /\ call'[d].at = call[d].at)
  BY <1>g DEF At
<1>i. ASSUME cache' = cache PROVE \A i \in Isolates : cache'[i] \in {cache[i], None}
  BY <1>i
<1>1. CASE UNCHANGED vars
  BY <1>1 DEF vars, db, history, Paced, Timely, At
<1>2. ASSUME NEW c \in Calls, NEW i \in Homes, CreateTenant(c, i) PROVE Timely'
  BY <1>0, <1>2, BeginTimely DEF CreateTenant, history, Steps
<1>3. ASSUME NEW c \in Calls, NEW i \in Homes, Rotate(c, i) \/ RotateRoot(c, i) PROVE Timely'
  BY <1>0, <1>3, BeginTimely DEF Rotate, RotateRoot, db, history, Steps
<1>4. ASSUME NEW c \in Calls, NEW i \in Homes, Activate(c, i) PROVE Timely'
  <2>1. PICK n \in In(rows, "next") :
          \/ \E a \in In(rows, "active") : Begin(c, i, "retire", n, a, In(rows, "previous"))
          \/ Begin(c, i, IF In(rows, "previous") # {} THEN "promote" ELSE "addShared", n, None,
                   In(rows, "previous"))
    BY <1>4 DEF Activate
  <2>2. UNCHANGED <<now, cache, loading, switched>>
    BY <1>4 DEF Activate
  <2> QED
    BY <1>0, <2>1, <2>2, BeginTimely DEF Steps
<1>5. ASSUME NEW c \in Calls, NEW i \in Homes, Retire(c, i) \/ RetireRoot(c, i) PROVE Timely'
  BY <1>0, <1>5, BeginTimely DEF Retire, RetireRoot, Steps
<1>6. ASSUME NEW c \in Calls, WriteKey(c) PROVE Timely'
  <2>1. \A d \in Calls : At(d, "idle")' \/ (~At(d, "idle") /\ call'[d].at = call[d].at)
    BY <1>6, <1>r DEF WriteKey
  <2>2. \A i \in Isolates : cache'[i] \in {cache[i], None}
    BY <1>0, <1>6, <1>i, InvalidateCache DEF WriteKey
  <2> QED
    BY <1>0, <1>6, <2>1, <2>2, GoOnTimely DEF WriteKey
<1>7. ASSUME NEW c \in Calls, InsertNext(c) PROVE Timely'
  <2>1. \A d \in Calls : At(d, "idle")' \/ (~At(d, "idle") /\ call'[d].at = call[d].at)
    BY <1>7, <1>r DEF InsertNext
  <2>2. \A i \in Isolates : cache'[i] \in {cache[i], None}
    BY <1>0, <1>7, <1>i, InvalidateCache DEF InsertNext
  <2> QED
    BY <1>0, <1>7, <2>1, <2>2, GoOnTimely DEF InsertNext, history
<1>8. ASSUME NEW c \in Calls, RetireOld(c) PROVE Timely'
  <2>1. PICK k \in call[c].old : call' = [call EXCEPT ![c].old = @ \ {k}]
    BY <1>8 DEF RetireOld
  <2>2. \A d \in Calls : At(d, "idle")' \/ (~At(d, "idle") /\ call'[d].at = call[d].at)
    BY <1>0, <1>8, <2>1, <1>g, RetireOldEffect DEF RetireOld, At
  <2> QED
    BY <1>0, <1>8, <1>i, <2>2, GoOnTimely DEF RetireOld, history
<1>9. ASSUME NEW c \in Calls, Demote(c) PROVE Timely'
  <2>1. \A d \in Calls : At(d, "idle")' \/ (~At(d, "idle") /\ call'[d].at = call[d].at)
    BY <1>0, <1>9, <1>g, DemoteEffect DEF Demote, At
  <2> QED
    BY <1>0, <1>9, <1>i, <2>1, GoOnTimely DEF Demote
<1>10. ASSUME NEW c \in Calls, AddShared(c) PROVE Timely'
  <2>1. \A d \in Calls : At(d, "idle")' \/ (~At(d, "idle") /\ call'[d].at = call[d].at)
    BY <1>0, <1>10, <1>g, AddSharedEffect DEF AddShared, At
  <2> QED
    BY <1>0, <1>10, <1>i, <2>1, GoOnTimely DEF AddShared, history
<1>11. ASSUME NEW c \in Calls, Promote(c) PROVE Timely'
  <2>1. \A d \in Calls : At(d, "idle")' \/ (~At(d, "idle") /\ call'[d].at = call[d].at)
    BY <1>0, <1>11, <1>g, <1>r, PromoteEffect DEF Promote, At
  <2>2. now' = now /\ loading' = loading /\ cache' = cache /\ switched' \in {switched, now}
    BY <1>11 DEF Promote
  <2> QED
    BY <1>0, <1>i, <2>1, <2>2, GoOnTimely
<1>12. ASSUME NEW c \in Calls, Prune(c) PROVE Timely'
  BY <1>0, <1>12, <1>r, InvalidateCache, GoOnTimely DEF Prune, history
<1>13. ASSUME NEW c \in Calls, Crash(c) PROVE Timely'
  BY <1>0, <1>13, <1>r, <1>i, GoOnTimely DEF Crash, db, history
<1>14. ASSUME NEW i \in Isolates, Load(i) PROVE Timely'
  <2>1. now \in Nat /\ now <= now + Lag
    BY <1>0, ConstantsAssumption DEF ConstantsAssumption, TypeOK
  <2>2. loading' = [loading EXCEPT ![i] = [view |-> rows, at |-> now]] /\ loading[i] = None
    BY <1>14 DEF Load
  <2>3. \A j \in Isolates : loading'[j] # None =>
          loading'[j].at <= now /\ now <= loading'[j].at + Lag
    BY <1>0, <2>1, <2>2 DEF Paced, Timely, TypeOK
  <2> QED
    BY <1>14, <2>3 DEF Load, db, history, Paced, Timely, At
<1>15. ASSUME NEW i \in Isolates, Store(i) PROVE Timely'
  <2> DEFINE copy == [view |-> loading[i].view, until |-> now + CacheTime]
  <2>1. now < copy.until /\ copy.until <= now + CacheTime
    BY <1>0, ConstantsAssumption DEF ConstantsAssumption, TypeOK
  <2>2. cache' = [cache EXCEPT ![i] = copy] /\ loading' = [loading EXCEPT ![i] = None]
    BY <1>15 DEF Store
  <2> HIDE DEF copy
  <2>3. \A j \in Isolates :
          /\ cache'[j] # None => now < cache'[j].until /\ cache'[j].until <= now + CacheTime
          /\ loading'[j] # None => loading'[j].at <= now /\ now <= loading'[j].at + Lag
    BY <1>0, <2>1, <2>2 DEF Paced, Timely, TypeOK
  <2> QED
    BY <1>15, <2>3 DEF Store, db, history, Paced, Timely, At
<1>16. ASSUME NEW i \in Isolates, Evict(i) PROVE Timely'
  <2>1. \A j \in Isolates : cache'[j] \in {cache[j], None} /\ loading'[j] \in {loading[j], None}
    BY <1>0, <1>16 DEF Evict, TypeOK
  <2> QED
    BY <1>16, <2>1 DEF Evict, db, history, Paced, Timely, At
<1>17. CASE Tick
  <2>1. \A c \in Calls : ~At(c, "idle") => call[c].at <= now' /\ now' <= call[c].at + Lag
    BY <1>0, <1>17, ConstantsAssumption
    DEF ConstantsAssumption, Tick, Paced, Timely, TypeOK, Call
  <2>2. \A i \in Isolates : loading[i] # None => loading[i].at <= now' /\ now' <= loading[i].at + Lag
    BY <1>0, <1>17, ConstantsAssumption
    DEF ConstantsAssumption, Tick, Paced, Timely, TypeOK
  <2>3. ASSUME NEW i \in Isolates, cache'[i] # None
        PROVE  now' < cache'[i].until /\ cache'[i].until <= now' + CacheTime
    <3>1. /\ cache'[i] = cache[i] /\ cache[i] # None
          /\ ~(cache[i].until <= now + 1)
      BY <1>17, <2>3 DEF Tick
    <3> QED
      BY <1>0, <1>17, <3>1, ConstantsAssumption
      DEF ConstantsAssumption, Tick, Paced, Timely, TypeOK
  <2>4. switched <= now'
    BY <1>0, <1>17 DEF Tick, Paced, Timely, TypeOK
  <2> QED
    BY <1>17, <2>1, <2>2, <2>3, <2>4 DEF Tick, db, history, Timely, At
<1>18. ASSUME NEW c \in Calls, NEW i \in Homes, ActivateRoot(c, i) PROVE Timely'
  <2>1. PICK n \in In(rows, "next") :
          \/ \E a \in In(rows, "active") : Begin(c, i, "retire", n, a, In(rows, "previous"))
          \/ Begin(c, i, "promote", n, None, {})
    BY <1>18 DEF ActivateRoot
  <2>2. UNCHANGED <<now, cache, loading, switched>>
    BY <1>18 DEF ActivateRoot
  <2> QED
    BY <1>0, <2>1, <2>2, BeginTimely DEF Steps
<1> QED
  BY <1>1, <1>2, <1>3, <1>4, <1>5, <1>6, <1>7, <1>8, <1>9, <1>10, <1>11, <1>12, <1>13, <1>14,
     <1>15, <1>16, <1>17, <1>18 DEF Next

-----------------------------------------------------------------------------
(* The steps, by what they do to the rows and the calls. *)
Began(c, pc, next, active, old) ==
  /\ call'[c].pc = pc /\ call'[c].at = now /\ call'[c].next = next
  /\ call'[c].active = active /\ call'[c].old = old
  /\ \A d \in Calls \ {c} : call'[d] = call[d]
Returned(c) == call'[c] = Idle /\ \A d \in Calls \ {c} : call'[d] = call[d]

(* The rows stay as they are; calls may end. *)
Rests ==
  /\ UNCHANGED <<rows, nextFrom, history>>
  /\ now <= now'
  /\ \/ UNCHANGED <<owner, call>>
     \/ \E c \in Calls : /\ Returned(c)
                         /\ \/ UNCHANGED owner
                            \/ At(c, "writeKey") /\ owner' = "absent"

BeginsCreation(c) ==
  /\ At(c, "idle") /\ owner = "absent" /\ owner' = "tenant"
  /\ Began(c, "writeKey", None, None, {})
  /\ UNCHANGED <<now, rows, nextFrom, cache, loading, history>>

BeginsRotation(c) ==
  /\ At(c, "idle") /\ owner # "absent"
  /\ In(rows, "next") = {}
  /\ ~hasty' => ~hasty /\ (owner = "tenant" => ~Creating)
  /\ Began(c, "insert", None, None, {})
  /\ UNCHANGED <<now, db, cache, loading, switched, ownFrom>>

BeginsActivation(c) ==
  /\ At(c, "idle") /\ owner # "absent"
  /\ ~hasty' => ~hasty /\ now >= nextFrom + MinPublished
  /\ \E n \in In(rows, "next") :
       \/ \E a \in In(rows, "active") : Began(c, "retire", n, a, In(rows, "previous"))
       \/ /\ In(rows, "active") = {}
          /\ \/ owner = "root" /\ Began(c, "promote", n, None, {})
             \/ In(rows, "previous") # {} /\ Began(c, "promote", n, None, In(rows, "previous"))
             \/ In(rows, "previous") = {} /\ Began(c, "addShared", n, None, {})
  /\ UNCHANGED <<now, db, cache, loading, switched, ownFrom>>

BeginsRetirement(c) ==
  /\ At(c, "idle")
  /\ ~hasty' => ~hasty /\ Waited
  /\ Began(c, "retire", None, None, In(rows, "previous"))
  /\ UNCHANGED <<now, db, cache, loading, switched, ownFrom>>

WritesKey(c) ==
  /\ At(c, "writeKey")
  /\ \E k \in Ids : Insert(k, "active", "created")
  /\ ownFrom' = IF ownFrom = None THEN now ELSE ownFrom
  /\ Returned(c)
  /\ UNCHANGED <<now, owner, nextFrom, loading, hasty, switched>>
  /\ \A i \in Isolates : cache'[i] \in {cache[i], None}

InsertsNext(c) ==
  /\ At(c, "insert")
  /\ \E k \in Ids : Insert(k, "next", "rotated")
  /\ nextFrom' = call[c].at
  /\ Returned(c)
  /\ UNCHANGED <<now, owner, loading, history>>
  /\ \A i \in Isolates : cache'[i] \in {cache[i], None}

Promotes(c) ==
  /\ Promote(c) /\ SlotFree(call[c].next, "active")
  /\ call[c].next \in Ids

LEMMA Kinds ==
  ASSUME Paced, [Next]_vars
  PROVE  \/ Rests
         \/ \E c \in Calls :
              \/ BeginsCreation(c) \/ BeginsRotation(c) \/ BeginsActivation(c)
              \/ BeginsRetirement(c) \/ WritesKey(c) \/ InsertsNext(c)
              \/ RetireOld(c) \/ Demote(c) \/ AddShared(c) \/ Promotes(c) \/ Prune(c)
<1> DEFINE Goal ==
      \/ Rests
      \/ \E c \in Calls :
           \/ BeginsCreation(c) \/ BeginsRotation(c) \/ BeginsActivation(c)
           \/ BeginsRetirement(c) \/ WritesKey(c) \/ InsertsNext(c)
           \/ RetireOld(c) \/ Demote(c) \/ AddShared(c) \/ Promotes(c) \/ Prune(c)
<1> SUFFICES Goal
  OBVIOUS
<1>0. TypeOK /\ TypeOK' /\ now \in Nat
  BY TypeStep DEF Paced, TypeOK
<1>b. ASSUME NEW c \in Calls, NEW i, NEW pc, NEW next, NEW active, NEW old,
             Begin(c, i, pc, next, active, old)
      PROVE  Began(c, pc, next, active, old)
  BY <1>0, <1>b, BeginEffect DEF Began
<1>r. ASSUME NEW c \in Calls, Return(c) PROVE Returned(c)
  BY <1>0, <1>r, ReturnEffect DEF Returned
<1>1. CASE UNCHANGED vars
  BY <1>0, <1>1 DEF vars, db, history, Rests
<1>2. ASSUME NEW c \in Calls, NEW i \in Homes, CreateTenant(c, i) PROVE Goal
  BY <1>2, <1>b DEF CreateTenant, BeginsCreation
<1>3. ASSUME NEW c \in Calls, NEW i \in Homes, Rotate(c, i) PROVE Goal
  <2>1. BeginsRotation(c)
    BY <1>3, <1>b DEF Rotate, BeginsRotation
  <2> QED
    BY <2>1
<1>4. ASSUME NEW c \in Calls, NEW i \in Homes, Activate(c, i) PROVE Goal
  <2>1. ~hasty' => ~hasty /\ now >= nextFrom + MinPublished
    BY <1>0, <1>4, ConstantsAssumption DEF ConstantsAssumption, Activate, TypeOK
  <2>2. PICK n \in In(rows, "next") :
          \/ \E a \in In(rows, "active") : Begin(c, i, "retire", n, a, In(rows, "previous"))
          \/ /\ In(rows, "active") = {}
             /\ Begin(c, i, IF In(rows, "previous") # {} THEN "promote" ELSE "addShared", n, None,
                      In(rows, "previous"))
    BY <1>4 DEF Activate
  <2>3. \/ \E a \in In(rows, "active") : Began(c, "retire", n, a, In(rows, "previous"))
        \/ /\ In(rows, "active") = {}
           /\ \/ In(rows, "previous") # {} /\ Began(c, "promote", n, None, In(rows, "previous"))
              \/ In(rows, "previous") = {} /\ Began(c, "addShared", n, None, {})
    BY <1>b, <2>2
  <2>4. BeginsActivation(c)
    BY <1>4, <2>1, <2>3 DEF Activate, BeginsActivation
  <2> QED
    BY <2>4
<1>5. ASSUME NEW c \in Calls, NEW i \in Homes, Retire(c, i) \/ RetireRoot(c, i) PROVE Goal
  <2>1. ~hasty' => ~hasty /\ Waited
    BY <1>0, <1>5 DEF Retire, RetireRoot
  <2>2. BeginsRetirement(c)
    BY <1>5, <1>b, <2>1 DEF Retire, RetireRoot, BeginsRetirement
  <2> QED
    BY <2>2
<1>6. ASSUME NEW c \in Calls, WriteKey(c) PROVE Goal
  <2>1. CASE \E k \in Ids : Insert(k, "active", "created")
    <3>1. CASE owner' = owner /\ Invalidate(c)
                 /\ ownFrom' = (IF ownFrom = None THEN now ELSE ownFrom)
      <4>1. WritesKey(c)
        BY <1>0, <1>6, <1>r, <2>1, <3>1, InvalidateCache DEF WriteKey, WritesKey
      <4> QED
        BY <4>1
    <3>2. CASE owner' = "absent" /\ UNCHANGED <<rows, ownFrom>>
      <4>1. Rests
        BY <1>0, <1>6, <1>r, <3>2 DEF WriteKey, Rests, history
      <4> QED
        BY <4>1
    <3> QED
      BY <1>6, <3>1, <3>2 DEF WriteKey
  <2>2. CASE owner' = "absent" /\ UNCHANGED <<rows, ownFrom>>
    <3>1. Rests
      BY <1>0, <1>6, <1>r, <2>2 DEF WriteKey, Rests, history
    <3> QED
      BY <3>1
  <2> QED
    BY <1>6, <2>1, <2>2 DEF WriteKey
<1>7. ASSUME NEW c \in Calls, InsertNext(c) PROVE Goal
  <2>1. CASE (\E k \in Ids : Insert(k, "next", "rotated")) /\ nextFrom' = call[c].at /\ Invalidate(c)
    <3>1. InsertsNext(c)
      BY <1>0, <1>7, <1>r, <2>1, InvalidateCache DEF InsertNext, InsertsNext
    <3> QED
      BY <3>1
  <2>2. CASE UNCHANGED <<rows, nextFrom, cache>>
    <3>1. Rests
      BY <1>0, <1>7, <1>r, <2>2 DEF InsertNext, Rests
    <3> QED
      BY <3>1
  <2> QED
    BY <1>7, <2>1, <2>2 DEF InsertNext
<1>11. ASSUME NEW c \in Calls, Promote(c) PROVE Goal
  <2>1. CASE SlotFree(call[c].next, "active")
    BY <1>0, <1>11, <2>1 DEF Promote, Promotes, At, TypeOK, Call, WellFormed
  <2>2. CASE ~SlotFree(call[c].next, "active")
    <3>1. Rests
      BY <1>0, <1>11, <1>r, <2>2 DEF Promote, Rests, history
    <3> QED
      BY <3>1
  <2> QED
    BY <2>1, <2>2
<1>13. ASSUME NEW c \in Calls, Crash(c) PROVE Goal
  <2>1. Rests
    BY <1>0, <1>13, <1>r DEF Crash, db, Rests
  <2> QED
    BY <2>1
<1>14. ASSUME NEW i \in Isolates, Load(i) \/ Store(i) \/ Evict(i) PROVE Goal
  BY <1>0, <1>14 DEF Load, Store, Evict, db, Rests
<1>17. CASE Tick
  BY <1>0, <1>17 DEF Tick, db, Rests
<1>18. ASSUME NEW c \in Calls, NEW i \in Homes, RotateRoot(c, i) PROVE Goal
  <2>1. BeginsRotation(c)
    BY <1>18, <1>b DEF RotateRoot, BeginsRotation, history
  <2> QED
    BY <2>1
<1>19. ASSUME NEW c \in Calls, NEW i \in Homes, ActivateRoot(c, i) PROVE Goal
  <2>1. ~hasty' => ~hasty /\ now >= nextFrom + MinPublished
    BY <1>0, <1>19, ConstantsAssumption DEF ConstantsAssumption, ActivateRoot, TypeOK
  <2>2. PICK n \in In(rows, "next") :
          \/ \E a \in In(rows, "active") : Begin(c, i, "retire", n, a, In(rows, "previous"))
          \/ In(rows, "active") = {} /\ Begin(c, i, "promote", n, None, {})
    BY <1>19 DEF ActivateRoot
  <2>3. \/ \E a \in In(rows, "active") : Began(c, "retire", n, a, In(rows, "previous"))
        \/ In(rows, "active") = {} /\ Began(c, "promote", n, None, {})
    BY <1>b, <2>2
  <2>4. BeginsActivation(c)
    BY <1>19, <2>1, <2>3 DEF ActivateRoot, BeginsActivation
  <2> QED
    BY <2>4
<1> HIDE DEF Goal
<1>20. (\E c \in Calls : RetireOld(c) \/ Demote(c) \/ AddShared(c) \/ Prune(c)) => Goal
  BY DEF Goal
<1> QED
  BY <1>1, <1>2, <1>3, <1>4, <1>5, <1>6, <1>7, <1>11, <1>13, <1>14, <1>17, <1>18, <1>19, <1>20
  DEF Next

LEMMA IdleFields ==
  Idle.pc = "idle" /\ Idle.next = None /\ Idle.active = None /\ Idle.old = {}
  BY DEF Idle

LEMMA OneEachKept ==
  ASSUME OneEach,
         \A k \in Ids : rows'[k].state \in {"next", "active"} => rows'[k].state = rows[k].state
  PROVE  OneEach'
  BY DEF OneEach

LEMMA OneEachPut ==
  ASSUME OneEach, NEW k \in Ids, SlotFree(k, rows'[k].state),
         \A m \in Ids \ {k} : rows'[m] = rows[m]
  PROVE  OneEach'
  BY DEF OneEach, SlotFree, In

LEMMA PacedStep == Paced /\ [Next]_vars => Paced'
<1> SUFFICES ASSUME Paced, [Next]_vars PROVE Paced'
  OBVIOUS
<1>0. TypeOK /\ TypeOK' /\ Timely'
  BY TypeStep, TimelyStep DEF Paced
<1>f. /\ \A c \in Calls : call[c].next # None => call[c].pc \in {"retire", "addShared", "promote"}
      /\ \A c \in Calls : call[c].pc = "idle" => call[c] = Idle
  BY DEF Paced, Shaped, Activating, At
<1>s. ASSUME NEW c \in Calls,
             call'[c].next # None => call'[c].pc \in {"retire", "addShared", "promote"},
             call'[c].pc = "idle" => call'[c] = Idle,
             \A d \in Calls \ {c} : call'[d] = call[d]
      PROVE  Shaped'
  BY <1>f, <1>s DEF Shaped, Activating, At
<1>r. ASSUME NEW c \in Calls, Returned(c) PROVE Shaped'
  BY <1>r, <1>s, IdleFields DEF Returned
<1>u. ASSUME rows' = rows PROVE OneEach'
  BY <1>u, OneEachKept DEF Paced
<1>1. CASE Rests
  <2>1. Shaped'
    <3>1. CASE call' = call
      BY <1>f, <3>1 DEF Shaped, Activating, At
    <3> QED
      BY <1>1, <1>r, <3>1 DEF Rests
  <2> QED
    BY <1>0, <1>1, <1>u, <2>1 DEF Rests, Paced
<1>2. ASSUME NEW c \in Calls, BeginsCreation(c) PROVE Paced'
  BY <1>0, <1>2, <1>s, <1>u DEF BeginsCreation, Began, Paced
<1>3. ASSUME NEW c \in Calls, BeginsRotation(c) PROVE Paced'
  BY <1>0, <1>3, <1>s, <1>u DEF BeginsRotation, Began, Paced, db
<1>4. ASSUME NEW c \in Calls, BeginsActivation(c) PROVE Paced'
  <2>1. /\ call'[c].pc \in {"retire", "addShared", "promote"}
        /\ \A d \in Calls \ {c} : call'[d] = call[d]
    BY <1>4 DEF BeginsActivation, Began
  <2> QED
    BY <1>0, <1>4, <1>s, <1>u, <2>1 DEF BeginsActivation, Paced, db
<1>5. ASSUME NEW c \in Calls, BeginsRetirement(c) PROVE Paced'
  BY <1>0, <1>5, <1>s, <1>u DEF BeginsRetirement, Began, Paced, db
<1>6. ASSUME NEW c \in Calls, WritesKey(c) PROVE Paced'
  <2>1. PICK k \in Ids : Insert(k, "active", "created")
    BY <1>6 DEF WritesKey
  <2>2. OneEach'
    BY <1>0, <2>1, InsertEffect, OneEachPut DEF Paced
  <2> QED
    BY <1>0, <1>6, <1>r, <2>2 DEF WritesKey, Paced
<1>7. ASSUME NEW c \in Calls, InsertsNext(c) PROVE Paced'
  <2>1. PICK k \in Ids : Insert(k, "next", "rotated")
    BY <1>7 DEF InsertsNext
  <2>2. OneEach'
    BY <1>0, <2>1, InsertEffect, OneEachPut DEF Paced
  <2> QED
    BY <1>0, <1>7, <1>r, <2>2 DEF InsertsNext, Paced
<1>8. ASSUME NEW c \in Calls, RetireOld(c) PROVE Paced'
  <2>1. PICK k \in call[c].old : Erase(k) /\ call' = [call EXCEPT ![c].old = @ \ {k}]
    BY <1>8 DEF RetireOld
  <2>2. k \in Ids
    BY <1>0 DEF TypeOK, Call
  <2>3. OneEach'
    BY <1>0, <2>1, <2>2, EraseEffect, OneEachKept DEF Paced
  <2>4. Shaped'
    BY <1>0, <1>8, <1>f, <1>s, <2>1, RetireOldEffect DEF RetireOld, At
  <2> QED
    BY <1>0, <2>3, <2>4 DEF Paced
<1>9. ASSUME NEW c \in Calls, Demote(c) PROVE Paced'
  <2>1. call[c].active \in Ids
    BY <1>0, <1>9 DEF Demote, TypeOK, Call
  <2>2. OneEach'
    BY <1>0, <1>9, <2>1, MoveEffect, OneEachKept DEF Paced, Demote
  <2>3. Shaped'
    BY <1>0, <1>9, <1>s, DemoteEffect
  <2> QED
    BY <1>0, <2>2, <2>3 DEF Paced
<1>10. ASSUME NEW c \in Calls, AddShared(c) PROVE Paced'
  <2>1. PICK k \in Ids : Insert(k, "previous", "shared")
    BY <1>10 DEF AddShared
  <2>2. OneEach'
    BY <1>0, <2>1, InsertEffect, OneEachPut DEF Paced
  <2>3. Shaped'
    BY <1>0, <1>10, <1>s, AddSharedEffect
  <2> QED
    BY <1>0, <2>2, <2>3 DEF Paced
<1>11. ASSUME NEW c \in Calls, Promotes(c) PROVE Paced'
  <2>1. call[c].next \in Ids /\ Move(call[c].next, "active") /\ SlotFree(call[c].next, "active")
    BY <1>11 DEF Promotes, Promote
  <2> DEFINE n == call[c].next
  <2> HIDE DEF n
  <2>2. n \in Ids /\ Move(n, "active") /\ SlotFree(n, "active")
    BY <2>1 DEF n
  <2>3. SlotFree(n, rows'[n].state) /\ \A m \in Ids \ {n} : rows'[m] = rows[m]
    BY <1>0, <2>2, MoveEffect DEF SlotFree
  <2>4. OneEach'
    BY <2>2, <2>3, OneEachPut DEF Paced
  <2>5. Shaped'
    BY <1>0, <1>11, <1>s, PromoteEffect DEF Promotes
  <2> QED
    BY <1>0, <2>4, <2>5 DEF Paced
<1>12. ASSUME NEW c \in Calls, Prune(c) PROVE Paced'
  <2>1. OneEach'
    BY <1>0, <1>12, PruneEffect, OneEachKept DEF Paced
  <2>2. Returned(c)
    BY <1>0, <1>12, ReturnEffect DEF Prune, Returned
  <2> QED
    BY <1>0, <1>r, <2>1, <2>2 DEF Paced
<1> QED
  BY <1>1, <1>2, <1>3, <1>4, <1>5, <1>6, <1>7, <1>8, <1>9, <1>10, <1>11, <1>12, Kinds

-----------------------------------------------------------------------------
(* The copies of the rows that isolates may be working with, and until when. *)
Copies ==
  {cache[i] : i \in {j \in Isolates : cache[j] # None}} \cup
  {[view |-> loading[i].view, until |-> loading[i].at + Window] :
     i \in {j \in Isolates : loading[j] # None}}

LEMMA CopyType ==
  ASSUME Paced, NEW x \in Copies
  PROVE  x.view \in View /\ x.until \in Nat /\ now < x.until /\ x.until <= now + Window
<1> USE ConstantsAssumption DEF ConstantsAssumption, Paced, TypeOK, Timely, Window
<1>1. ASSUME NEW i \in Isolates, cache[i] # None, x = cache[i]
      PROVE  x.view \in View /\ x.until \in Nat /\ now < x.until /\ x.until <= now + Window
  <2>1. cache[i] \in [view : View, until : Nat]
    BY <1>1
  <2> QED
    BY <1>1, <2>1
<1>2. ASSUME NEW i \in Isolates, loading[i] # None,
             x = [view |-> loading[i].view, until |-> loading[i].at + Window]
      PROVE  x.view \in View /\ x.until \in Nat /\ now < x.until /\ x.until <= now + Window
  <2>1. loading[i] \in [view : View, at : Nat]
    BY <1>2
  <2>2. x.view = loading[i].view /\ x.until = loading[i].at + Window
    BY <1>2
  <2> QED
    BY <1>2, <2>1, <2>2
<1> QED
  BY <1>1, <1>2 DEF Copies

(* A copy that was there before, to be used no longer. *)
Held(x) == \E y \in Copies : y.view = x.view /\ x.until <= y.until

LEMMA CopiesShrink ==
  ASSUME Paced, loading' = loading, \A i \in Isolates : cache'[i] \in {cache[i], None}
  PROVE  Copies' \subseteq Copies
  BY DEF Copies

LEMMA HeldIsHeld == ASSUME Paced, NEW x \in Copies PROVE Held(x)
<1>1. x.until <= x.until
  BY CopyType
<1> QED
  BY <1>1 DEF Held

LEMMA LoadCopies ==
  ASSUME Paced, NEW i \in Isolates, Load(i), NEW x \in Copies'
  PROVE  x \in Copies \/ (x.view = rows /\ x.until = now + Window)
  BY DEF Load, Copies, Paced, TypeOK

LEMMA StoreHolds ==
  ASSUME Paced, NEW i \in Isolates, Store(i), NEW x \in Copies'
  PROVE  Held(x)
<1> USE ConstantsAssumption DEF ConstantsAssumption
<1> DEFINE copy == [view |-> loading[i].view, until |-> now + CacheTime]
           read == [view |-> loading[i].view, until |-> loading[i].at + Window]
<1>1. /\ read \in Copies /\ read.view = copy.view /\ copy.until = now + CacheTime
      /\ read.until = loading[i].at + Window
  BY DEF Store, Copies
<1>2. loading[i].at \in Nat /\ now \in Nat /\ now <= loading[i].at + Lag
  <2>1. loading[i] \in [view : View, at : Nat]
    BY DEF Paced, TypeOK, Store
  <2> QED
    BY <2>1 DEF Paced, TypeOK, Timely, Store
<1>3. now + CacheTime <= loading[i].at + Window
  BY <1>2 DEF Window
<1>4. cache' = [cache EXCEPT ![i] = copy] /\ loading' = [loading EXCEPT ![i] = None]
  BY DEF Store
<1> HIDE DEF copy, read
<1>5. x = copy \/ x \in Copies
  BY <1>4 DEF Copies, Paced, TypeOK
<1>6. CASE x = copy
  BY <1>1, <1>3, <1>6 DEF Held
<1> QED
  BY <1>5, <1>6, HeldIsHeld

LEMMA CopiesHeld ==
  ASSUME Paced, [Next]_vars, ~\E i \in Isolates : Load(i), NEW x \in Copies'
  PROVE  Held(x)
<1>0. TypeOK
  BY DEF Paced
<1>a. ASSUME UNCHANGED <<cache, loading>> PROVE Held(x)
  <2>1. x \in Copies
    BY <1>a DEF Copies
  <2> QED
    BY <2>1, HeldIsHeld
<1>b. ASSUME loading' = loading, \A i \in Isolates : cache'[i] \in {cache[i], None} PROVE Held(x)
  BY <1>b, CopiesShrink, HeldIsHeld
<1>1. CASE UNCHANGED vars
  BY <1>1, <1>a DEF vars
<1>2. ASSUME NEW c \in Calls, NEW i \in Homes,
             \/ CreateTenant(c, i) \/ Rotate(c, i) \/ Activate(c, i) \/ Retire(c, i)
             \/ RotateRoot(c, i) \/ ActivateRoot(c, i) \/ RetireRoot(c, i)
      PROVE  Held(x)
  BY <1>2, <1>a
  DEF CreateTenant, Rotate, Activate, Retire, RotateRoot, ActivateRoot, RetireRoot
<1>3. ASSUME NEW c \in Calls, WriteKey(c) \/ InsertNext(c) \/ Prune(c) PROVE Held(x)
  <2>1. loading' = loading /\ (cache' = cache \/ Invalidate(c))
    BY <1>3 DEF WriteKey, InsertNext, Prune
  <2> QED
    BY <1>0, <1>a, <1>b, <2>1, InvalidateCache
<1>4. ASSUME NEW c \in Calls,
             RetireOld(c) \/ Demote(c) \/ AddShared(c) \/ Promote(c) \/ Crash(c)
      PROVE  Held(x)
  BY <1>4, <1>a DEF RetireOld, Demote, AddShared, Promote, Crash
<1>5. ASSUME NEW i \in Isolates, Store(i) PROVE Held(x)
  BY <1>5, StoreHolds
<1>6. ASSUME NEW i \in Isolates, Evict(i) PROVE Held(x)
  <2>1. /\ cache' = [cache EXCEPT ![i] = None]
        /\ loading' = [loading EXCEPT ![i] = None]
    BY <1>6 DEF Evict
  <2>2. x \in Copies
    BY <1>0, <2>1 DEF Copies, TypeOK
  <2> QED
    BY <2>2, HeldIsHeld
<1>7. CASE Tick
  <2>1. loading' = loading /\ \A i \in Isolates : cache'[i] \in {cache[i], None}
    BY <1>0, <1>7 DEF Tick, TypeOK
  <2> QED
    BY <1>b, <2>1
<1> QED
  BY <1>1, <1>2, <1>3, <1>4, <1>5, <1>6, <1>7 DEF Next

-----------------------------------------------------------------------------
(* A non-empty set of rows has a last one. *)
LEMMA LastOf ==
  ASSUME NEW T, T \subseteq Ids, T # {}
  PROVE  \E x \in T : \A y \in T : y <= x
<1> DEFINE R == OpToRel(<, Nat)
           Below == {MaxRows - y : y \in T}
<1>1. IsWellFoundedOn(R, Nat)
  BY NatLessThanWellFounded
<1>2. \A a, b \in Nat : a < b => <<a, b>> \in R
  BY DEF OpToRel
<1>3. MaxRows \in Nat /\ \A y \in T : y \in Nat /\ MaxRows - y \in Nat
  BY ConstantsAssumption DEF ConstantsAssumption, Ids
<1>a. Below \subseteq Nat /\ Below # {}
  BY <1>3
<1> HIDE DEF R
<1>4. PICK z \in Below : \A y \in Below : ~(<<y, z>> \in R)
  <2> HIDE DEF Below
  <2> QED
    BY <1>1, <1>a, WFMin
<1>5. PICK x \in T : z = MaxRows - x
  BY DEF Below
<1>6. ASSUME NEW y \in T PROVE y <= x
  <2>1. MaxRows - y \in Below
    OBVIOUS
  <2>2. ~(MaxRows - y < z)
    BY <1>2, <1>a, <1>4, <2>1
  <2>3. x \in Nat /\ y \in Nat /\ MaxRows \in Nat
    BY <1>3
  <2> QED
    BY <1>5, <2>2, <2>3
<1> QED
  BY <1>6

LEMMA IdsFinite ==
  ASSUME NEW S, S \subseteq Ids
  PROVE  IsFiniteSet(S) /\ Cardinality(S) \in Nat
<1>1. MaxRows \in Int /\ 1 \in Int
  BY ConstantsAssumption DEF ConstantsAssumption
<1>2. IsFiniteSet(1..MaxRows)
  BY <1>1, FS_Interval
<1>3. IsFiniteSet(S)
  BY <1>2, FS_Subset DEF Ids
<1> QED
  BY <1>3, FS_CardinalityType

(* pruneRetiredRows leaves as many rows as it may, when there are that many. *)
LEMMA NewestMany ==
  ASSUME NEW S, S \subseteq Ids, Cardinality(S) >= KeepRetired
  PROVE  Cardinality(Newest(S)) >= KeepRetired
<1> USE ConstantsAssumption DEF ConstantsAssumption
<1>1. Newest(S) \subseteq S
  BY DEF Newest
<1>2. CASE S \ Newest(S) = {}
  <2>1. Newest(S) = S
    BY <1>1, <1>2
  <2> QED
    BY <2>1
<1>3. CASE S \ Newest(S) # {}
  <2>1. PICK x \in S \ Newest(S) : \A y \in S \ Newest(S) : y <= x
    BY <1>3, LastOf
  <2> DEFINE Above == {m \in S : m > x}
  <2>2. ~(Cardinality(Above) < KeepRetired)
    BY DEF Newest
  <2>3. Above \subseteq Newest(S)
    <3>1. \A y \in S : y \in Nat
      BY ConstantsAssumption DEF ConstantsAssumption, Ids
    <3> QED
      BY <2>1, <3>1
  <2>4. Newest(S) \subseteq Ids /\ Above \subseteq Ids
    BY <1>1
  <2> HIDE DEF Above
  <2>5. Cardinality(Above) <= Cardinality(Newest(S))
    BY <2>3, <2>4, IdsFinite, FS_Subset
  <2> QED
    BY <2>2, <2>4, <2>5, IdsFinite
<1> QED
  BY <1>2, <1>3

-----------------------------------------------------------------------------
(* Whose the rows are that become active, and when the first one did. *)
Unused(v) == \A k \in Own(v) : v[k].state = "next"
SharedRetired(v) == {k \in In(v, "retired") : v[k].origin = "shared"}

(* The rows say that the owner had a key of its own, unless too many others are kept. *)
Evident(v) == Unused(v) => Cardinality(SharedRetired(v)) >= KeepRetired

ActiveIsOwn == \A k \in Ids : rows[k].state = "active" => rows[k].origin # "shared"
CallsMoveOwn ==
  \A c \in Calls :
    /\ Activating(c) => rows[call[c].next].origin = "rotated"
    /\ call[c].active # None => rows[call[c].active].origin # "shared"
NoneYet == ownFrom = None => \A k \in Ids : rows[k].origin # "shared" => rows[k].state = "next"
Evidence ==
  ownFrom # None =>
    /\ Evident(rows)
    /\ \A x \in Copies : x.until <= ownFrom + Window \/ Evident(x.view)

Owned == IInv /\ Paced /\ ActiveIsOwn /\ CallsMoveOwn /\ NoneYet
OInv == Owned /\ Evidence

LEMMA OInvInit == Init => OInv
<1> SUFFICES ASSUME Init PROVE OInv
  OBVIOUS
<1>1. IInv /\ Paced
  BY IInvInit, PacedInit
<1>2. \A k \in Ids : rows[k] = IF owner = "root" /\ k = 1 THEN FirstRow ELSE NoRow
  BY DEF Init
<1>3. ActiveIsOwn /\ NoneYet
  <2>1. ownFrom = None => owner # "root"
    BY ConstantsAssumption DEF ConstantsAssumption, Init
  <2> QED
    BY <1>2, <2>1 DEF ActiveIsOwn, NoneYet, FirstRow, NoRow
<1>4. CallsMoveOwn
  BY DEF Init, CallsMoveOwn, Activating, Idle
<1>5. Copies = {}
  BY DEF Init, Copies
<1>6. ownFrom # None => ~Unused(rows)
  <2> SUFFICES ASSUME ownFrom # None PROVE ~Unused(rows)
    OBVIOUS
  <2>1. owner = "root"
    BY DEF Init
  <2>2. 1 \in Ids
    BY ConstantsAssumption DEF ConstantsAssumption, Ids
  <2>3. rows[1] = FirstRow
    BY <1>2, <2>1, <2>2
  <2> QED
    BY <2>2, <2>3 DEF Unused, Own, FirstRow, States
<1> QED
  BY <1>1, <1>3, <1>4, <1>5, <1>6 DEF OInv, Owned, Evidence, Evident

LEMMA OwnedKept ==
  ASSUME Owned, IInv', Paced',
         \A k \in Ids : rows[k].origin # "shared" => rows'[k].origin = rows[k].origin,
         \A k \in Ids : rows'[k].state = "active" => rows'[k].origin # "shared",
         ownFrom' = None => ownFrom = None /\
           \A k \in Ids : rows'[k].origin # "shared" => rows'[k].state = "next",
         \A c \in Calls : /\ call'[c].next \in {call[c].next, None}
                          /\ call'[c].active \in {call[c].active, None}
  PROVE  Owned'
<1>1. ActiveIsOwn' /\ NoneYet'
  BY DEF ActiveIsOwn, NoneYet
<1>2. \A c \in Calls : call[c].next \in Ids \cup {None} /\ call[c].active \in Ids \cup {None}
  BY DEF Owned, Paced, TypeOK, Call
<1>3. CallsMoveOwn'
  BY <1>2 DEF Owned, CallsMoveOwn, Activating
<1> QED
  BY <1>1, <1>3 DEF Owned

(* A call that begins on an unchanged set of rows. *)
LEMMA OwnedBegun ==
  ASSUME Owned, IInv', Paced', rows' = rows, ownFrom' = ownFrom,
         NEW c \in Calls, \A d \in Calls \ {c} : call'[d] = call[d],
         call'[c].next # None => rows[call'[c].next].origin = "rotated",
         call'[c].active # None => rows[call'[c].active].origin # "shared"
  PROVE  Owned'
  BY DEF Owned, ActiveIsOwn, NoneYet, CallsMoveOwn, Activating

LEMMA NotNext ==
  ASSUME IInv, NEW c \in Calls, NEW k \in Doomed(c)
  PROVE  k \in Ids /\ rows[k].state # "next" /\ rows[k].state # "none"
  BY DEF IInv, TypeOK, Call, Doomed, DoomedBehind, NextIsLatest

LEMMA OwnedStep == Owned /\ [Next]_vars => Owned'
<1> SUFFICES ASSUME Owned, [Next]_vars PROVE Owned'
  OBVIOUS
<1>0. IInv /\ IInv' /\ Paced /\ Paced' /\ TypeOK /\ now \in Nat /\ now # None
  BY IInvStep, PacedStep, ConstantsAssumption
  DEF ConstantsAssumption, Owned, Paced, TypeOK
<1>a. /\ \A k \in Ids : rows[k].state = "active" => rows[k].origin # "shared"
      /\ ownFrom = None => \A k \in Ids : rows[k].origin # "shared" => rows[k].state = "next"
      /\ \A k \in Ids : rows[k].state = "none" => rows[k].origin = "shared"
  BY <1>0 DEF Owned, ActiveIsOwn, NoneYet, IInv, NoneIsNoRow
<1>r. ASSUME NEW c \in Calls, Returned(c)
      PROVE  \A d \in Calls : /\ call'[d].next \in {call[d].next, None}
                              /\ call'[d].active \in {call[d].active, None}
  BY <1>r, IdleFields DEF Returned
<1>i. ASSUME NEW k \in Ids, rows[k].state = "none", \A m \in Ids \ {k} : rows'[m] = rows[m]
      PROVE  \A m \in Ids : rows[m].origin # "shared" => rows'[m].origin = rows[m].origin
  BY <1>a, <1>i
<1>1. CASE Rests
  <2>1. rows' = rows /\ ownFrom' = ownFrom
    BY <1>1 DEF Rests, history
  <2>2. \A d \in Calls : /\ call'[d].next \in {call[d].next, None}
                         /\ call'[d].active \in {call[d].active, None}
    BY <1>1, <1>r DEF Rests
  <2> QED
    BY <1>0, <1>a, <2>1, <2>2, OwnedKept
<1>2. ASSUME NEW c \in Calls, BeginsCreation(c) PROVE Owned'
  BY <1>0, <1>2, OwnedBegun DEF BeginsCreation, Began, history
<1>3. ASSUME NEW c \in Calls, BeginsRotation(c) PROVE Owned'
  BY <1>0, <1>3, OwnedBegun DEF BeginsRotation, Began, db
<1>4. ASSUME NEW c \in Calls, BeginsActivation(c) PROVE Owned'
  <2>1. rows' = rows /\ ownFrom' = ownFrom
    BY <1>4 DEF BeginsActivation, db
  <2>2. PICK n \in In(rows, "next") :
          /\ call'[c].next = n
          /\ call'[c].active \in In(rows, "active") \cup {None}
          /\ \A d \in Calls \ {c} : call'[d] = call[d]
    BY <1>4 DEF BeginsActivation, Began
  <2>3. rows[n].origin = "rotated"
    BY <1>0 DEF IInv, NextIsLatest, Rotated, In
  <2>4. call'[c].active # None => rows[call'[c].active].origin # "shared"
    BY <1>a, <2>2 DEF In
  <2> QED
    BY <1>0, <2>1, <2>2, <2>3, <2>4, OwnedBegun
<1>5. ASSUME NEW c \in Calls, BeginsRetirement(c) PROVE Owned'
  BY <1>0, <1>5, OwnedBegun DEF BeginsRetirement, Began, db
<1>6. ASSUME NEW c \in Calls, WritesKey(c) PROVE Owned'
  <2>1. PICK k \in Ids : Insert(k, "active", "created")
    BY <1>6 DEF WritesKey
  <2>2. ownFrom' # None
    BY <1>0, <1>6 DEF WritesKey
  <2> QED
    BY <1>0, <1>6, <1>a, <1>i, <1>r, <2>1, <2>2, InsertEffect, OwnedKept DEF WritesKey
<1>7. ASSUME NEW c \in Calls, InsertsNext(c) PROVE Owned'
  <2>1. PICK k \in Ids : Insert(k, "next", "rotated")
    BY <1>7 DEF InsertsNext
  <2>2. ownFrom' = ownFrom
    BY <1>7 DEF InsertsNext, history
  <2> QED
    BY <1>0, <1>7, <1>a, <1>i, <1>r, <2>1, <2>2, InsertEffect, OwnedKept DEF InsertsNext
<1>8. ASSUME NEW c \in Calls, RetireOld(c) PROVE Owned'
  <2>1. PICK k \in call[c].old : Erase(k) /\ call' = [call EXCEPT ![c].old = @ \ {k}]
    BY <1>8 DEF RetireOld
  <2>2. k \in Ids /\ rows[k].state # "next" /\ ownFrom' = ownFrom
    BY <1>0, <1>8, NotNext DEF RetireOld, history, Doomed
  <2>3. \A d \in Calls : call'[d].next = call[d].next /\ call'[d].active = call[d].active
    BY <1>0, <2>1, RetireOldEffect
  <2> QED
    BY <1>0, <1>a, <2>1, <2>2, <2>3, EraseEffect, OwnedKept
<1>9. ASSUME NEW c \in Calls, Demote(c) PROVE Owned'
  <2> DEFINE a == call[c].active
  <2>1. a \in Ids /\ rows[a].state # "next" /\ rows[a].origin # "shared" /\ Move(a, "previous")
    BY <1>0, <1>9, NotNext DEF Demote, Owned, CallsMoveOwn, Doomed
  <2>2. ownFrom' = ownFrom
    BY <1>9 DEF Demote
  <2>3. \A d \in Calls : /\ call'[d].next = call[d].next
                         /\ call'[d].active \in {call[d].active, None}
    BY <1>0, <1>9, DemoteEffect
  <2> HIDE DEF a
  <2> QED
    BY <1>0, <1>a, <2>1, <2>2, <2>3, MoveEffect, OwnedKept
<1>10. ASSUME NEW c \in Calls, AddShared(c) PROVE Owned'
  <2>1. PICK k \in Ids : Insert(k, "previous", "shared")
    BY <1>10 DEF AddShared
  <2>2. ownFrom' = ownFrom
    BY <1>10 DEF AddShared, history
  <2>3. \A d \in Calls : call'[d].next = call[d].next /\ call'[d].active = call[d].active
    BY <1>0, <1>10, AddSharedEffect
  <2> QED
    BY <1>0, <1>a, <1>i, <2>1, <2>2, <2>3, InsertEffect, OwnedKept
<1>11. ASSUME NEW c \in Calls, Promotes(c) PROVE Owned'
  <2> DEFINE n == call[c].next
  <2>1. n \in Ids /\ Move(n, "active") /\ rows[n].origin = "rotated"
    <3>1. n # None
      BY <1>0, <1>11, ConstantsAssumption DEF ConstantsAssumption, Promotes, Ids
    <3> QED
      BY <1>11, <3>1 DEF Promotes, Promote, Owned, CallsMoveOwn, Activating
  <2>2. ownFrom' # None
    BY <1>0, <1>11 DEF Promotes, Promote
  <2>3. \A d \in Calls : /\ call'[d].next \in {call[d].next, None}
                         /\ call'[d].active = call[d].active
    BY <1>0, <1>11, PromoteEffect DEF Promotes
  <2> HIDE DEF n
  <2> QED
    BY <1>0, <1>a, <2>1, <2>2, <2>3, MoveEffect, OwnedKept
<1>12. ASSUME NEW c \in Calls, Prune(c) PROVE Owned'
  <2>1. ownFrom' = ownFrom /\ Returned(c)
    BY <1>0, <1>12, ReturnEffect DEF Prune, history, Returned
  <2> QED
    BY <1>0, <1>12, <1>a, <1>r, <2>1, PruneEffect, OwnedKept
<1> QED
  BY <1>0, <1>1, <1>2, <1>3, <1>4, <1>5, <1>6, <1>7, <1>8, <1>9, <1>10, <1>11, <1>12, Kinds

(* A key of its own that is in use, or was, is evidence. *)
LEMMA Shows ==
  ASSUME NEW v, NEW k \in Ids, v[k].origin # "shared",
         v[k].state \in {"active", "previous", "retired"}
  PROVE  Evident(v)
  BY DEF Evident, Unused, Own, States

(* Evidence stays while no row of the tenant's own goes, and no retired row at all. *)
LEMMA EvidentKept ==
  ASSUME Evident(rows),
         \A k \in Own(rows) : k \in Own(rows)' /\
                              (rows[k].state # "next" => rows'[k].state # "next"),
         SharedRetired(rows) \subseteq SharedRetired(rows)'
  PROVE  Evident(rows)'
<1> SUFFICES ASSUME Unused(rows)' PROVE Cardinality(SharedRetired(rows)') >= KeepRetired
  BY DEF Evident
<1>1. Unused(rows)
  BY DEF Unused
<1>2. Cardinality(SharedRetired(rows)) >= KeepRetired
  BY <1>1 DEF Evident
<1>3. SharedRetired(rows) \subseteq Ids /\ SharedRetired(rows)' \subseteq Ids
  BY DEF SharedRetired, In
<1> HIDE DEF SharedRetired
<1>4. Cardinality(SharedRetired(rows)) <= Cardinality(SharedRetired(rows)')
  BY <1>3, IdsFinite, FS_Subset
<1> QED
  BY <1>2, <1>3, <1>4, IdsFinite, ConstantsAssumption DEF ConstantsAssumption

(* Of the rows that pruning keeps, one is the tenant's own, or too many are shared. *)
LEMMA PrunedEvident ==
  ASSUME Owned, Evident(rows), NEW c \in Calls, Prune(c)
  PROVE  Evident(rows)'
<1> USE ConstantsAssumption DEF ConstantsAssumption
<1> DEFINE retired == In(rows, "retired")
<1>0. TypeOK
  BY DEF Owned, Paced
<1>1. \A k \in Ids :
        rows'[k] = IF k \in retired \ Newest(retired)
                     THEN [rows[k] EXCEPT !.state = "deleted"] ELSE rows[k]
  BY DEF Prune
<1>2. Newest(retired) \subseteq retired /\ retired \subseteq Ids
  BY DEF Newest, In
<1> SUFFICES ASSUME Unused(rows)' PROVE Cardinality(SharedRetired(rows)') >= KeepRetired
  BY DEF Evident
<1>3. \A k \in Newest(retired) : rows'[k] = rows[k] /\ rows[k].state = "retired" /\ k \in Ids
  BY <1>1, <1>2 DEF In
<1>4. \A k \in Newest(retired) : rows[k].origin = "shared"
  BY <1>3 DEF Unused, Own, States
<1>5. Newest(retired) \subseteq SharedRetired(rows)'
  BY <1>3, <1>4 DEF SharedRetired, In
<1>6. Cardinality(retired) >= KeepRetired
  <2>1. CASE Unused(rows)
    <3>1. SharedRetired(rows) \subseteq retired
      BY DEF SharedRetired
    <3>2. Cardinality(SharedRetired(rows)) >= KeepRetired
      BY <2>1 DEF Evident
    <3> HIDE DEF retired, SharedRetired
    <3>3. Cardinality(SharedRetired(rows)) <= Cardinality(retired)
      BY <1>2, <3>1, IdsFinite, FS_Subset
    <3> QED
      BY <1>2, <3>1, <3>2, <3>3, IdsFinite
  <2>2. CASE ~Unused(rows)
    <3>1. PICK k \in Own(rows) : rows[k].state # "next"
      BY <2>2 DEF Unused
    <3>2. k \in retired \ Newest(retired)
      BY <1>1, <3>1 DEF Unused, Own
    <3> DEFINE Above == {m \in retired : m > k}
    <3>3. ~(Cardinality(Above) < KeepRetired)
      BY <3>2 DEF Newest
    <3>4. Above \subseteq retired
      OBVIOUS
    <3> HIDE DEF retired, Above
    <3>5. Cardinality(Above) <= Cardinality(retired)
      BY <1>2, <3>4, IdsFinite, FS_Subset
    <3> QED
      BY <1>2, <3>3, <3>4, <3>5, IdsFinite
  <2> QED
    BY <2>1, <2>2
<1>7. SharedRetired(rows)' \subseteq Ids
  BY DEF SharedRetired, In
<1> HIDE DEF retired, SharedRetired
<1>8. Cardinality(Newest(retired)) >= KeepRetired
  BY <1>2, <1>6, NewestMany
<1>9. Cardinality(Newest(retired)) <= Cardinality(SharedRetired(rows)')
  BY <1>5, <1>7, IdsFinite, FS_Subset
<1> QED
  BY <1>2, <1>5, <1>7, <1>8, <1>9, IdsFinite

LEMMA EvidentStep ==
  ASSUME Owned, [Next]_vars, ownFrom # None => Evident(rows), ownFrom' # None
  PROVE  Evident(rows)'
<1>0. IInv /\ Paced /\ TypeOK
  BY DEF Owned, Paced
<1>k. ASSUME ownFrom # None, NEW k \in Ids, rows[k].state = "none",
             \A m \in Ids \ {k} : rows'[m] = rows[m]
      PROVE  Evident(rows)'
  <2>1. \A m \in Own(rows) : m # k /\ m \in Ids /\ rows'[m] = rows[m]
    BY <1>k DEF Own, States
  <2>2. \A m \in SharedRetired(rows) : m # k /\ m \in Ids /\ rows'[m] = rows[m]
    BY <1>k DEF SharedRetired, In
  <2>3. SharedRetired(rows) \subseteq SharedRetired(rows)'
    BY <2>2 DEF SharedRetired, In
  <2>4. \A m \in Own(rows) : m \in Own(rows)'
    BY <2>1 DEF Own
  <2> QED
    BY <1>k, <2>1, <2>3, <2>4, EvidentKept
<1>m. ASSUME ownFrom # None, NEW k \in Ids, rows[k].state = "deleted",
             \A m \in Ids \ {k} : rows'[m] = rows[m],
             rows'[k].state = rows[k].state
      PROVE  Evident(rows)'
  <2>1. \A m \in Own(rows) : m # k /\ m \in Ids /\ rows'[m] = rows[m]
    BY <1>m DEF Own, States
  <2>2. \A m \in SharedRetired(rows) : m # k /\ m \in Ids /\ rows'[m] = rows[m]
    BY <1>m DEF SharedRetired, In
  <2>3. SharedRetired(rows) \subseteq SharedRetired(rows)'
    BY <2>2 DEF SharedRetired, In
  <2>4. \A m \in Own(rows) : m \in Own(rows)'
    BY <2>1 DEF Own
  <2> QED
    BY <1>m, <2>1, <2>3, <2>4, EvidentKept
<1>u. ASSUME rows' = rows, ownFrom' = ownFrom PROVE Evident(rows)'
  BY <1>u
<1>1. CASE Rests
  BY <1>1, <1>u DEF Rests, history
<1>2. ASSUME NEW c \in Calls,
             BeginsCreation(c) \/ BeginsRotation(c) \/ BeginsActivation(c) \/ BeginsRetirement(c)
      PROVE  Evident(rows)'
  BY <1>2, <1>u
  DEF BeginsCreation, BeginsRotation, BeginsActivation, BeginsRetirement, db, history
<1>6. ASSUME NEW c \in Calls, WritesKey(c) PROVE Evident(rows)'
  <2>1. PICK k \in Ids : Insert(k, "active", "created")
    BY <1>6 DEF WritesKey
  <2> QED
    BY <1>0, <2>1, InsertEffect, Shows
<1>7. ASSUME NEW c \in Calls, InsertsNext(c) PROVE Evident(rows)'
  <2>1. PICK k \in Ids : Insert(k, "next", "rotated")
    BY <1>7 DEF InsertsNext
  <2>2. ownFrom' = ownFrom
    BY <1>7 DEF InsertsNext, history
  <2> QED
    BY <1>0, <1>k, <2>1, <2>2, InsertEffect
<1>8. ASSUME NEW c \in Calls, RetireOld(c) PROVE Evident(rows)'
  <2>1. PICK k \in call[c].old : Erase(k)
    BY <1>8 DEF RetireOld
  <2>2. k \in Ids /\ ownFrom' = ownFrom
    BY <1>0, <1>8 DEF RetireOld, history, TypeOK, Call
  <2>3. CASE rows[k].state = "deleted"
    BY <1>0, <1>m, <2>1, <2>2, <2>3, EraseEffect
  <2>4. CASE rows[k].state # "deleted" /\ rows[k].origin # "shared"
    BY <1>0, <2>1, <2>2, <2>4, EraseEffect, Shows
  <2>5. CASE rows[k].state # "deleted" /\ rows[k].origin = "shared"
    <3>1. /\ rows'[k].state = "retired" /\ rows'[k].origin = "shared"
          /\ \A m \in Ids \ {k} : rows'[m] = rows[m]
      BY <1>0, <2>1, <2>2, <2>5, EraseEffect
    <3>2. \A m \in Own(rows) : m # k /\ m \in Ids /\ rows'[m] = rows[m]
      BY <2>5, <3>1 DEF Own
    <3>3. \A m \in Own(rows) : m \in Own(rows)'
      BY <3>2 DEF Own
    <3>4. SharedRetired(rows) \subseteq SharedRetired(rows)'
      BY <2>2, <3>1 DEF SharedRetired, In
    <3> QED
      BY <2>2, <3>2, <3>3, <3>4, EvidentKept
  <2> QED
    BY <2>3, <2>4, <2>5
<1>9. ASSUME NEW c \in Calls, Demote(c) PROVE Evident(rows)'
  <2> DEFINE a == call[c].active
  <2>1. a \in Ids /\ rows[a].origin # "shared" /\ Move(a, "previous") /\ ownFrom' = ownFrom
    BY <1>0, <1>9 DEF Demote, Owned, CallsMoveOwn, TypeOK, Call
  <2> HIDE DEF a
  <2>2. CASE rows[a].state = "deleted"
    BY <1>0, <1>m, <2>1, <2>2, MoveEffect
  <2>3. CASE rows[a].state # "deleted"
    BY <1>0, <2>1, <2>3, MoveEffect, Shows
  <2> QED
    BY <2>2, <2>3
<1>10. ASSUME NEW c \in Calls, AddShared(c) PROVE Evident(rows)'
  <2>1. PICK k \in Ids : Insert(k, "previous", "shared")
    BY <1>10 DEF AddShared
  <2>2. ownFrom' = ownFrom
    BY <1>10 DEF AddShared, history
  <2> QED
    BY <1>0, <1>k, <2>1, <2>2, InsertEffect
<1>11. ASSUME NEW c \in Calls, Promotes(c) PROVE Evident(rows)'
  <2> DEFINE n == call[c].next
  <2>1. n \in Ids /\ Move(n, "active") /\ rows[n].origin = "rotated"
    <3>1. n # None
      BY <1>0, <1>11, ConstantsAssumption DEF ConstantsAssumption, Promotes, Ids
    <3> QED
      BY <1>11, <3>1 DEF Promotes, Promote, Owned, CallsMoveOwn, Activating
  <2> HIDE DEF n
  <2>2. CASE rows[n].state = "deleted"
    <3>1. ownFrom # None
      BY <2>1, <2>2 DEF Owned, NoneYet
    <3> QED
      BY <1>0, <1>m, <2>1, <2>2, <3>1, MoveEffect
  <2>3. CASE rows[n].state # "deleted"
    BY <1>0, <2>1, <2>3, MoveEffect, Shows
  <2> QED
    BY <2>2, <2>3
<1>12. ASSUME NEW c \in Calls, Prune(c) PROVE Evident(rows)'
  <2>1. ownFrom' = ownFrom
    BY <1>12 DEF Prune, history
  <2> QED
    BY <1>12, <2>1, PrunedEvident
<1> QED
  BY <1>0, <1>1, <1>2, <1>6, <1>7, <1>8, <1>9, <1>10, <1>11, <1>12, Kinds

LEMMA OwnFromStep ==
  ASSUME Paced, [Next]_vars
  PROVE  /\ ownFrom # None => ownFrom' = ownFrom
         /\ ownFrom' # ownFrom => ownFrom = None /\ ownFrom' = now /\ now' = now
<1>1. CASE Rests
  BY <1>1 DEF Rests, history
<1>2. ASSUME NEW c \in Calls,
             \/ BeginsCreation(c) \/ BeginsRotation(c) \/ BeginsActivation(c)
             \/ BeginsRetirement(c) \/ WritesKey(c) \/ InsertsNext(c)
             \/ RetireOld(c) \/ Demote(c) \/ AddShared(c) \/ Promotes(c) \/ Prune(c)
      PROVE  /\ ownFrom # None => ownFrom' = ownFrom
             /\ ownFrom' # ownFrom => ownFrom = None /\ ownFrom' = now /\ now' = now
  BY <1>2
  DEF BeginsCreation, BeginsRotation, BeginsActivation, BeginsRetirement, WritesKey, InsertsNext,
      RetireOld, Demote, AddShared, Promotes, Promote, Prune, db, history
<1> QED
  BY <1>1, <1>2, Kinds

LEMMA CopyTypes ==
  Paced => \A x \in Copies : x.until \in Nat /\ now < x.until /\ x.until <= now + Window
  BY CopyType

LEMMA CopyTypesNext ==
  Paced' => \A x \in Copies' : x.until \in Nat /\ now' < x.until /\ x.until <= now' + Window
<1>1. (Paced => \A x \in Copies : x.until \in Nat /\ now < x.until /\ x.until <= now + Window)'
  BY CopyTypes, PTL
<1> QED
  BY <1>1 DEF Window

LEMMA OInvStep == OInv /\ [Next]_vars => OInv'
<1> SUFFICES ASSUME OInv, [Next]_vars PROVE OInv'
  OBVIOUS
<1>0. Owned /\ Owned' /\ Paced /\ Paced'
  BY OwnedStep DEF OInv, Owned
<1> SUFFICES ASSUME ownFrom' # None
             PROVE  /\ Evident(rows)'
                    /\ \A x \in Copies' : x.until <= ownFrom' + Window \/ Evident(x.view)'
  BY <1>0 DEF OInv, Evidence
<1>1. Evident(rows)'
  BY <1>0, EvidentStep DEF OInv, Evidence
<1>2. \A v : Evident(v)' <=> Evident(v)
  BY DEF Evident, Unused, SharedRetired, Own, In
<1>3. ASSUME NEW x \in Copies' PROVE x.until <= ownFrom' + Window \/ Evident(x.view)
  <2>1. CASE ownFrom = None
    <3>1. ownFrom' = now' /\ x.until <= now' + Window
      BY <1>0, <1>3, <2>1, OwnFromStep, CopyTypesNext
    <3> QED
      BY <3>1
  <2>2. CASE ownFrom # None
    <3>0. /\ ownFrom' = ownFrom /\ ownFrom + Window \in Nat /\ Evident(rows)
          /\ \A y \in Copies : y.until <= ownFrom + Window \/ Evident(y.view)
      BY <1>0, <2>2, OwnFromStep, ConstantsAssumption
      DEF OInv, Evidence, Paced, TypeOK, Window, ConstantsAssumption
    <3>1. CASE \E i \in Isolates : Load(i)
      BY <1>0, <1>3, <3>0, <3>1, LoadCopies
    <3>2. CASE ~\E i \in Isolates : Load(i)
      <4>1. PICK y \in Copies : y.view = x.view /\ x.until <= y.until
        BY <1>0, <1>3, <3>2, CopiesHeld DEF Held
      <4>2. x.until \in Nat /\ y.until \in Nat
        BY <1>0, <1>3, CopyType, CopyTypesNext
      <4> QED
        BY <3>0, <4>1, <4>2
    <3> QED
      BY <3>1, <3>2
  <2> QED
    BY <2>1, <2>2
<1> QED
  BY <1>1, <1>2, <1>3

(* What an isolate works with is the rows or a copy of them. *)
LEMMA InUseCopies ==
  ASSUME Paced, NEW v \in InUse
  PROVE  v = rows \/ \E x \in Copies : x.view = v
<1>1. CASE v = rows
  BY <1>1
<1>2. ASSUME NEW i \in Isolates, Valid(i), v = cache[i].view
      PROVE  \E x \in Copies : x.view = v
  <2>1. cache[i] \in Copies
    BY <1>2 DEF Valid, Copies
  <2> QED
    BY <1>2, <2>1
<1>3. ASSUME NEW i \in Isolates, loading[i] # None, v = loading[i].view
      PROVE  \E x \in Copies : x.view = v
  <2> DEFINE x == [view |-> loading[i].view, until |-> loading[i].at + Window]
  <2>1. x \in Copies /\ x.view = v
    BY <1>3 DEF Copies
  <2> QED
    BY <2>1
<1> QED
  BY <1>1, <1>2, <1>3 DEF InUse

(* The shared key signs for rows with no active key, and no own one but a next key. *)
LEMMA SharedSigns == ASSUME NEW v, Signer(v) = Shared PROVE Unused(v) /\ In(v, "active") = {} /\ owner # "root"
<1>1. ASSUME NEW k \in Ids PROVE k # Shared
  BY <1>1, ConstantsAssumption DEF ConstantsAssumption
<1> DEFINE usable == {k \in In(v, "active") : v[k].key}
<1>2. usable # {} => (CHOOSE k \in usable : TRUE) \in usable
  OBVIOUS
<1>3. usable \subseteq Ids
  BY DEF In
<1>4. None # Shared
  BY ConstantsAssumption DEF ConstantsAssumption
<1> HIDE DEF usable
<1>5. Signer(v) = IF owner # "root" /\ In(v, "active") = {} /\ \A k \in Own(v) : v[k].state = "next"
                    THEN Shared
                  ELSE IF Cardinality(In(v, "active")) = 1 /\ usable # {}
                    THEN CHOOSE k \in usable : TRUE ELSE None
  BY DEF Signer, usable
<1> QED
  BY <1>1, <1>2, <1>3, <1>4, <1>5 DEF Unused

(* Beyond the time for which isolates may use what they read before its first own key became *)
(* active, nothing signs for the owner with the shared key: whichever calls race, are cut    *)
(* short or repeated, and however often administrators force or hurry.                       *)
THEOREM SharedKeyIsOut == Spec => []SharedExpires
<1>1. ASSUME OInv PROVE SharedExpires
  <2>0. Paced /\ now \in Nat
    BY <1>1 DEF OInv, Owned, Paced, TypeOK
  <2> SUFFICES ASSUME ownFrom # None, now >= ownFrom + CacheTime + Lag, NEW v \in InUse,
                      Cardinality({k \in In(v, "retired") : v[k].origin = "shared"}) < KeepRetired,
                      Signer(v) = Shared
               PROVE  FALSE
    BY DEF SharedExpires
  <2>1. Unused(v)
    BY SharedSigns
  <2>2. ~Evident(v)
    <3>1. Cardinality(SharedRetired(v)) < KeepRetired
      BY DEF SharedRetired
    <3>2. Cardinality(SharedRetired(v)) \in Nat
      BY IdsFinite DEF SharedRetired, In
    <3> QED
      BY <2>1, <3>1, <3>2, ConstantsAssumption DEF ConstantsAssumption, Evident
  <2>3. CASE v = rows
    BY <1>1, <2>2, <2>3 DEF OInv, Evidence
  <2>4. ASSUME NEW x \in Copies, x.view = v PROVE FALSE
    <3>1. now < x.until /\ x.until \in Nat
      BY <2>0, CopyType
    <3>2. x.until <= ownFrom + Window
      BY <1>1, <2>2, <2>4 DEF OInv, Evidence
    <3>3. ownFrom \in Nat
      BY <2>0 DEF Paced, TypeOK
    <3> QED
      BY <2>0, <3>1, <3>2, <3>3, ConstantsAssumption DEF ConstantsAssumption, Window
  <2> QED
    BY <2>0, <2>3, <2>4, InUseCopies
<1> QED
  BY <1>1, OInvInit, OInvStep, PTL DEF Spec

-----------------------------------------------------------------------------
(* One call creates the tenant, and the root has a key from the start. *)
Lone ==
  /\ Creating => owner = "tenant"
  /\ \A c, d \in Calls : At(c, "writeKey") /\ At(d, "writeKey") => c = d
  /\ owner = "root" => ownFrom # None

LEMMA LoneInit == Init => Lone
  BY ConstantsAssumption DEF ConstantsAssumption, Init, Lone, Creating, At, Idle

LEMMA LoneStep == Paced /\ Lone /\ [Next]_vars => Lone'
<1> SUFFICES ASSUME Paced, Lone, [Next]_vars PROVE Lone'
  OBVIOUS
<1>0. TypeOK
  BY DEF Paced
<1>a. /\ \A c \in Calls : call[c].pc = "writeKey" => owner = "tenant"
      /\ \A c, d \in Calls : call[c].pc = "writeKey" /\ call[d].pc = "writeKey" => c = d
      /\ owner = "root" => ownFrom # None
  BY DEF Lone, Creating, At
<1>r. (owner' = "root" => owner = "root") => (owner' = "root" => ownFrom' # None)
  BY <1>0, <1>a, OwnFromStep DEF Paced
<1>k. ASSUME owner' = owner, \A c \in Calls : call'[c].pc = "writeKey" => call[c].pc = "writeKey"
      PROVE  Lone'
  BY <1>a, <1>k, <1>r DEF Lone, Creating, At
<1>o. ASSUME NEW c \in Calls, owner' = owner, call'[c].pc # "writeKey",
             \A d \in Calls \ {c} : call'[d] = call[d]
      PROVE  Lone'
  BY <1>k, <1>o
<1>1. CASE Rests
  <2>1. CASE UNCHANGED <<owner, call>>
    BY <1>k, <2>1
  <2>2. ASSUME NEW c \in Calls, Returned(c), UNCHANGED owner PROVE Lone'
    BY <1>o, <2>2, IdleFields DEF Returned
  <2>3. ASSUME NEW c \in Calls, Returned(c), At(c, "writeKey"), owner' = "absent" PROVE Lone'
    <3>1. \A d \in Calls : call'[d].pc # "writeKey"
      BY <1>a, <2>3, IdleFields DEF Returned, At
    <3> QED
      BY <1>r, <2>3, <3>1 DEF Lone, Creating, At
  <2> QED
    BY <1>1, <2>1, <2>2, <2>3 DEF Rests
<1>2. ASSUME NEW c \in Calls, BeginsCreation(c) PROVE Lone'
  <2>1. \A d \in Calls : call'[d].pc = "writeKey" => d = c
    BY <1>2, <1>a DEF BeginsCreation, Began
  <2> QED
    BY <1>2, <1>r, <2>1 DEF BeginsCreation, Lone, Creating, At
<1>3. ASSUME NEW c \in Calls, BeginsRotation(c) PROVE Lone'
  BY <1>3, <1>o DEF BeginsRotation, Began, db
<1>4. ASSUME NEW c \in Calls, BeginsActivation(c) PROVE Lone'
  <2>1. call'[c].pc # "writeKey" /\ \A d \in Calls \ {c} : call'[d] = call[d]
    BY <1>4 DEF BeginsActivation, Began
  <2> QED
    BY <1>4, <1>o, <2>1 DEF BeginsActivation, db
<1>5. ASSUME NEW c \in Calls, BeginsRetirement(c) PROVE Lone'
  BY <1>5, <1>o DEF BeginsRetirement, Began, db
<1>6. ASSUME NEW c \in Calls, WritesKey(c) \/ InsertsNext(c) PROVE Lone'
  BY <1>6, <1>o, IdleFields DEF WritesKey, InsertsNext, Returned
<1>8. ASSUME NEW c \in Calls, RetireOld(c) PROVE Lone'
  <2>1. PICK k \in call[c].old : call' = [call EXCEPT ![c].old = @ \ {k}]
    BY <1>8 DEF RetireOld
  <2> QED
    BY <1>0, <1>8, <1>o, <2>1, RetireOldEffect DEF RetireOld, At
<1>9. ASSUME NEW c \in Calls, Demote(c) PROVE Lone'
  BY <1>0, <1>9, <1>o, DemoteEffect DEF Demote
<1>10. ASSUME NEW c \in Calls, AddShared(c) PROVE Lone'
  BY <1>0, <1>10, <1>o, AddSharedEffect DEF AddShared
<1>11. ASSUME NEW c \in Calls, Promotes(c) PROVE Lone'
  BY <1>0, <1>11, <1>o, PromoteEffect DEF Promotes, Promote
<1>12. ASSUME NEW c \in Calls, Prune(c) PROVE Lone'
  BY <1>0, <1>12, <1>o, IdleFields, ReturnEffect DEF Prune
<1> QED
  BY <1>1, <1>2, <1>3, <1>4, <1>5, <1>6, <1>8, <1>9, <1>10, <1>11, <1>12, Kinds

-----------------------------------------------------------------------------
(* The order that waiting keeps. *)

(* Before the tenant's first key nothing happens. *)
Clean ==
  owner = "absent" \/ Creating =>
    /\ \A k \in Ids : rows[k].state = "none"
    /\ \A c \in Calls : call[c].pc \in {"idle", "writeKey"}

(* The activations under way are of one row, which none of them, and no retirement, undoes. *)
Agreed ==
  \A c, d \in Calls : Activating(c) /\ Activating(d) => call[c].next = call[d].next
NextGoesOn ==
  \A c \in Calls : Activating(c) => rows[call[c].next].state \in {"next", "active"}

(* The row they take it over from stays, whichever of them is first, a previous one. *)
ActiveGivesWay ==
  \A c \in Calls :
    call[c].active # None =>
      \/ rows[call[c].active].state = "active" /\ rows[call[c].next].state = "next"
      \/ /\ rows[call[c].active].state = "previous"
         /\ \/ rows[call[c].next].state = "active"
            \/ rows[call[c].next].state = "next" /\ In(rows, "active") = {}

OldIsOver ==
  \A c \in Calls : \A k \in call[c].old : rows[k].state \in {"previous", "retired", "deleted"}
OldIsNotActive ==
  \A c, d \in Calls :
    call[c].active # None /\ At(d, "retire") => call[c].active \notin call[d].old

(* A rotation begins after the activation of the key before it has ended, or has ended by then. *)
RotationsInOrder ==
  /\ \A c \in Calls :
       Activating(c) /\ rows[call[c].next].state = "active" =>
         /\ In(rows, "next") # {} => call[c].at <= nextFrom
         /\ \A r \in Calls : At(r, "insert") => call[c].at <= call[r].at
  /\ \A c, r \in Calls : Activating(c) /\ At(r, "insert") => rows[call[c].next].state # "next"
  /\ In(rows, "next") # {} => \A r \in Calls : At(r, "insert") => call[r].at <= nextFrom + Lag

Orderly ==
  Clean /\ Agreed /\ NextGoesOn /\ ActiveGivesWay /\ OldIsOver /\ OldIsNotActive /\ RotationsInOrder

KInv == Paced /\ Lone /\ (~hasty => Orderly)

LEMMA KInvInit == Init => KInv
<1> SUFFICES ASSUME Init PROVE KInv
  OBVIOUS
<1>1. \A c \in Calls : call[c] = Idle
  BY DEF Init
<1>2. owner = "absent" \/ Creating => \A k \in Ids : rows[k].state = "none"
  BY <1>1, IdleFields DEF Init, NoRow, Creating, At
<1> QED
  BY <1>1, <1>2, IdleFields, PacedInit, LoneInit
  DEF KInv, Orderly, Clean, Agreed, NextGoesOn, ActiveGivesWay, OldIsOver, OldIsNotActive,
      RotationsInOrder, Activating, At

LEMMA CleanStep ==
  ASSUME Paced, Lone, Clean, ~hasty', [Next]_vars
  PROVE  Clean'
<1>0. TypeOK
  BY DEF Paced
<1>a. owner = "absent" \/ (\E c \in Calls : call[c].pc = "writeKey") =>
        /\ \A k \in Ids : rows[k].state = "none"
        /\ \A c \in Calls : call[c].pc \in {"idle", "writeKey"}
  BY DEF Clean, Creating, At
<1>v. ASSUME NEW c \in Calls, call[c].pc \notin {"idle", "writeKey"}, owner' = owner,
             call'[c].pc # "writeKey", \A d \in Calls \ {c} : call'[d] = call[d]
      PROVE  Clean'
  BY <1>a, <1>v DEF Clean, Creating, At
<1>w. ASSUME NEW c \in Calls, NEW k \in Ids, rows[k].state # "none", owner' = owner,
             call'[c].pc # "writeKey", \A d \in Calls \ {c} : call'[d] = call[d]
      PROVE  Clean'
  BY <1>a, <1>w DEF Clean, Creating, At
<1>1. CASE Rests
  <2>1. rows' = rows
    BY <1>1 DEF Rests
  <2>2. CASE UNCHANGED <<owner, call>>
    BY <1>a, <2>1, <2>2 DEF Clean, Creating, At
  <2>3. ASSUME NEW c \in Calls, Returned(c), owner' = owner \/ At(c, "writeKey")
        PROVE  Clean'
    BY <1>a, <2>1, <2>3, IdleFields DEF Clean, Creating, At, Returned
  <2> QED
    BY <1>1, <2>2, <2>3 DEF Rests
<1>2. ASSUME NEW c \in Calls, BeginsCreation(c) PROVE Clean'
  BY <1>2, <1>a DEF BeginsCreation, Began, Clean
<1>3. ASSUME NEW c \in Calls, BeginsRotation(c) PROVE Clean'
  <2>1. ~Creating /\ owner # "absent" /\ owner' = owner
    BY <1>3 DEF BeginsRotation, Lone, db
  <2>2. ~Creating'
    BY <1>3, <2>1 DEF BeginsRotation, Began, Creating, At
  <2> QED
    BY <2>1, <2>2 DEF Clean
<1>4. ASSUME NEW c \in Calls, BeginsActivation(c) PROVE Clean'
  <2>1. PICK n \in In(rows, "next") :
          call'[c].pc # "writeKey" /\ \A d \in Calls \ {c} : call'[d] = call[d]
    BY <1>4 DEF BeginsActivation, Began
  <2>2. n \in Ids /\ rows[n].state # "none" /\ owner' = owner
    BY <1>4 DEF BeginsActivation, In, db
  <2> QED
    BY <1>w, <2>1, <2>2
<1>5. ASSUME NEW c \in Calls, BeginsRetirement(c) PROVE Clean'
  <2>1. PICK n \in In(rows, "active") : TRUE
    BY <1>5 DEF BeginsRetirement, Waited
  <2>2. n \in Ids /\ rows[n].state # "none" /\ owner' = owner
    BY <1>5 DEF BeginsRetirement, In, db
  <2> QED
    BY <1>5, <1>w, <2>2 DEF BeginsRetirement, Began
<1>6. ASSUME NEW c \in Calls, WritesKey(c) PROVE Clean'
  <2>1. owner' = "tenant" /\ ~Creating'
    BY <1>6, IdleFields DEF WritesKey, Returned, Lone, Creating, At
  <2> QED
    BY <2>1 DEF Clean
<1>7. ASSUME NEW c \in Calls, InsertsNext(c) PROVE Clean'
  BY <1>7, <1>v, IdleFields DEF InsertsNext, Returned, At
<1>8. ASSUME NEW c \in Calls, RetireOld(c) PROVE Clean'
  <2>1. PICK k \in call[c].old : call' = [call EXCEPT ![c].old = @ \ {k}]
    BY <1>8 DEF RetireOld
  <2> QED
    BY <1>0, <1>8, <1>v, <2>1, RetireOldEffect DEF RetireOld, At
<1>9. ASSUME NEW c \in Calls, Demote(c) PROVE Clean'
  BY <1>0, <1>9, <1>v, DemoteEffect DEF Demote, At
<1>10. ASSUME NEW c \in Calls, AddShared(c) PROVE Clean'
  BY <1>0, <1>10, <1>v, AddSharedEffect DEF AddShared, At
<1>11. ASSUME NEW c \in Calls, Promotes(c) PROVE Clean'
  BY <1>0, <1>11, <1>v, PromoteEffect DEF Promotes, Promote, At
<1>12. ASSUME NEW c \in Calls, Prune(c) PROVE Clean'
  BY <1>0, <1>12, <1>v, IdleFields, ReturnEffect DEF Prune, At
<1> QED
  BY <1>0, <1>1, <1>2, <1>3, <1>4, <1>5, <1>6, <1>7, <1>8, <1>9, <1>10, <1>11, <1>12, Kinds
  DEF Paced

(* The rest of the order, when calls go on or return and no row changes its part in it. *)
LEMMA OrderlyKept ==
  ASSUME Paced, Orderly, Clean', nextFrom' = nextFrom,
         \A k \in Ids : rows'[k].state # rows[k].state =>
                          rows[k].state \in {"none", "previous", "retired"} /\
                          rows'[k].state \in {"previous", "retired", "deleted"},
         \A c \in Calls : call[c].active # None =>
           rows'[call[c].active].state = rows[call[c].active].state,
         \A c \in Calls : /\ call'[c].next \in {call[c].next, None}
                          /\ call'[c].active \in {call[c].active, None}
                          /\ call'[c].active # None => call'[c].next # None
                          /\ call'[c].old \subseteq call[c].old
                          /\ call'[c].pc \in {call[c].pc, "idle", "writeKey", "promote", "prune"}
                          /\ call'[c].next # None \/ call'[c].pc = "insert" =>
                               call'[c].at = call[c].at
  PROVE  Orderly'
<1>1. \A c \in Calls : /\ call[c].next \in Ids \cup {None} /\ call[c].active \in Ids \cup {None}
                       /\ call[c].old \subseteq Ids
  BY DEF Paced, TypeOK, Call
<1>2. \A k \in Ids : (rows'[k].state = "next" <=> rows[k].state = "next") /\
                     (rows'[k].state = "active" <=> rows[k].state = "active")
  OBVIOUS
<1>3. In(rows, "next")' = In(rows, "next") /\ In(rows, "active")' = In(rows, "active")
  BY <1>2 DEF In
<1>4. Agreed'
  BY DEF Orderly, Agreed, Activating
<1>5. NextGoesOn'
  BY <1>1, <1>2 DEF Orderly, NextGoesOn, Activating
<1>6. ActiveGivesWay'
  BY <1>1, <1>2, <1>3 DEF Orderly, ActiveGivesWay
<1>7. OldIsOver'
  BY <1>1 DEF Orderly, OldIsOver
<1>8. OldIsNotActive'
  BY <1>1 DEF Orderly, OldIsNotActive, At
<1>9. RotationsInOrder'
  BY <1>1, <1>2, <1>3 DEF Orderly, RotationsInOrder, Activating, At
<1> QED
  BY <1>4, <1>5, <1>6, <1>7, <1>8, <1>9 DEF Orderly

(* Whoever waited published the next key for longer than any two calls take together. *)
NextOutlastsCalls == MinPublished > 2 * Lag

LEMMA RotationOrderly ==
  ASSUME Paced, Orderly, Clean', rows' = rows, nextFrom' = nextFrom, now' = now,
         NEW c \in Calls, At(c, "idle"), In(rows, "next") = {}, Began(c, "insert", None, None, {})
  PROVE  Orderly'
<1>0. \A d \in Calls : call[d].next # None => call[d].pc # "idle" /\ call[d].at <= now
  BY DEF Paced, Shaped, Timely, Activating, At
<1>1. \A d \in Calls : /\ call[d].next \in Ids \cup {None} /\ call[d].active \in Ids \cup {None}
  BY DEF Paced, TypeOK, Call
<1>2. In(rows, "next")' = {} /\ In(rows, "active")' = In(rows, "active")
  BY DEF In
<1>3. Agreed' /\ NextGoesOn' /\ OldIsOver'
  BY DEF Orderly, Agreed, NextGoesOn, OldIsOver, Activating, Began
<1>4. ActiveGivesWay'
  BY <1>2 DEF Orderly, ActiveGivesWay, Began
<1>5. OldIsNotActive'
  BY DEF Orderly, OldIsNotActive, Began, At
<1>6. \A d \in Calls : Activating(d) => rows[call[d].next].state # "next"
  BY <1>1, ConstantsAssumption DEF In, Activating
<1>7. RotationsInOrder'
  BY <1>0, <1>2, <1>6 DEF Orderly, RotationsInOrder, Activating, At, Began
<1> QED
  BY <1>3, <1>4, <1>5, <1>7 DEF Orderly

LEMMA RetirementOrderly ==
  ASSUME Paced, Orderly, Clean', UNCHANGED <<rows, nextFrom, now>>,
         NEW c \in Calls, At(c, "idle"), Waited, Began(c, "retire", None, None, In(rows, "previous"))
  PROVE  Orderly'
<1>1. \A d \in Calls : call'[d].next = None
  BY DEF Waited, Began
<1>2. \A d \in Calls : call'[d].active = None
  BY DEF Waited, Began, Paced, TypeOK, WellFormed
<1>3. OldIsOver'
  BY DEF Orderly, OldIsOver, Began, In
<1>4. RotationsInOrder'
  BY <1>1 DEF Orderly, RotationsInOrder, Activating, At, Began, In
<1> QED
  BY <1>1, <1>2, <1>3, <1>4
  DEF Orderly, Agreed, NextGoesOn, ActiveGivesWay, OldIsNotActive, Activating

(* An activation begins when those of earlier keys and the rotations before it are over. *)
LEMMA ActivationWaited ==
  ASSUME NextOutlastsCalls, Paced, Orderly, now >= nextFrom + MinPublished,
         NEW n \in In(rows, "next")
  PROVE  /\ \A d \in Calls : Activating(d) => call[d].next = n
         /\ \A r \in Calls : ~At(r, "insert")
<1> USE ConstantsAssumption DEF ConstantsAssumption, NextOutlastsCalls
<1>0. now \in Nat /\ nextFrom \in Nat /\ n \in Ids /\ rows[n].state = "next"
  BY DEF Paced, TypeOK, In
<1>1. \A d \in Calls : /\ call[d].at \in Nat /\ call[d].next \in Ids \cup {None}
                       /\ ~At(d, "idle") => now <= call[d].at + Lag
                       /\ Activating(d) => ~At(d, "idle")
  BY DEF Paced, TypeOK, Call, Timely, Shaped, At
<1>2. ASSUME NEW r \in Calls, At(r, "insert") PROVE FALSE
  <2>1. call[r].at <= nextFrom + Lag
    BY <1>2 DEF Orderly, RotationsInOrder
  <2>2. now <= call[r].at + Lag
    BY <1>1, <1>2 DEF At
  <2>3. call[r].at \in Nat
    BY <1>1
  <2> QED
    BY <1>0, <2>1, <2>2, <2>3
<1>3. ASSUME NEW d \in Calls, Activating(d), call[d].next # n PROVE FALSE
  <2>1. call[d].next \in Ids /\ rows[call[d].next].state \in {"next", "active"}
    BY <1>1, <1>3 DEF Orderly, NextGoesOn, Activating
  <2>2. rows[call[d].next].state = "active"
    BY <1>0, <1>3, <2>1 DEF Paced, OneEach
  <2>3. call[d].at <= nextFrom
    BY <1>3, <2>2 DEF Orderly, RotationsInOrder
  <2>4. now <= call[d].at + Lag /\ call[d].at \in Nat
    BY <1>1, <1>3
  <2> QED
    BY <1>0, <2>3, <2>4
<1> QED
  BY <1>2, <1>3

LEMMA ActivationOrderly ==
  ASSUME NextOutlastsCalls, Paced, Orderly, Clean', UNCHANGED <<rows, nextFrom, now>>,
         now >= nextFrom + MinPublished,
         NEW c \in Calls, At(c, "idle"), NEW n \in In(rows, "next"), NEW pc, NEW active, NEW old,
         Began(c, pc, n, active, old), old \subseteq In(rows, "previous"),
         \/ pc = "retire" /\ active \in In(rows, "active")
         \/ pc \in {"promote", "addShared"} /\ active = None /\ In(rows, "active") = {}
  PROVE  Orderly'
<1>0. n \in Ids /\ rows[n].state = "next" /\ n # None
  BY ConstantsAssumption DEF ConstantsAssumption, In, Ids
<1>1. /\ \A d \in Calls : Activating(d) => call[d].next = n
      /\ \A r \in Calls : ~At(r, "insert")
  BY ActivationWaited
<1>2. \A d \in Calls : /\ call[d].next \in Ids \cup {None} /\ call[d].active \in Ids \cup {None}
                       /\ call[d].active # None => call[d].next # None
  BY DEF Paced, TypeOK, Call, WellFormed
<1>3. \A d \in Calls : call'[d].next # None => call'[d].next = n
  BY <1>1 DEF Began, Activating
<1>4. In(rows, "active")' = In(rows, "active") /\ In(rows, "next")' = In(rows, "next")
  BY DEF In
<1>5. Agreed' /\ NextGoesOn'
  BY <1>0, <1>3 DEF Agreed, NextGoesOn, Activating
<1>6. ActiveGivesWay'
  <2>1. ASSUME NEW d \in Calls, d # c, call'[d].active # None
        PROVE  \/ rows[call[d].active].state = "active" /\ rows[call[d].next].state = "next"
               \/ /\ rows[call[d].active].state = "previous"
                  /\ \/ rows[call[d].next].state = "active"
                     \/ rows[call[d].next].state = "next" /\ In(rows, "active") = {}
    BY <2>1 DEF Began, Orderly, ActiveGivesWay
  <2>2. active # None => rows[active].state = "active"
    BY DEF In
  <2> QED
    BY <1>0, <1>4, <2>1, <2>2 DEF ActiveGivesWay, Began
<1>7. OldIsOver'
  BY DEF Orderly, OldIsOver, Began, In
<1>8. OldIsNotActive'
  <2>1. active # None => active \in Ids /\ rows[active].state = "active"
    BY DEF In
  <2>2. ASSUME NEW d \in Calls, active # None PROVE active \notin call[d].old /\ active \notin old
    BY <2>1, <2>2 DEF Orderly, OldIsOver, In
  <2>3. ASSUME NEW d \in Calls, call[d].active # None, pc = "retire"
        PROVE  call[d].active \notin old
    <3>1. In(rows, "active") # {} /\ call[d].next = n
      BY <1>1, <1>2, <2>3 DEF Activating
    <3>2. rows[call[d].active].state = "active"
      BY <1>0, <2>3, <3>1 DEF Orderly, ActiveGivesWay
    <3> QED
      BY <3>2 DEF In
  <2> QED
    BY <2>2, <2>3 DEF Orderly, OldIsNotActive, Began, At
<1>9. RotationsInOrder'
  <2>1. \A r \in Calls : ~At(r, "insert")'
    BY <1>1 DEF Began, At
  <2>2. \A d \in Calls : Activating(d)' => rows'[call'[d].next].state = "next"
    BY <1>0, <1>3 DEF Activating
  <2> QED
    BY <2>1, <2>2 DEF RotationsInOrder
<1> QED
  BY <1>5, <1>6, <1>7, <1>8, <1>9 DEF Orderly

LEMMA FirstKeyOrderly ==
  ASSUME Paced, Orderly, Clean', NEW c \in Calls, WritesKey(c)
  PROVE  Orderly'
<1>1. /\ \A k \in Ids : rows[k].state = "none"
      /\ \A d \in Calls : call[d].pc \in {"idle", "writeKey"}
  BY DEF WritesKey, Orderly, Clean, Creating
<1>2. \A d \in Calls : call[d].next = None /\ call[d].active = None /\ call[d].old \subseteq Ids
  BY <1>1 DEF Paced, TypeOK, Call, Shaped, Activating, WellFormed
<1>3. \A d \in Calls : call[d].old = {}
  BY <1>1, <1>2 DEF Orderly, OldIsOver
<1>4. \A d \in Calls : /\ call'[d].next = None /\ call'[d].active = None /\ call'[d].old = {}
                       /\ call'[d].pc \in {"idle", "writeKey"}
  BY <1>1, <1>2, <1>3, IdleFields DEF WritesKey, Returned
<1> QED
  BY <1>4
  DEF Orderly, Agreed, NextGoesOn, ActiveGivesWay, OldIsOver, OldIsNotActive, RotationsInOrder,
      Activating, At

LEMMA InsertOrderly ==
  ASSUME Paced, Orderly, Clean', NEW c \in Calls, InsertsNext(c)
  PROVE  Orderly'
<1>0. TypeOK /\ now \in Nat
  BY DEF Paced, TypeOK
<1>1. PICK k \in Ids : Insert(k, "next", "rotated")
  BY DEF InsertsNext
<1>2. /\ rows[k].state = "none" /\ rows'[k].state = "next" /\ In(rows, "next") \subseteq {k}
      /\ \A m \in Ids \ {k} : rows'[m] = rows[m]
  BY <1>0, <1>1, InsertEffect DEF SlotFree
<1>3. In(rows, "next") = {} /\ In(rows, "active")' = In(rows, "active")
  BY <1>2 DEF In
<1>4. \A d \in Calls : /\ call[d].next \in Ids \cup {None} /\ call[d].active \in Ids \cup {None}
                       /\ call[d].old \subseteq Ids
                       /\ call[d].active # None => call[d].next # None
  BY <1>0 DEF TypeOK, Call, WellFormed
<1>5. \A d \in Calls : call'[d] = call[d] \/ call'[d] = Idle
  BY DEF InsertsNext, Returned
<1>6. \A d \in Calls : call[d].next # None => rows[call[d].next].state = "active"
  BY <1>3, <1>4 DEF Orderly, NextGoesOn, Activating, In
<1>7. \A d \in Calls : /\ call[d].next # k /\ call[d].active # k /\ k \notin call[d].old
  <2>1. k # None
    BY ConstantsAssumption DEF ConstantsAssumption, Ids
  <2> QED
    BY <1>2, <1>6, <2>1 DEF Orderly, ActiveGivesWay, OldIsOver
<1>8. Agreed' /\ NextGoesOn' /\ OldIsOver' /\ OldIsNotActive'
  BY <1>2, <1>4, <1>5, <1>6, <1>7, IdleFields
  DEF Orderly, Agreed, NextGoesOn, OldIsOver, OldIsNotActive, Activating, At
<1>9. ActiveGivesWay'
  BY <1>2, <1>3, <1>4, <1>5, <1>7, IdleFields DEF Orderly, ActiveGivesWay
<1>10. \A d \in Calls : Activating(d) => call[d].at <= call[c].at
  BY <1>6 DEF Orderly, RotationsInOrder, Activating, InsertsNext
<1>11. \A r \in Calls : At(r, "insert") => call[r].at <= call[c].at + Lag
  <2>1. \A r \in Calls : At(r, "insert") => call[r].at <= now /\ call[r].at \in Nat
    BY <1>0 DEF Paced, Timely, At, TypeOK, Call
  <2>2. now <= call[c].at + Lag /\ call[c].at + Lag \in Nat
    BY <1>0, ConstantsAssumption
    DEF ConstantsAssumption, Paced, Timely, At, TypeOK, Call, InsertsNext
  <2> QED
    BY <1>0, <2>1, <2>2
<1>12. RotationsInOrder'
  <2>1. nextFrom' = call[c].at
    BY DEF InsertsNext
  <2>2. \A d \in Calls : Activating(d)' => rows'[call'[d].next].state = "active"
    BY <1>2, <1>4, <1>5, <1>6, <1>7, IdleFields DEF Activating
  <2>3. \A d \in Calls : Activating(d)' => call'[d] = call[d] /\ Activating(d)
    BY <1>5, IdleFields DEF Activating
  <2>4. \A d \in Calls : At(d, "insert")' => call'[d] = call[d] /\ At(d, "insert")
    BY <1>5, IdleFields DEF At
  <2>5. \A d, r \in Calls : Activating(d) /\ At(r, "insert") => call[d].at <= call[r].at
    BY <1>6 DEF Orderly, RotationsInOrder, Activating
  <2> QED
    BY <1>10, <1>11, <2>1, <2>2, <2>3, <2>4, <2>5 DEF RotationsInOrder
<1> QED
  BY <1>8, <1>9, <1>12 DEF Orderly

LEMMA RetireOldOrderly ==
  ASSUME Paced, Orderly, Clean', NEW c \in Calls, RetireOld(c)
  PROVE  Orderly'
<1>0. TypeOK
  BY DEF Paced
<1>1. PICK k \in call[c].old : Erase(k) /\ call' = [call EXCEPT ![c].old = @ \ {k}]
  BY DEF RetireOld
<1>2. k \in Ids /\ rows[k].state \in {"previous", "retired", "deleted"} /\ nextFrom' = nextFrom
  BY <1>0 DEF RetireOld, TypeOK, Call, Orderly, OldIsOver
<1>3. \A d \in Calls : call[d].active # None => call[d].active # k
  BY DEF RetireOld, Orderly, OldIsNotActive
<1>4. \A d \in Calls : call[d].active \in Ids \cup {None} /\ (call[d].active # None => call[d].next # None)
  BY <1>0 DEF TypeOK, Call, WellFormed
<1> QED
  BY <1>0, <1>1, <1>2, <1>3, <1>4, EraseEffect, RetireOldEffect, OrderlyKept

LEMMA AddSharedOrderly ==
  ASSUME Paced, Orderly, Clean', NEW c \in Calls, AddShared(c)
  PROVE  Orderly'
<1>0. TypeOK
  BY DEF Paced
<1>1. PICK k \in Ids : Insert(k, "previous", "shared")
  BY DEF AddShared
<1>2. \A d \in Calls : /\ call[d].active \in Ids \cup {None}
                       /\ (call[d].active # None => call[d].next # None)
  BY <1>0 DEF TypeOK, Call, WellFormed
<1>3. rows[k].state = "none" /\ rows'[k].state = "previous" /\ \A m \in Ids \ {k} : rows'[m] = rows[m]
  BY <1>0, <1>1, InsertEffect
<1>4. \A d \in Calls : call[d].active # None => call[d].active # k
  BY <1>3 DEF Orderly, ActiveGivesWay
<1>5. nextFrom' = nextFrom
  BY DEF AddShared
<1>6. call[c].active = None
  BY <1>0 DEF AddShared, At, TypeOK, WellFormed
<1> QED
  BY <1>0, <1>2, <1>3, <1>4, <1>5, <1>6, AddSharedEffect, OrderlyKept

LEMMA PruneOrderly ==
  ASSUME Paced, Orderly, Clean', NEW c \in Calls, Prune(c)
  PROVE  Orderly'
<1>0. TypeOK
  BY DEF Paced
<1>1. Returned(c) /\ nextFrom' = nextFrom
  BY <1>0, ReturnEffect DEF Prune, Returned
<1>2. \A d \in Calls : /\ call[d].active \in Ids \cup {None}
                       /\ (call[d].active # None => call[d].next # None)
                       /\ (call[d].active # None => rows[call[d].active].state # "retired")
  BY <1>0 DEF TypeOK, Call, WellFormed, Orderly, ActiveGivesWay
<1>3. \A k \in Ids : rows'[k].state = rows[k].state \/
                     (rows[k].state = "retired" /\ rows'[k].state = "deleted")
  BY <1>0, PruneEffect
<1> QED
  BY <1>1, <1>2, <1>3, IdleFields, OrderlyKept DEF Returned

LEMMA DemoteOrderly ==
  ASSUME Paced, Orderly, Clean', NEW c \in Calls, Demote(c)
  PROVE  Orderly'
<1>0. TypeOK
  BY DEF Paced
<1> DEFINE a == call[c].active
           n == call[c].next
<1>1. a \in Ids /\ n \in Ids /\ a # None /\ n # None /\ Move(a, "previous") /\ nextFrom' = nextFrom
  BY <1>0, ConstantsAssumption DEF ConstantsAssumption, Ids, Demote, TypeOK, Call, WellFormed
<1>2. \/ rows[a].state = "active" /\ rows[n].state = "next"
      \/ /\ rows[a].state = "previous"
         /\ \/ rows[n].state = "active"
            \/ rows[n].state = "next" /\ In(rows, "active") = {}
  BY <1>1 DEF Orderly, ActiveGivesWay
<1>3. \A d \in Calls : /\ call[d].next \in Ids \cup {None} /\ call[d].active \in Ids \cup {None}
                       /\ call[d].old \subseteq Ids
                       /\ call[d].active # None => call[d].next # None
                       /\ call[d].next # None => call[d].next = n
  BY <1>0, <1>1 DEF TypeOK, Call, WellFormed, Orderly, Agreed, Activating
<1>4. \A d \in Calls : /\ call'[d].next = call[d].next /\ call'[d].active \in {call[d].active, None}
                       /\ call'[d].old = call[d].old /\ call'[d].at = call[d].at
                       /\ call'[d].pc \in {call[d].pc, "promote"}
  BY <1>0, DemoteEffect
<1> HIDE DEF a, n
<1>5. CASE rows[a].state = "previous"
  <2>1. \A k \in Ids : rows'[k].state = rows[k].state
    BY <1>0, <1>1, <1>5, MoveEffect
  <2> QED
    BY <1>1, <1>3, <1>4, <2>1, OrderlyKept
<1>6. CASE rows[a].state = "active" /\ rows[n].state = "next"
  <2>1. rows'[a].state = "previous" /\ \A m \in Ids \ {a} : rows'[m] = rows[m]
    BY <1>0, <1>1, <1>6, MoveEffect
  <2>2. In(rows, "active")' = {}
    BY <1>1, <1>6, <2>1 DEF Paced, OneEach, In
  <2>3. n # a /\ rows'[n] = rows[n]
    BY <1>1, <1>6, <2>1
  <2>4. Agreed' /\ NextGoesOn'
    BY <1>3, <1>4, <1>6, <2>3 DEF Agreed, NextGoesOn, Activating
  <2>5. ASSUME NEW d \in Calls, call[d].active # None PROVE rows'[call[d].active].state = "previous"
    <3>1. \/ rows[call[d].active].state = "previous"
          \/ rows[call[d].active].state = "active"
      BY <2>5 DEF Orderly, ActiveGivesWay
    <3>2. CASE rows[call[d].active].state = "active"
      BY <1>1, <1>3, <1>6, <2>1, <2>5, <3>2 DEF Paced, OneEach
    <3>3. CASE rows[call[d].active].state = "previous"
      BY <1>3, <1>6, <2>1, <2>5, <3>3
    <3> QED
      BY <3>1, <3>2, <3>3
  <2>6. ActiveGivesWay'
    BY <1>3, <1>4, <1>6, <2>2, <2>3, <2>5 DEF ActiveGivesWay
  <2>7. OldIsOver' /\ OldIsNotActive'
    BY <1>3, <1>4, <2>1 DEF Orderly, OldIsOver, OldIsNotActive, At
  <2>8. \A r \in Calls : ~At(r, "insert")
    BY <1>1, <1>6 DEF Orderly, RotationsInOrder, Activating, n
  <2>9. RotationsInOrder'
    BY <1>3, <1>4, <1>6, <2>3, <2>8 DEF RotationsInOrder, Activating, At
  <2> QED
    BY <2>4, <2>6, <2>7, <2>9 DEF Orderly
<1> QED
  BY <1>2, <1>5, <1>6

LEMMA PromoteOrderly ==
  ASSUME Paced, Orderly, Clean', NEW c \in Calls, Promotes(c)
  PROVE  Orderly'
<1>0. TypeOK
  BY DEF Paced
<1> DEFINE n == call[c].next
<1>1. n \in Ids /\ n # None /\ Move(n, "active") /\ SlotFree(n, "active") /\ nextFrom' = nextFrom
  BY ConstantsAssumption DEF ConstantsAssumption, Ids, Promotes, Promote
<1>2. rows[n].state \in {"next", "active"} /\ In(rows, "active") \subseteq {n}
  BY <1>1 DEF Orderly, NextGoesOn, Activating, SlotFree
<1>3. \A d \in Calls : /\ call[d].next \in Ids \cup {None} /\ call[d].active \in Ids \cup {None}
                       /\ call[d].old \subseteq Ids
                       /\ call[d].active # None => call[d].next # None
                       /\ call[d].next # None => call[d].next = n
  BY <1>0, <1>1 DEF TypeOK, Call, WellFormed, Orderly, Agreed, Activating
<1>4. \A d \in Calls : /\ call'[d].next \in {call[d].next, None}
                       /\ call'[d].active = call[d].active
                       /\ call'[d].old \subseteq call[d].old
                       /\ call'[d].at = call[d].at
                       /\ call'[d].pc \in {call[d].pc, "prune"}
                       /\ call'[d].active # None => call'[d].next # None
  <2>1. call[c].active = None
    BY <1>0 DEF Promotes, Promote, At, TypeOK, WellFormed
  <2> QED
    BY <1>0, <1>3, <2>1, PromoteEffect DEF Promotes
<1>i. \A r \in Calls : At(r, "insert") => rows[n].state # "next"
  BY <1>1 DEF Orderly, RotationsInOrder, Activating
<1> HIDE DEF n
<1>5. CASE rows[n].state = "active"
  <2>1. \A k \in Ids : rows'[k].state = rows[k].state
    BY <1>0, <1>1, <1>5, MoveEffect
  <2> QED
    BY <1>1, <1>3, <1>4, <2>1, OrderlyKept
<1>6. CASE rows[n].state = "next"
  <2>1. rows'[n].state = "active" /\ \A m \in Ids \ {n} : rows'[m] = rows[m]
    BY <1>0, <1>1, <1>6, MoveEffect
  <2>2. In(rows, "next")' = {}
    BY <1>1, <1>6, <2>1 DEF Paced, OneEach, In
  <2>3. Agreed' /\ NextGoesOn'
    BY <1>3, <1>4, <2>1 DEF Agreed, NextGoesOn, Activating
  <2>4. ASSUME NEW d \in Calls, call[d].active # None
        PROVE  call[d].active # n /\ rows[call[d].active].state = "previous"
    <3>1. \/ rows[call[d].active].state = "active" /\ rows[call[d].next].state = "next"
          \/ rows[call[d].active].state = "previous"
      BY <2>4 DEF Orderly, ActiveGivesWay
    <3>2. rows[call[d].active].state # "active"
      BY <1>2, <1>3, <1>6, <2>4 DEF In
    <3> QED
      BY <1>6, <3>1, <3>2
  <2>5. ActiveGivesWay'
    BY <1>3, <1>4, <2>1, <2>4 DEF ActiveGivesWay
  <2>6. OldIsOver' /\ OldIsNotActive'
    BY <1>3, <1>4, <1>6, <2>1 DEF Orderly, OldIsOver, OldIsNotActive, At
  <2>7. \A r \in Calls : ~At(r, "insert")'
    BY <1>4, <1>6, <1>i DEF At
  <2>8. RotationsInOrder'
    BY <2>2, <2>7 DEF RotationsInOrder
  <2> QED
    BY <2>3, <2>5, <2>6, <2>8 DEF Orderly
<1> QED
  BY <1>2, <1>5, <1>6

LEMMA HastyStep == ASSUME Paced, [Next]_vars, ~hasty' PROVE ~hasty
<1>1. CASE Rests
  BY <1>1 DEF Rests, history
<1>2. ASSUME NEW c \in Calls,
             \/ BeginsCreation(c) \/ BeginsRotation(c) \/ BeginsActivation(c)
             \/ BeginsRetirement(c) \/ WritesKey(c) \/ InsertsNext(c)
             \/ RetireOld(c) \/ Demote(c) \/ AddShared(c) \/ Promotes(c) \/ Prune(c)
      PROVE  ~hasty
  BY <1>2
  DEF BeginsCreation, BeginsRotation, BeginsActivation, BeginsRetirement, WritesKey, InsertsNext,
      RetireOld, Demote, AddShared, Promotes, Promote, Prune, history
<1> QED
  BY <1>1, <1>2, Kinds

LEMMA KInvStep == NextOutlastsCalls /\ KInv /\ [Next]_vars => KInv'
<1> SUFFICES ASSUME NextOutlastsCalls, KInv, [Next]_vars PROVE KInv'
  OBVIOUS
<1>0. Paced /\ Paced' /\ Lone /\ Lone' /\ TypeOK
  BY PacedStep, LoneStep DEF KInv, Paced
<1> SUFFICES ASSUME ~hasty' PROVE Orderly'
  BY <1>0 DEF KInv
<1>a. Orderly /\ Clean'
  BY <1>0, HastyStep, CleanStep DEF KInv, Orderly
<1>1. CASE Rests
  <2>1. rows' = rows /\ nextFrom' = nextFrom
    BY <1>1 DEF Rests
  <2>2. \A d \in Calls : call'[d] = call[d] \/ call'[d] = Idle
    BY <1>1 DEF Rests, Returned
  <2>3. \A d \in Calls : call[d].active # None => call[d].next # None
    BY <1>0 DEF TypeOK, WellFormed
  <2> QED
    BY <1>0, <1>a, <2>1, <2>2, <2>3, IdleFields, OrderlyKept
<1>2. ASSUME NEW c \in Calls, BeginsCreation(c) PROVE Orderly'
  <2>1. call[c] = Idle /\ rows' = rows /\ nextFrom' = nextFrom
    BY <1>0, <1>2 DEF BeginsCreation, Paced, Shaped
  <2>2. \A d \in Calls : call[d].active # None => call[d].next # None
    BY <1>0 DEF TypeOK, WellFormed
  <2> QED
    BY <1>0, <1>2, <1>a, <2>1, <2>2, IdleFields, OrderlyKept DEF BeginsCreation, Began
<1>3. ASSUME NEW c \in Calls, BeginsRotation(c) PROVE Orderly'
  BY <1>0, <1>3, <1>a, RotationOrderly DEF BeginsRotation, db
<1>4. ASSUME NEW c \in Calls, BeginsActivation(c) PROVE Orderly'
  <2>1. /\ At(c, "idle") /\ UNCHANGED <<rows, nextFrom, now>>
        /\ now >= nextFrom + MinPublished
    BY <1>4 DEF BeginsActivation, db
  <2>2. PICK n \in In(rows, "next") :
          \/ \E a \in In(rows, "active") : Began(c, "retire", n, a, In(rows, "previous"))
          \/ /\ In(rows, "active") = {}
             /\ \/ Began(c, "promote", n, None, {})
                \/ Began(c, "promote", n, None, In(rows, "previous"))
                \/ Began(c, "addShared", n, None, {})
    BY <1>4 DEF BeginsActivation
  <2>3. ASSUME NEW a \in In(rows, "active"), Began(c, "retire", n, a, In(rows, "previous"))
        PROVE  Orderly'
    BY <1>0, <1>a, <2>1, <2>3, ActivationOrderly
  <2>4. ASSUME In(rows, "active") = {}, NEW pc \in {"promote", "addShared"},
               NEW old \in {{}, In(rows, "previous")}, Began(c, pc, n, None, old)
        PROVE  Orderly'
    BY <1>0, <1>a, <2>1, <2>4, ActivationOrderly
  <2> QED
    BY <2>2, <2>3, <2>4
<1>5. ASSUME NEW c \in Calls, BeginsRetirement(c) PROVE Orderly'
  BY <1>0, <1>5, <1>a, RetirementOrderly DEF BeginsRetirement, db
<1>6. ASSUME NEW c \in Calls, WritesKey(c) PROVE Orderly'
  BY <1>0, <1>6, <1>a, FirstKeyOrderly
<1>7. ASSUME NEW c \in Calls, InsertsNext(c) PROVE Orderly'
  BY <1>0, <1>7, <1>a, InsertOrderly
<1>8. ASSUME NEW c \in Calls, RetireOld(c) PROVE Orderly'
  BY <1>0, <1>8, <1>a, RetireOldOrderly
<1>9. ASSUME NEW c \in Calls, Demote(c) PROVE Orderly'
  BY <1>0, <1>9, <1>a, DemoteOrderly
<1>10. ASSUME NEW c \in Calls, AddShared(c) PROVE Orderly'
  BY <1>0, <1>10, <1>a, AddSharedOrderly
<1>11. ASSUME NEW c \in Calls, Promotes(c) PROVE Orderly'
  BY <1>0, <1>11, <1>a, PromoteOrderly
<1>12. ASSUME NEW c \in Calls, Prune(c) PROVE Orderly'
  BY <1>0, <1>12, <1>a, PruneOrderly
<1> QED
  BY <1>0, <1>1, <1>2, <1>3, <1>4, <1>5, <1>6, <1>7, <1>8, <1>9, <1>10, <1>11, <1>12, Kinds

(* From state s a row has come, in time, to state t. *)
Onward(s, t) ==
  \/ s = "none"
  \/ s = "next" /\ t \in {"next", "active", "previous", "retired", "deleted"}
  \/ s = "active" /\ t \in {"active", "previous", "retired", "deleted"}
  \/ s = "previous" /\ t \in {"previous", "retired", "deleted"}
  \/ s = "retired" /\ t \in {"retired", "deleted"}
  \/ s = "deleted" /\ t = "deleted"

(* Rows only ever move on, and remain whose they are. *)
GoOn == \A k \in Ids : /\ Onward(rows[k].state, rows'[k].state)
                       /\ rows[k].state # "none" => rows'[k].origin = rows[k].origin

LEMMA RowsGoOn ==
  ASSUME Paced, Orderly, [Next]_vars
  PROVE  GoOn
<1>0. TypeOK
  BY DEF Paced
<1>s. \A k \in Ids : rows[k].state \in {"none", "next", "active", "previous", "retired", "deleted"}
  BY <1>0 DEF TypeOK, View, Row, States
<1>u. ASSUME rows' = rows PROVE GoOn
  BY <1>s, <1>u DEF GoOn, Onward
<1>p. ASSUME NEW k \in Ids, Onward(rows[k].state, rows'[k].state),
             rows[k].state # "none" => rows'[k].origin = rows[k].origin,
             \A m \in Ids \ {k} : rows'[m] = rows[m]
      PROVE  GoOn
  BY <1>s, <1>p DEF GoOn, Onward
<1>1. CASE Rests
  BY <1>1, <1>u DEF Rests
<1>2. ASSUME NEW c \in Calls,
             BeginsCreation(c) \/ BeginsRotation(c) \/ BeginsActivation(c) \/ BeginsRetirement(c)
      PROVE  GoOn
  BY <1>2, <1>u DEF BeginsCreation, BeginsRotation, BeginsActivation, BeginsRetirement, db
<1>6. ASSUME NEW c \in Calls, NEW k \in Ids, NEW state, NEW origin, Insert(k, state, origin) PROVE GoOn
  BY <1>0, <1>6, <1>p, InsertEffect DEF Onward
<1>7. ASSUME NEW c \in Calls, WritesKey(c) \/ InsertsNext(c) \/ AddShared(c) PROVE GoOn
  BY <1>6, <1>7 DEF WritesKey, InsertsNext, AddShared
<1>8. ASSUME NEW c \in Calls, RetireOld(c) PROVE GoOn
  <2>1. PICK k \in call[c].old : Erase(k)
    BY <1>8 DEF RetireOld
  <2>2. k \in Ids /\ rows[k].state \in {"previous", "retired", "deleted"}
    BY <1>0 DEF TypeOK, Call, Orderly, OldIsOver
  <2> QED
    BY <1>0, <1>p, <2>1, <2>2, EraseEffect DEF Onward
<1>9. ASSUME NEW c \in Calls, Demote(c) PROVE GoOn
  <2> DEFINE a == call[c].active
  <2>1. a \in Ids /\ Move(a, "previous") /\ rows[a].state \in {"active", "previous"}
    BY <1>0, <1>9 DEF Demote, TypeOK, Call, Orderly, ActiveGivesWay
  <2> HIDE DEF a
  <2> QED
    BY <1>0, <1>p, <2>1, MoveEffect DEF Onward
<1>11. ASSUME NEW c \in Calls, Promotes(c) PROVE GoOn
  <2> DEFINE n == call[c].next
  <2>1. n \in Ids /\ n # None /\ Move(n, "active")
    BY <1>11, ConstantsAssumption DEF ConstantsAssumption, Ids, Promotes, Promote
  <2>2. rows[n].state \in {"next", "active"}
    BY <2>1 DEF Orderly, NextGoesOn, Activating
  <2> HIDE DEF n
  <2> QED
    BY <1>0, <1>p, <2>1, <2>2, MoveEffect DEF Onward
<1>12. ASSUME NEW c \in Calls, Prune(c) PROVE GoOn
  BY <1>0, <1>12, <1>s, PruneEffect DEF GoOn, Onward
<1> QED
  BY <1>1, <1>2, <1>7, <1>8, <1>9, <1>11, <1>12, Kinds

(* A retired key never comes back, whatever calls overlap, go on with what they read, or are  *)
(* cut short, if who waits for a next key's publication waits longer than two calls take.     *)
THEOREM RetiredStaysRetired == NextOutlastsCalls => (Spec => RetiredIsFinal)
<1> SUFFICES ASSUME NextOutlastsCalls PROVE Spec => RetiredIsFinal
  OBVIOUS
<1> DEFINE Final == \A k \in Ids :
             ~hasty /\ rows[k].state = "retired" => rows'[k].state \in {"retired", "deleted"}
<1>1. KInv /\ [Next]_vars => KInv'
  BY KInvStep
<1>2. KInv /\ [Next]_vars => [Final]_vars
  BY RowsGoOn DEF KInv, GoOn, Onward
<1> QED
  BY <1>1, <1>2, KInvInit, PTL DEF Spec, RetiredIsFinal

-----------------------------------------------------------------------------
(* What keeps an owner signing with a key of its own: between the demotion of one and the *)
(* promotion of the next the first is neither active nor retired; before its first own key *)
(* becomes active, the shared key's certificate is a previous one.                          *)
BeingRetired(k) == \E d \in Calls : At(d, "retire") /\ k \in call[d].old
ShowsShared(v) == \E k \in In(v, "previous") : v[k].origin = "shared"
HasCreated == \E k \in Ids : rows[k].origin = "created"

KeepsAKey ==
  ownFrom # None =>
    \/ In(rows, "active") # {}
    \/ \E k \in Ids : rows[k].state = "previous" /\ rows[k].origin # "shared" /\ ~BeingRetired(k)
NothingRetired ==
  ownFrom = None =>
    /\ \A c \in Calls : ~At(c, "retire")
    /\ \A k \in Ids : rows[k].state \notin {"retired", "deleted"}
SharedFirst == ownFrom = None => \A c \in Calls : At(c, "promote") => ShowsShared(rows)
CreatedAlone ==
  HasCreated =>
    /\ \A c \in Calls : ~At(c, "addShared")
    /\ \A k \in Ids : rows[k].origin = "shared" => rows[k].state = "none"

Handover == KeepsAKey /\ NothingRetired /\ SharedFirst /\ CreatedAlone

LEMMA HandoverInit == Init => Handover
<1> SUFFICES ASSUME Init PROVE Handover
  OBVIOUS
<1>1. \A c \in Calls : call[c].pc = "idle"
  BY IdleFields DEF Init
<1>2. \A k \in Ids : rows[k] = IF owner = "root" /\ k = 1 THEN FirstRow ELSE NoRow
  BY DEF Init
<1>3. KeepsAKey
  <2> SUFFICES ASSUME ownFrom # None PROVE In(rows, "active") # {}
    BY DEF KeepsAKey
  <2>1. owner = "root" /\ 1 \in Ids
    BY ConstantsAssumption DEF ConstantsAssumption, Init, Ids
  <2>2. rows[1].state = "active"
    BY <1>2, <2>1 DEF FirstRow
  <2> QED
    BY <2>1, <2>2 DEF In
<1>4. NothingRetired
  BY <1>1, <1>2 DEF NothingRetired, At, FirstRow, NoRow
<1> QED
  BY <1>1, <1>2, <1>3, <1>4 DEF Handover, SharedFirst, CreatedAlone, At, FirstRow, NoRow

(* Whose key was active, or was created, has an own key from some time on. *)
LEMMA OwnSince ==
  ASSUME Owned, NEW k \in Ids,
         rows[k].state = "active" \/ rows[k].origin = "created"
  PROVE  ownFrom # None /\ rows[k].origin # "shared"
<1>1. \/ rows[k].origin # "shared" /\ rows[k].state # "next"
     \/ rows[k].state = "active"
  BY DEF Owned, IInv, NextIsLatest, Rotated
<1> QED
  BY <1>1 DEF Owned, ActiveIsOwn, NoneYet

LEMMA HandoverKept ==
  ASSUME TypeOK, Handover, GoOn, ownFrom' = ownFrom,
         \A c \in Calls : /\ call'[c].pc = "retire" => call[c].pc = "retire" /\ call'[c].old \subseteq call[c].old
                          /\ call'[c].pc = "addShared" => call[c].pc = "addShared"
                          /\ call'[c].pc = "promote" => call[c].pc = "promote",
         \A k \in Ids : /\ rows[k].state = "active" => rows'[k].state = "active"
                        /\ rows'[k].origin = "created" => rows[k].origin = "created"
                        /\ rows'[k].origin = "shared" =>
                             rows[k].origin = "shared" /\ (rows[k].state = "none" => rows'[k].state = "none")
                        /\ rows'[k].state # rows[k].state => 
                             rows'[k].state = "next" \/ rows[k].state = "retired" \/ BeingRetired(k)
  PROVE  Handover'
<1>1. \A k \in Ids : BeingRetired(k)' => BeingRetired(k)
  BY DEF BeingRetired, At
<1>g. \A k \in Ids : /\ rows[k].state = "previous" => rows'[k].state \in {"previous", "retired", "deleted"}
                     /\ rows[k].state # "none" => rows'[k].origin = rows[k].origin
                     /\ rows[k].state = "retired" => rows'[k].state \in {"retired", "deleted"}
  BY DEF GoOn, Onward
<1>2. KeepsAKey'
  <2> SUFFICES ASSUME ownFrom # None
               PROVE  \/ In(rows, "active")' # {}
                      \/ \E k \in Ids : rows'[k].state = "previous" /\ rows'[k].origin # "shared" /\ ~BeingRetired(k)'
    BY DEF KeepsAKey
  <2>1. CASE In(rows, "active") # {}
    BY <2>1 DEF In
  <2>2. ASSUME NEW k \in Ids, rows[k].state = "previous", rows[k].origin # "shared", ~BeingRetired(k)
        PROVE  rows'[k].state = "previous" /\ rows'[k].origin # "shared" /\ ~BeingRetired(k)'
    BY <1>1, <1>g, <2>2
  <2> QED
    BY <2>1, <2>2 DEF Handover, KeepsAKey
<1>3. ASSUME ownFrom = None
      PROVE  /\ \A c \in Calls : ~At(c, "retire")
             /\ \A k \in Ids : ~BeingRetired(k) /\ rows[k].state \notin {"retired", "deleted"}
  BY <1>3 DEF Handover, NothingRetired, BeingRetired
<1>4. NothingRetired'
  <2> SUFFICES ASSUME ownFrom = None
               PROVE  /\ \A c \in Calls : ~At(c, "retire")'
                      /\ \A k \in Ids : rows'[k].state \notin {"retired", "deleted"}
    BY DEF NothingRetired
  <2>1. \A k \in Ids : rows'[k].state # rows[k].state => rows'[k].state = "next"
    BY <1>3
  <2> QED
    BY <1>3, <2>1 DEF At
<1>5. SharedFirst'
  <2> SUFFICES ASSUME ownFrom = None, NEW c \in Calls, call'[c].pc = "promote" PROVE ShowsShared(rows)'
    BY DEF SharedFirst, At
  <2>1. PICK k \in Ids : rows[k].state = "previous" /\ rows[k].origin = "shared"
    BY DEF Handover, SharedFirst, At, ShowsShared, In
  <2>2. rows'[k].state = "previous" /\ rows'[k].origin = "shared"
    BY <1>3, <1>g, <2>1
  <2> QED
    BY <2>2 DEF ShowsShared, In
<1>6. CreatedAlone'
  BY DEF Handover, CreatedAlone, HasCreated, At
<1> QED
  BY <1>2, <1>4, <1>5, <1>6 DEF Handover

LEMMA HandoverActivation ==
  ASSUME Owned, Lone, Handover, NEW c \in Calls, BeginsActivation(c)
  PROVE  Handover'
<1>0. TypeOK /\ rows' = rows /\ ownFrom' = ownFrom
  BY DEF Owned, Paced, BeginsActivation, db
<1>1. In(rows, "active")' = In(rows, "active")
  BY <1>0 DEF In
<1>2. CASE In(rows, "active") # {}
  <2>1. ownFrom # None
    BY <1>2, OwnSince DEF In
  <2>2. call'[c].pc = "retire" /\ \A d \in Calls \ {c} : call'[d] = call[d]
    BY <1>2 DEF BeginsActivation, Began
  <2> QED
    BY <1>0, <1>1, <1>2, <2>1, <2>2
    DEF Handover, KeepsAKey, NothingRetired, SharedFirst, CreatedAlone, HasCreated, At
<1>3. CASE In(rows, "active") = {}
  <2>1. /\ \A d \in Calls \ {c} : call'[d] = call[d]
        /\ \/ owner = "root" /\ call'[c].pc = "promote"
           \/ In(rows, "previous") # {} /\ call'[c].pc = "promote"
           \/ In(rows, "previous") = {} /\ call'[c].pc = "addShared"
    BY <1>3 DEF BeginsActivation, Began
  <2>2. \A d \in Calls : call'[d].pc = "retire" => call[d].pc = "retire" /\ call'[d] = call[d]
    BY <2>1
  <2>3. \A k \in Ids : BeingRetired(k)' => BeingRetired(k)
    BY <2>2 DEF BeingRetired, At
  <2>4. KeepsAKey' /\ NothingRetired'
    BY <1>0, <1>1, <1>3, <2>2, <2>3 DEF Handover, KeepsAKey, NothingRetired, At
  <2>5. SharedFirst'
    <3> SUFFICES ASSUME ownFrom = None, NEW d \in Calls, call'[d].pc = "promote" PROVE ShowsShared(rows)'
      BY <1>0 DEF SharedFirst, At
    <3>1. CASE d # c
      BY <1>0, <2>1, <3>1 DEF Handover, SharedFirst, ShowsShared, In, At
    <3>2. CASE d = c
      <4>1. PICK k \in Ids : rows[k].state = "previous"
        BY <2>1, <3>2 DEF Lone, In
      <4>2. rows[k].origin = "shared"
        BY <4>1 DEF Owned, NoneYet
      <4> QED
        BY <1>0, <4>1, <4>2 DEF ShowsShared, In
    <3> QED
      BY <3>1, <3>2
  <2>6. CreatedAlone'
    <3> SUFFICES ASSUME HasCreated, NEW d \in Calls, call'[d].pc = "addShared" PROVE FALSE
      BY <1>0 DEF Handover, CreatedAlone, HasCreated, At
    <3>1. ownFrom # None
      BY OwnSince DEF HasCreated
    <3>2. In(rows, "previous") # {}
      BY <1>3, <3>1 DEF Handover, KeepsAKey, In
    <3> QED
      BY <2>1, <3>2 DEF Handover, CreatedAlone, At
  <2> QED
    BY <2>4, <2>5, <2>6 DEF Handover
<1> QED
  BY <1>2, <1>3

LEMMA HandoverStep ==
  ASSUME Owned, Owned', Lone, Orderly, Handover, ~hasty', [Next]_vars
  PROVE  Handover'
<1>0. TypeOK /\ Paced /\ GoOn
  BY RowsGoOn DEF Owned, Paced
<1>h. /\ KeepsAKey /\ NothingRetired /\ SharedFirst /\ CreatedAlone
  BY DEF Handover
<1>1. CASE Rests
  <2>1. /\ rows' = rows /\ ownFrom' = ownFrom
        /\ \A d \in Calls : call'[d] = call[d] \/ call'[d] = Idle
    BY <1>1 DEF Rests, Returned, history
  <2> QED
    BY <1>0, <2>1, IdleFields, HandoverKept
<1>2. ASSUME NEW c \in Calls, BeginsCreation(c) \/ BeginsRotation(c) PROVE Handover'
  <2>1. /\ rows' = rows /\ ownFrom' = ownFrom
        /\ call'[c].pc \in {"writeKey", "insert"} /\ \A d \in Calls \ {c} : call'[d] = call[d]
    BY <1>2 DEF BeginsCreation, BeginsRotation, Began, db, history
  <2> QED
    BY <1>0, <2>1, HandoverKept
<1>4. ASSUME NEW c \in Calls, BeginsActivation(c) PROVE Handover'
  BY <1>4, HandoverActivation
<1>5. ASSUME NEW c \in Calls, BeginsRetirement(c) PROVE Handover'
  <2>1. /\ rows' = rows /\ ownFrom' = ownFrom /\ In(rows, "active") # {}
        /\ call'[c].pc = "retire" /\ \A d \in Calls \ {c} : call'[d] = call[d]
    BY <1>5 DEF BeginsRetirement, Began, Waited, db
  <2>2. ownFrom # None /\ In(rows, "active")' = In(rows, "active")
    BY <2>1, OwnSince DEF In
  <2> QED
    BY <1>h, <2>1, <2>2
    DEF Handover, KeepsAKey, NothingRetired, SharedFirst, CreatedAlone, HasCreated, At
<1>6. ASSUME NEW c \in Calls, WritesKey(c) PROVE Handover'
  <2>1. PICK k \in Ids : Insert(k, "active", "created")
    BY <1>6 DEF WritesKey
  <2>2. rows'[k].state = "active"
    BY <1>0, <2>1, InsertEffect
  <2>3. ownFrom' # None
    BY <1>0, <1>6, ConstantsAssumption DEF ConstantsAssumption, WritesKey, TypeOK
  <2>4. \A d \in Calls : call'[d].pc \in {"idle", "writeKey"}
    BY <1>6, IdleFields DEF WritesKey, Returned, Orderly, Clean, Creating
  <2>5. \A m \in Ids \ {k} : rows'[m].state = "none"
    BY <1>0, <1>6, <2>1, InsertEffect DEF WritesKey, Orderly, Clean, Creating
  <2>6. rows'[k].origin = "created"
    BY <1>0, <2>1, InsertEffect
  <2> QED
    BY <2>2, <2>3, <2>4, <2>5, <2>6
    DEF Handover, KeepsAKey, NothingRetired, SharedFirst, CreatedAlone, At, In
<1>7. ASSUME NEW c \in Calls, InsertsNext(c) PROVE Handover'
  <2>1. PICK k \in Ids : Insert(k, "next", "rotated")
    BY <1>7 DEF InsertsNext
  <2>2. /\ rows[k].state = "none" /\ rows'[k].state = "next" /\ rows'[k].origin = "rotated"
        /\ \A m \in Ids \ {k} : rows'[m] = rows[m]
    BY <1>0, <2>1, InsertEffect
  <2>3. /\ ownFrom' = ownFrom /\ \A d \in Calls : call'[d] = call[d] \/ call'[d] = Idle
    BY <1>7 DEF InsertsNext, Returned, history
  <2> QED
    BY <1>0, <2>2, <2>3, IdleFields, HandoverKept
<1>8. ASSUME NEW c \in Calls, RetireOld(c) PROVE Handover'
  <2>1. PICK k \in call[c].old : Erase(k) /\ call' = [call EXCEPT ![c].old = @ \ {k}]
    BY <1>8 DEF RetireOld
  <2>2. k \in Ids /\ BeingRetired(k) /\ rows[k].state \notin {"none", "active"} /\ ownFrom' = ownFrom
    BY <1>0, <1>8 DEF RetireOld, TypeOK, Call, BeingRetired, Orderly, OldIsOver, history
  <2>3. /\ rows'[k].origin = rows[k].origin /\ \A m \in Ids \ {k} : rows'[m] = rows[m]
    BY <1>0, <2>1, <2>2, EraseEffect
  <2>4. \A d \in Calls : call'[d].pc = call[d].pc /\ call'[d].old \subseteq call[d].old
    BY <1>0, <2>1, RetireOldEffect
  <2> QED
    BY <1>0, <2>2, <2>3, <2>4, HandoverKept
<1>9. ASSUME NEW c \in Calls, Demote(c) PROVE Handover'
  <2>a. PICK a : a = call[c].active
    OBVIOUS
  <2>1. /\ a \in Ids /\ Move(a, "previous") /\ rows[a].state \in {"active", "previous"}
        /\ rows[a].origin # "shared"
        /\ \A d \in Calls : At(d, "retire") => a \notin call[d].old
        /\ ownFrom' = ownFrom /\ ownFrom # None
    BY <1>0, <1>9, <1>h, <2>a
    DEF Demote, TypeOK, Call, Orderly, ActiveGivesWay, OldIsNotActive, Owned, CallsMoveOwn,
        NothingRetired
  <2>2. /\ rows'[a].state = "previous" /\ rows'[a].origin # "shared"
        /\ \A k \in Ids : rows'[k].origin = rows[k].origin
        /\ \A k \in Ids \ {a} : rows'[k] = rows[k]
    BY <1>0, <2>1, MoveEffect
  <2>3. \A d \in Calls : /\ call'[d].pc \in {call[d].pc, "promote"} /\ call'[d].old = call[d].old
    BY <1>0, <1>9, DemoteEffect
  <2>4. ~BeingRetired(a)'
    BY <2>1, <2>3 DEF BeingRetired, At
  <2>5. CreatedAlone'
    BY <1>h, <2>1, <2>2, <2>3 DEF CreatedAlone, HasCreated, At
  <2> QED
    BY <2>1, <2>2, <2>4, <2>5 DEF Handover, KeepsAKey, NothingRetired, SharedFirst
<1>10. ASSUME NEW c \in Calls, AddShared(c) PROVE Handover'
  <2>1. PICK k \in Ids : Insert(k, "previous", "shared")
    BY <1>10 DEF AddShared
  <2>2. /\ rows[k].state = "none" /\ rows'[k].state = "previous" /\ rows'[k].origin = "shared"
        /\ \A m \in Ids \ {k} : rows'[m] = rows[m]
    BY <1>0, <2>1, InsertEffect
  <2>3. \A d \in Calls : call'[d].pc \in {call[d].pc, "promote"} /\ call'[d].old = call[d].old
    BY <1>0, <1>10, AddSharedEffect
  <2>4. ownFrom' = ownFrom
    BY <1>10 DEF AddShared, history
  <2>5. \A m \in Ids : BeingRetired(m)' => BeingRetired(m)
    BY <2>3 DEF BeingRetired, At
  <2>6. KeepsAKey'
    <3> SUFFICES ASSUME ownFrom # None
                 PROVE  \/ \E m \in Ids : rows'[m].state = "active"
                        \/ \E m \in Ids : /\ rows'[m].state = "previous" /\ rows'[m].origin # "shared"
                                          /\ ~BeingRetired(m)'
      BY <2>4 DEF KeepsAKey, In
    <3>1. \/ \E m \in Ids : rows[m].state = "active"
          \/ \E m \in Ids : /\ rows[m].state = "previous" /\ rows[m].origin # "shared"
                            /\ ~BeingRetired(m)
      BY <1>h DEF KeepsAKey, In
    <3> QED
      BY <2>2, <2>5, <3>1
  <2>7. NothingRetired'
    BY <1>h, <2>2, <2>3, <2>4 DEF NothingRetired, At
  <2>8. SharedFirst'
    BY <2>2 DEF SharedFirst, ShowsShared, In
  <2>9. CreatedAlone'
    <3>1. ~HasCreated
      BY <1>h, <1>10 DEF CreatedAlone, AddShared
    <3> QED
      BY <2>2, <3>1 DEF CreatedAlone, HasCreated
  <2> QED
    BY <2>6, <2>7, <2>8, <2>9 DEF Handover
<1>11. ASSUME NEW c \in Calls, Promotes(c) PROVE Handover'
  <2> DEFINE n == call[c].next
  <2>1. /\ n \in Ids /\ n # None /\ Move(n, "active")
        /\ ownFrom' = (IF ownFrom = None THEN now ELSE ownFrom)
    BY <1>11, ConstantsAssumption DEF ConstantsAssumption, Ids, Promotes, Promote
  <2>2. ownFrom' # None
    BY <1>0, <2>1, ConstantsAssumption DEF ConstantsAssumption, TypeOK
  <2>3. rows[n].state # "deleted" /\ rows[n].origin # "shared"
    BY <2>1 DEF Orderly, NextGoesOn, Activating, Owned, CallsMoveOwn
  <2> HIDE DEF n
  <2>4. /\ rows'[n].state = "active" /\ \A m \in Ids : rows'[m].origin = rows[m].origin
        /\ \A m \in Ids \ {n} : rows'[m] = rows[m]
    BY <1>0, <2>1, <2>3, MoveEffect
  <2>5. \A d \in Calls : call'[d].pc \in {call[d].pc, "prune"}
    BY <1>0, <1>11, PromoteEffect DEF Promotes
  <2>6. CreatedAlone'
    BY <1>h, <2>3, <2>4, <2>5 DEF CreatedAlone, HasCreated, At
  <2> QED
    BY <2>1, <2>2, <2>4, <2>6 DEF Handover, KeepsAKey, NothingRetired, SharedFirst, In
<1>12. ASSUME NEW c \in Calls, Prune(c) PROVE Handover'
  <2>1. ownFrom' = ownFrom /\ \A d \in Calls : call'[d] = call[d] \/ call'[d] = Idle
    BY <1>0, <1>12, ReturnEffect DEF Prune, history
  <2>2. \A k \in Ids : /\ rows'[k].origin = rows[k].origin
                       /\ rows'[k].state = rows[k].state \/ rows[k].state = "retired"
    BY <1>0, <1>12, PruneEffect
  <2> QED
    BY <1>0, <2>1, <2>2, IdleFields, HandoverKept
<1> QED
  BY <1>0, <1>1, <1>2, <1>4, <1>5, <1>6, <1>7, <1>8, <1>9, <1>10, <1>11, <1>12, Kinds

-----------------------------------------------------------------------------
(* Whoever waited published the next key, or kept the previous ones, for as long as a copy of *)
(* the rows, read before, may be worked with.                                                 *)
PublishedLongEnough == MinPublished >= CacheTime + 2 * Lag
RetireWaits == Patience >= CacheTime + Lag

(* What is used until t is over before a row that was previous when it was read, or became    *)
(* one since, can be retired: by a retirement after the last activation, or by the next one.  *)
Fading(t) ==
  /\ t <= switched + Window
  /\ In(rows, "active") # {} =>
       /\ In(rows, "next") # {} => t <= nextFrom + Window
       /\ \A r \in Calls : At(r, "insert") => t <= call[r].at + Window

LEMMA FadingBegins ==
  ASSUME Paced, NEW t \in Nat, t <= now + Window, switched' = now,
         \/ In(rows, "active")' = {}
         \/ In(rows, "next")' = {} /\ \A r \in Calls : ~At(r, "insert")'
  PROVE  Fading(t)'
  BY DEF Fading, Window

LEMMA FadingKept ==
  ASSUME Paced, NEW t \in Nat, t <= now + Window, Fading(t), switched' \in {switched, now},
         In(rows, "active")' # {} => In(rows, "active") # {},
         In(rows, "next")' # {} => In(rows, "next") # {} /\ nextFrom' = nextFrom,
         \A r \in Calls : At(r, "insert")' =>
           (At(r, "insert") /\ call'[r].at = call[r].at) \/ call'[r].at = now
  PROVE  Fading(t)'
  BY DEF Fading, Window

LEMMA FadingShorter ==
  ASSUME Paced, NEW t \in Nat, NEW s \in Nat, s <= t, Fading(t)
  PROVE  Fading(s)
<1> USE ConstantsAssumption DEF ConstantsAssumption
<1>1. switched + Window \in Nat /\ nextFrom + Window \in Nat
  BY DEF Paced, TypeOK, Window
<1>2. \A r \in Calls : call[r].at + Window \in Nat
  BY DEF Paced, TypeOK, Call, Window
<1> QED
  BY <1>1, <1>2 DEF Fading

LEMMA FadedAway ==
  ASSUME Paced, NEW t \in Nat, now < t, Fading(t), PublishedLongEnough, RetireWaits,
         In(rows, "active") # {},
         Waited \/ (In(rows, "next") # {} /\ now >= nextFrom + MinPublished)
  PROVE  FALSE
<1> USE ConstantsAssumption DEF ConstantsAssumption, Window, PublishedLongEnough, RetireWaits
<1>0. now \in Nat /\ nextFrom \in Nat /\ switched \in Nat
  BY DEF Paced, TypeOK
<1>1. CASE Waited
  BY <1>0, <1>1 DEF Fading, Waited
<1>2. CASE In(rows, "next") # {} /\ now >= nextFrom + MinPublished
  BY <1>0, <1>2 DEF Fading
<1> QED
  BY <1>1, <1>2

LEMMA FadingStep ==
  ASSUME Paced, Orderly, [Next]_vars, NEW t \in Nat, t <= now + Window, Fading(t)
  PROVE  Fading(t)'
<1>0. TypeOK
  BY DEF Paced
<1>c. ASSUME rows' = rows
      PROVE  In(rows, "active")' = In(rows, "active") /\ In(rows, "next")' = In(rows, "next")
  BY <1>c DEF In
<1>1. CASE Rests
  <2>1. /\ rows' = rows /\ nextFrom' = nextFrom /\ switched' = switched
        /\ \A d \in Calls : call'[d] = call[d] \/ call'[d] = Idle
    BY <1>1 DEF Rests, Returned, history
  <2> QED
    BY <1>c, <2>1, IdleFields, FadingKept DEF At
<1>2. ASSUME NEW c \in Calls,
             BeginsCreation(c) \/ BeginsRotation(c) \/ BeginsActivation(c) \/ BeginsRetirement(c)
      PROVE  Fading(t)'
  <2>1. /\ rows' = rows /\ nextFrom' = nextFrom /\ switched' = switched
        /\ call'[c].at = now /\ \A d \in Calls \ {c} : call'[d] = call[d]
    BY <1>2
    DEF BeginsCreation, BeginsRotation, BeginsActivation, BeginsRetirement, Began, db, history
  <2> QED
    BY <1>c, <2>1, FadingKept DEF At
<1>6. ASSUME NEW c \in Calls, WritesKey(c) PROVE Fading(t)'
  <2>1. PICK k \in Ids : Insert(k, "active", "created")
    BY <1>6 DEF WritesKey
  <2>2. /\ \A m \in Ids : rows[m].state = "none"
        /\ \A d \in Calls : call[d].pc \in {"idle", "writeKey"}
    BY <1>6 DEF WritesKey, Orderly, Clean, Creating
  <2>3. In(rows, "next")' = {}
    BY <1>0, <2>1, <2>2, InsertEffect DEF In
  <2>4. \A d \in Calls : ~At(d, "insert")'
    BY <1>6, <2>2, IdleFields DEF WritesKey, Returned, At
  <2> QED
    BY <1>6, <2>3, <2>4 DEF WritesKey, Fading
<1>7. ASSUME NEW c \in Calls, InsertsNext(c) PROVE Fading(t)'
  <2>1. PICK k \in Ids : Insert(k, "next", "rotated")
    BY <1>7 DEF InsertsNext
  <2>2. In(rows, "active")' = In(rows, "active")
    BY <1>0, <2>1, InsertEffect DEF In
  <2>3. \A d \in Calls : call'[d] = call[d] \/ call'[d] = Idle
    BY <1>7 DEF InsertsNext, Returned
  <2>4. At(c, "insert") /\ nextFrom' = call[c].at /\ switched' = switched
    BY <1>7 DEF InsertsNext, history
  <2>5. \A d \in Calls : At(d, "insert")' => At(d, "insert") /\ call'[d] = call[d]
    BY <2>3, IdleFields DEF At
  <2> QED
    BY <2>2, <2>4, <2>5 DEF Fading
<1>8. ASSUME NEW c \in Calls, RetireOld(c) PROVE Fading(t)'
  <2>1. PICK k \in call[c].old : Erase(k) /\ call' = [call EXCEPT ![c].old = @ \ {k}]
    BY <1>8 DEF RetireOld
  <2>2. k \in Ids
    BY <1>0 DEF TypeOK, Call
  <2>3. /\ In(rows, "active")' \subseteq In(rows, "active")
        /\ In(rows, "next")' \subseteq In(rows, "next")
    BY <1>0, <2>1, <2>2, EraseEffect DEF In
  <2>4. \A d \in Calls : call'[d].pc = call[d].pc /\ call'[d].at = call[d].at
    BY <1>0, <2>1, RetireOldEffect
  <2> QED
    BY <1>8, <2>3, <2>4, FadingKept DEF RetireOld, history, At
<1>9. ASSUME NEW c \in Calls, Demote(c) PROVE Fading(t)'
  <2>a. PICK a : a = call[c].active
    OBVIOUS
  <2>1. a \in Ids /\ Move(a, "previous") /\ nextFrom' = nextFrom /\ switched' = now
    BY <1>0, <1>9, <2>a DEF Demote, TypeOK, Call
  <2>2. /\ In(rows, "active")' \subseteq In(rows, "active")
        /\ In(rows, "next")' \subseteq In(rows, "next")
    BY <1>0, <2>1, MoveEffect DEF In
  <2>3. \A d \in Calls : call'[d].pc \in {call[d].pc, "promote"} /\ call'[d].at = call[d].at
    BY <1>0, <1>9, DemoteEffect
  <2> QED
    BY <2>1, <2>2, <2>3, FadingKept DEF At
<1>10. ASSUME NEW c \in Calls, AddShared(c) PROVE Fading(t)'
  <2>1. PICK k \in Ids : Insert(k, "previous", "shared")
    BY <1>10 DEF AddShared
  <2>2. /\ In(rows, "active")' \subseteq In(rows, "active")
        /\ In(rows, "next")' \subseteq In(rows, "next")
    BY <1>0, <2>1, InsertEffect DEF In
  <2>3. \A d \in Calls : call'[d].pc \in {call[d].pc, "promote"} /\ call'[d].at = call[d].at
    BY <1>0, <1>10, AddSharedEffect
  <2> QED
    BY <1>10, <2>2, <2>3, FadingKept DEF AddShared, history, At
<1>11. ASSUME NEW c \in Calls, Promotes(c) PROVE Fading(t)'
  <2>a. PICK n : n = call[c].next
    OBVIOUS
  <2>1. /\ n \in Ids /\ n # None /\ Move(n, "active") /\ switched' = now /\ nextFrom' = nextFrom
    BY <1>11, <2>a, ConstantsAssumption DEF ConstantsAssumption, Ids, Promotes, Promote
  <2>2. rows[n].state \in {"next", "active"}
    BY <2>a, <2>1 DEF Orderly, NextGoesOn, Activating
  <2>3. rows'[n].state = "active" /\ \A m \in Ids \ {n} : rows'[m] = rows[m]
    BY <1>0, <2>1, <2>2, MoveEffect
  <2>4. \A d \in Calls : call'[d].pc \in {call[d].pc, "prune"} /\ call'[d].at = call[d].at
    BY <1>0, <1>11, PromoteEffect DEF Promotes
  <2>5. CASE rows[n].state = "active"
    <3>1. /\ In(rows, "active")' = In(rows, "active")
          /\ In(rows, "next")' = In(rows, "next")
      BY <2>1, <2>3, <2>5 DEF In
    <3> QED
      BY <2>1, <2>4, <3>1, FadingKept DEF At
  <2>6. CASE rows[n].state = "next"
    <3>1. In(rows, "next")' = {}
      BY <2>1, <2>3, <2>6 DEF Paced, OneEach, In
    <3>2. \A r \in Calls : ~At(r, "insert")
      BY <2>a, <2>1, <2>6 DEF Orderly, RotationsInOrder, Activating
    <3> QED
      BY <2>1, <2>4, <3>1, <3>2, FadingBegins DEF At
  <2> QED
    BY <2>2, <2>5, <2>6
<1>12. ASSUME NEW c \in Calls, Prune(c) PROVE Fading(t)'
  <2>1. /\ nextFrom' = nextFrom /\ switched' = switched
        /\ \A d \in Calls : call'[d] = call[d] \/ call'[d] = Idle
    BY <1>0, <1>12, ReturnEffect DEF Prune, history
  <2>2. In(rows, "active")' \subseteq In(rows, "active") /\ In(rows, "next")' \subseteq In(rows, "next")
    BY <1>0, <1>12, PruneEffect DEF In
  <2> QED
    BY <2>1, <2>2, IdleFields, FadingKept DEF At
<1> QED
  BY <1>1, <1>2, <1>6, <1>7, <1>8, <1>9, <1>10, <1>11, <1>12, Kinds

-----------------------------------------------------------------------------
(* What a copy v of the rows, in use until t, is good for. *)
Older(v) == \A k \in Ids : /\ Onward(v[k].state, rows[k].state)
                           /\ v[k].state # "none" => v[k].origin = rows[k].origin
SignsOwn(v) == \A k \in Ids : v[k].state = "active" => v[k].origin # "shared"

(* Rows that others must go on publishing for v: the one it signs with, or, if it signs with *)
(* the shared key, that key's row, or the first key, which it has not seen.                   *)
BeforeCreated(v, k) == rows[k].origin = "created" /\ v[k].state = "none"
BeforeOwn(v, k) == rows[k].origin = "shared" /\ rows[k].state # "none" /\ Unused(v)
Relies(v, k) == v[k].state = "active" \/ BeforeCreated(v, k) \/ BeforeOwn(v, k)

Reliable(v, t) ==
  ownFrom # None =>
    \A k \in Ids :
      Relies(v, k) =>
        /\ rows[k].state = "previous" => Fading(t)
        /\ rows[k].state \notin {"retired", "deleted"}
        /\ ~BeingRetired(k)
Grounded(v) ==
  ownFrom # None /\ Unused(v) => \E k \in Ids : BeforeCreated(v, k) \/ BeforeOwn(v, k)

(* A next key that v has not seen is not activated while v is in use. *)
Unseen(v, t) ==
  \A k \in Ids :
    v[k].state = "none" =>
      /\ rows[k].state = "next" => t <= nextFrom + Lag + Window
      /\ \A c \in Calls : call[c].next # k
      /\ rows[k].origin = "rotated" => rows[k].state = "next"
      /\ rows[k].origin = "created" => owner # "root" /\ t <= ownFrom + Window

Good(v, t) == Older(v) /\ SignsOwn(v) /\ Reliable(v, t) /\ Grounded(v) /\ Unseen(v, t)

LEMMA GoodShorter ==
  ASSUME Owned, NEW v, NEW t \in Nat, NEW s \in Nat, s <= t, Good(v, t)
  PROVE  Good(v, s)
<1>0. Paced
  BY DEF Owned
<1>1. Reliable(v, s)
  BY <1>0, FadingShorter DEF Good, Reliable
<1>2. Unseen(v, s)
  <2>1. nextFrom + Lag + Window \in Nat
    BY <1>0, ConstantsAssumption DEF ConstantsAssumption, Paced, TypeOK, Window
  <2>2. ASSUME NEW k \in Ids, rows[k].origin = "created" PROVE ownFrom + Window \in Nat
    <3>1. ownFrom \in Nat
      BY <1>0, <2>2, OwnSince DEF Paced, TypeOK
    <3> QED
      BY <3>1, ConstantsAssumption DEF ConstantsAssumption, Window
  <2> QED
    BY <2>1, <2>2 DEF Good, Unseen
<1> QED
  BY <1>1, <1>2 DEF Good

(* A copy that has just been read. *)
LEMMA GoodRead ==
  ASSUME Owned, Orderly, Handover, NEW t
  PROVE  Good(rows, t)
<1>0. TypeOK
  BY DEF Owned, Paced
<1>1. Older(rows)
  BY <1>0 DEF Older, Onward, TypeOK, View, Row, States
<1>2. SignsOwn(rows)
  BY DEF SignsOwn, Owned, ActiveIsOwn
<1>3. ownFrom # None => ~Unused(rows)
  <2>1. \A k \in Ids : rows[k].state = "active" => rows[k].origin # "shared"
    BY DEF Owned, ActiveIsOwn
  <2> QED
    BY <2>1 DEF Handover, KeepsAKey, Unused, Own, In, States
<1>4. \A k \in Ids : rows[k].state = "none" => rows[k].origin = "shared"
  BY DEF Owned, IInv, NoneIsNoRow
<1>5. Reliable(rows, t)
  BY <1>3, <1>4
  DEF Reliable, Relies, BeforeCreated, BeforeOwn, BeingRetired, Orderly, OldIsOver
<1>6. Unseen(rows, t)
  <2>1. \A c \in Calls : call[c].next # None => rows[call[c].next].state # "none"
    BY DEF Orderly, NextGoesOn, Activating
  <2>2. \A k \in Ids : k # None
    BY ConstantsAssumption DEF ConstantsAssumption, Ids
  <2> QED
    BY <1>4, <2>1, <2>2 DEF Unseen
<1> QED
  BY <1>1, <1>2, <1>3, <1>5, <1>6 DEF Good, Grounded

LEMMA OlderStep ==
  ASSUME Paced, Orderly, [Next]_vars, NEW v, Older(v)
  PROVE  Older(v)'
<1>1. GoOn
  BY RowsGoOn
<1>2. \A k \in Ids : v[k].state = "none" \/ rows[k].state # "none"
  BY DEF Older, Onward
<1> QED
  BY <1>1, <1>2 DEF Older, GoOn, Onward

(* What v relies on it relied on before, unless it has only just been made. *)
LEMMA ReliedBefore ==
  ASSUME GoOn, NEW v, NEW k \in Ids, Relies(v, k)', rows[k].state # "none"
  PROVE  Relies(v, k)
<1>1. Unused(v)' <=> Unused(v)
  BY DEF Unused, Own
<1>2. rows'[k].origin = rows[k].origin
  BY DEF GoOn
<1> QED
  BY <1>1, <1>2 DEF Relies, BeforeCreated, BeforeOwn

LEMMA GroundedKept ==
  ASSUME Owned, GoOn, NEW v, Grounded(v), ownFrom # None
  PROVE  Grounded(v)'
<1>1. Unused(v)' <=> Unused(v)
  BY DEF Unused, Own
<1> SUFFICES ASSUME Unused(v) PROVE \E k \in Ids : BeforeCreated(v, k)' \/ BeforeOwn(v, k)'
  BY <1>1 DEF Grounded
<1>2. PICK k \in Ids : BeforeCreated(v, k) \/ BeforeOwn(v, k)
  BY DEF Grounded
<1> QED
  BY <1>1, <1>2 DEF Owned, IInv, NoneIsNoRow, GoOn, Onward, BeforeCreated, BeforeOwn

LEMMA GroundedStep ==
  ASSUME Owned, Orderly, Handover, [Next]_vars, NEW v, Older(v), Grounded(v)
  PROVE  Grounded(v)'
<1>0. TypeOK /\ Paced /\ GoOn
  BY RowsGoOn DEF Owned, Paced
<1>u. Unused(v)' <=> Unused(v)
  BY DEF Unused, Own
<1>1. CASE ownFrom # None
  BY <1>0, <1>1, GroundedKept
<1>2. CASE ownFrom' = ownFrom /\ ownFrom = None
  BY <1>2 DEF Grounded
<1>3. ASSUME ownFrom = None, NEW c \in Calls, WritesKey(c) PROVE Grounded(v)'
  <2>1. PICK k \in Ids : Insert(k, "active", "created")
    BY <1>3 DEF WritesKey
  <2>2. rows[k].state = "none" /\ rows'[k].origin = "created"
    BY <1>0, <2>1, InsertEffect
  <2>3. v[k].state = "none"
    BY <2>2 DEF Older, Onward
  <2> QED
    BY <2>2, <2>3 DEF Grounded, BeforeCreated
<1>4. ASSUME ownFrom = None, NEW c \in Calls, Promotes(c) PROVE Grounded(v)'
  <2>1. PICK k \in Ids : rows[k].state = "previous" /\ rows[k].origin = "shared"
    BY <1>4 DEF Handover, SharedFirst, ShowsShared, In, Promotes, Promote
  <2>2. rows'[k].state # "none" /\ rows'[k].origin = "shared"
    BY <1>0, <2>1 DEF GoOn, Onward
  <2> QED
    BY <1>u, <2>2 DEF Grounded, BeforeOwn
<1>5. CASE Rests
  BY <1>1, <1>2, <1>5 DEF Rests, history
<1>6. ASSUME NEW c \in Calls,
             \/ BeginsCreation(c) \/ BeginsRotation(c) \/ BeginsActivation(c)
             \/ BeginsRetirement(c) \/ InsertsNext(c)
             \/ RetireOld(c) \/ Demote(c) \/ AddShared(c) \/ Prune(c)
      PROVE  ownFrom' = ownFrom
  BY <1>6
  DEF BeginsCreation, BeginsRotation, BeginsActivation, BeginsRetirement, InsertsNext,
      RetireOld, Demote, AddShared, Prune, db, history
<1> QED
  BY <1>0, <1>1, <1>2, <1>3, <1>4, <1>5, <1>6, Kinds

LEMMA SignsOwnStep ==
  ASSUME NEW v, SignsOwn(v) PROVE SignsOwn(v)'
  BY DEF SignsOwn

LEMMA UnseenStep ==
  ASSUME Owned, Owned', Lone, Orderly, Handover, PublishedLongEnough, ~hasty', [Next]_vars,
         NEW v, NEW t \in Nat, now < t, t <= now + Window, Older(v), Unseen(v, t)
  PROVE  Unseen(v, t)'
<1>0. TypeOK /\ Paced /\ GoOn /\ now \in Nat
  BY RowsGoOn DEF Owned, Paced, TypeOK
<1>n. \A k \in Ids : k # None
  BY ConstantsAssumption DEF ConstantsAssumption, Ids
<1>k. ASSUME GoOn, ownFrom' = ownFrom, owner' = "root" => owner = "root",
             \A c \in Calls : call'[c].next \in {call[c].next, None},
             \A k \in Ids : /\ rows'[k].origin = "rotated" => rows[k].origin = "rotated"
                            /\ rows'[k].origin = "created" => rows[k].origin = "created"
                            /\ rows'[k].state = "next" => rows[k].state = "next" /\ nextFrom' = nextFrom
                            /\ rows[k].state = "next" /\ rows'[k].state # "next" =>
                                 \E c \in Calls : call[c].next = k
      PROVE  Unseen(v, t)'
  <2> SUFFICES ASSUME NEW k \in Ids, v[k].state = "none"
               PROVE  /\ rows'[k].state = "next" => t <= nextFrom' + Lag + Window
                      /\ \A c \in Calls : call'[c].next # k
                      /\ rows'[k].origin = "rotated" => rows'[k].state = "next"
                      /\ rows'[k].origin = "created" => owner' # "root" /\ t <= ownFrom' + Window
    BY DEF Unseen, Window
  <2>1. /\ rows[k].state = "next" => t <= nextFrom + Lag + Window
        /\ \A c \in Calls : call[c].next # k
        /\ rows[k].origin = "rotated" => rows[k].state = "next"
        /\ rows[k].origin = "created" => owner # "root" /\ t <= ownFrom + Window
    BY DEF Unseen
  <2> QED
    BY <1>k, <1>n, <2>1
<1>r. \A k \in Ids : rows[k].state # "none" => rows'[k].origin = rows[k].origin
  BY <1>0 DEF GoOn
<1>m. \A k \in Ids : rows[k].state = "none" => rows[k].origin = "shared"
  BY DEF Owned, IInv, NoneIsNoRow
<1>1. CASE Rests
  <2>1. /\ rows' = rows /\ nextFrom' = nextFrom /\ ownFrom' = ownFrom
        /\ \A d \in Calls : call'[d] = call[d] \/ call'[d] = Idle
        /\ owner' = "root" => owner = "root"
    BY <1>1 DEF Rests, Returned, history
  <2> QED
    BY <1>0, <1>k, <2>1, IdleFields
<1>2. ASSUME NEW c \in Calls, BeginsCreation(c) \/ BeginsRotation(c) \/ BeginsRetirement(c)
      PROVE  Unseen(v, t)'
  <2>1. /\ rows' = rows /\ nextFrom' = nextFrom /\ ownFrom' = ownFrom
        /\ call'[c].next = None /\ \A d \in Calls \ {c} : call'[d] = call[d]
        /\ owner' = "root" => owner = "root"
    BY <1>2 DEF BeginsCreation, BeginsRotation, BeginsRetirement, Began, db, history
  <2> QED
    BY <1>0, <1>k, <2>1
<1>4. ASSUME NEW c \in Calls, BeginsActivation(c) PROVE Unseen(v, t)'
  <2>1. /\ rows' = rows /\ nextFrom' = nextFrom /\ ownFrom' = ownFrom /\ owner' = owner
        /\ now >= nextFrom + MinPublished
    BY <1>4 DEF BeginsActivation, db
  <2>2. PICK n \in In(rows, "next") :
          call'[c].next = n /\ \A d \in Calls \ {c} : call'[d] = call[d]
    BY <1>4 DEF BeginsActivation, Began
  <2>3. v[n].state # "none"
    <3>1. ASSUME v[n].state = "none" PROVE FALSE
      <4>1. t <= nextFrom + Lag + Window
        BY <3>1 DEF Unseen, In
      <4>2. nextFrom \in Nat
        BY <1>0 DEF TypeOK
      <4> QED
        BY <1>0, <2>1, <4>1, <4>2, ConstantsAssumption
        DEF ConstantsAssumption, PublishedLongEnough, Window
    <3> QED
      BY <3>1
  <2> QED
    BY <2>1, <2>2, <2>3 DEF Unseen, Window
<1>6. ASSUME NEW c \in Calls, WritesKey(c) PROVE Unseen(v, t)'
  <2>1. PICK k \in Ids : Insert(k, "active", "created")
    BY <1>6 DEF WritesKey
  <2>2. /\ rows'[k].state = "active" /\ rows'[k].origin = "created"
        /\ \A m \in Ids \ {k} : rows'[m] = rows[m]
    BY <1>0, <2>1, InsertEffect
  <2>3. /\ \A m \in Ids : rows[m].state = "none"
        /\ \A d \in Calls : call[d].pc \in {"idle", "writeKey"}
    BY <1>6 DEF WritesKey, Orderly, Clean, Creating
  <2>4. ownFrom = None
    BY <2>3 DEF Handover, KeepsAKey, In
  <2>5. owner' # "root" /\ ownFrom' = now /\ t <= ownFrom' + Window
    BY <1>6, <2>4 DEF WritesKey, Lone, Creating
  <2>6. \A d \in Calls : call'[d].next = None
    BY <1>0, <1>6, <2>3, IdleFields
    DEF WritesKey, Returned, Paced, Shaped, Activating
  <2>7. \A m \in Ids \ {k} : rows'[m].state = "none" /\ rows'[m].origin = "shared"
    BY <1>m, <2>2, <2>3
  <2> QED
    BY <1>n, <2>2, <2>5, <2>6, <2>7 DEF Unseen, Window
<1>7. ASSUME NEW c \in Calls, InsertsNext(c) PROVE Unseen(v, t)'
  <2>1. PICK k \in Ids : Insert(k, "next", "rotated")
    BY <1>7 DEF InsertsNext
  <2>2. /\ rows[k].state = "none" /\ rows'[k].state = "next" /\ rows'[k].origin = "rotated"
        /\ \A m \in Ids \ {k} : rows'[m] = rows[m] /\ rows[m].state # "next"
    BY <1>0, <2>1, InsertEffect DEF SlotFree, In
  <2>3. t <= nextFrom' + Lag + Window
    <3>1. now <= call[c].at + Lag /\ nextFrom' = call[c].at /\ call[c].at \in Nat
      BY <1>0, <1>7 DEF InsertsNext, Paced, Timely, At, TypeOK, Call
    <3> QED
      BY <1>0, <3>1, ConstantsAssumption DEF ConstantsAssumption, Window
  <2>4. \A d \in Calls : call'[d].next \in {call[d].next, None} /\ call'[d].next # k
    <3>1. \A d \in Calls : call[d].next # k
      BY <1>n, <2>2 DEF Orderly, NextGoesOn, Activating
    <3> QED
      BY <1>7, <1>n, <3>1, IdleFields DEF InsertsNext, Returned
  <2>5. owner' = owner /\ ownFrom' = ownFrom
    BY <1>7 DEF InsertsNext, history
  <2> QED
    BY <1>n, <2>2, <2>3, <2>4, <2>5 DEF Unseen, Window
<1>8. ASSUME NEW c \in Calls, RetireOld(c) PROVE Unseen(v, t)'
  <2>1. PICK k \in call[c].old : Erase(k) /\ call' = [call EXCEPT ![c].old = @ \ {k}]
    BY <1>8 DEF RetireOld
  <2>2. k \in Ids /\ rows[k].state # "next"
    BY <1>0 DEF TypeOK, Call, Orderly, OldIsOver
  <2>3. /\ rows'[k].origin = rows[k].origin /\ rows'[k].state # "next"
        /\ \A m \in Ids \ {k} : rows'[m] = rows[m]
    BY <1>0, <2>1, <2>2, EraseEffect
  <2>4. \A d \in Calls : call'[d].next = call[d].next
    BY <1>0, <2>1, RetireOldEffect
  <2>5. nextFrom' = nextFrom /\ ownFrom' = ownFrom /\ owner' = owner
    BY <1>8 DEF RetireOld, history
  <2> QED
    BY <1>0, <1>k, <2>2, <2>3, <2>4, <2>5
<1>9. ASSUME NEW c \in Calls, Demote(c) PROVE Unseen(v, t)'
  <2>a. PICK a : a = call[c].active
    OBVIOUS
  <2>1. /\ a \in Ids /\ Move(a, "previous") /\ rows[a].state # "next"
        /\ nextFrom' = nextFrom /\ ownFrom' = ownFrom /\ owner' = owner
    BY <1>0, <1>9, <2>a DEF Demote, TypeOK, Call, Orderly, ActiveGivesWay
  <2>2. /\ rows'[a].origin = rows[a].origin /\ rows'[a].state # "next"
        /\ \A m \in Ids \ {a} : rows'[m] = rows[m]
    BY <1>0, <2>1, MoveEffect
  <2>3. \A d \in Calls : call'[d].next = call[d].next
    BY <1>0, <1>9, DemoteEffect
  <2> QED
    BY <1>0, <1>k, <2>1, <2>2, <2>3
<1>10. ASSUME NEW c \in Calls, AddShared(c) PROVE Unseen(v, t)'
  <2>1. PICK k \in Ids : Insert(k, "previous", "shared")
    BY <1>10 DEF AddShared
  <2>2. /\ rows[k].state = "none" /\ rows'[k].state = "previous" /\ rows'[k].origin = "shared"
        /\ \A m \in Ids \ {k} : rows'[m] = rows[m]
    BY <1>0, <2>1, InsertEffect
  <2>3. \A d \in Calls : call'[d].next = call[d].next
    BY <1>0, <1>10, AddSharedEffect
  <2>4. nextFrom' = nextFrom /\ ownFrom' = ownFrom /\ owner' = owner
    BY <1>10 DEF AddShared, history
  <2> QED
    BY <1>0, <1>k, <2>2, <2>3, <2>4
<1>11. ASSUME NEW c \in Calls, Promotes(c) PROVE Unseen(v, t)'
  <2>a. PICK n : n = call[c].next
    OBVIOUS
  <2>1. /\ n \in Ids /\ Move(n, "active") /\ nextFrom' = nextFrom /\ owner' = owner
        /\ ownFrom # None => ownFrom' = ownFrom
    BY <1>11, <2>a DEF Promotes, Promote
  <2>2. rows[n].state \in {"next", "active"}
    BY <1>n, <2>a, <2>1 DEF Orderly, NextGoesOn, Activating
  <2>3. /\ rows'[n].state = "active" /\ rows'[n].origin = rows[n].origin
        /\ \A m \in Ids \ {n} : rows'[m] = rows[m]
    BY <1>0, <2>1, <2>2, MoveEffect
  <2>4. \A d \in Calls : call'[d].next \in {call[d].next, None}
    BY <1>0, <1>11, PromoteEffect DEF Promotes
  <2>5. v[n].state # "none"
    BY <2>a, <2>1 DEF Unseen
  <2>6. \A k \in Ids : rows[k].origin = "created" => ownFrom # None
    BY OwnSince
  <2> QED
    BY <1>n, <2>1, <2>3, <2>4, <2>5, <2>6 DEF Unseen, Window
<1>12. ASSUME NEW c \in Calls, Prune(c) PROVE Unseen(v, t)'
  <2>1. /\ nextFrom' = nextFrom /\ ownFrom' = ownFrom /\ owner' = owner
        /\ \A d \in Calls : call'[d] = call[d] \/ call'[d] = Idle
    BY <1>0, <1>12, ReturnEffect DEF Prune, history
  <2>2. \A k \in Ids : /\ rows'[k].origin = rows[k].origin
                       /\ \/ rows'[k].state = rows[k].state
                          \/ rows[k].state = "retired" /\ rows'[k].state = "deleted"
    BY <1>0, <1>12, PruneEffect
  <2> QED
    BY <1>0, <1>k, <2>1, <2>2, IdleFields
<1> QED
  BY <1>0, <1>1, <1>2, <1>4, <1>6, <1>7, <1>8, <1>9, <1>10, <1>11, <1>12, Kinds

(* A row that v relies on, when nothing more happens to it than that it gives way. *)
LEMMA ReliableKept ==
  ASSUME Owned, Orderly, [Next]_vars, NEW v, NEW t \in Nat, t <= now + Window, Reliable(v, t),
         ownFrom # None, NEW k \in Ids, Relies(v, k)', rows[k].state # "none",
         \/ rows'[k].state = rows[k].state
         \/ rows[k].state = "retired"
         \/ BeingRetired(k)
         \/ rows'[k].state = "active"
         \/ rows'[k].state = "previous" /\ Fading(t)',
         BeingRetired(k)' => BeingRetired(k)
  PROVE  /\ rows'[k].state = "previous" => Fading(t)'
         /\ rows'[k].state \notin {"retired", "deleted"}
         /\ ~BeingRetired(k)'
<1>0. Paced /\ GoOn
  BY RowsGoOn DEF Owned
<1>1. Relies(v, k)
  BY <1>0, ReliedBefore
<1>2. /\ rows[k].state = "previous" => Fading(t)
      /\ rows[k].state \notin {"retired", "deleted"}
      /\ ~BeingRetired(k)
  BY <1>1 DEF Reliable
<1>3. Fading(t) => Fading(t)'
  BY <1>0, FadingStep
<1> QED
  BY <1>2, <1>3

(* A row that has not been made yet, v has not seen; made, it is relied on or not. *)
LEMMA NotMade ==
  ASSUME Owned, NEW v, Older(v), NEW k \in Ids, rows[k].state = "none"
  PROVE  v[k].state = "none" /\ rows[k].origin = "shared"
  BY DEF Older, Onward, Owned, IInv, NoneIsNoRow

LEMMA StillNotMade ==
  ASSUME Owned, NEW v, Older(v), NEW k \in Ids, rows[k].state = "none", rows'[k] = rows[k]
  PROVE  ~Relies(v, k)'
<1>1. v[k].state = "none" /\ rows[k].origin = "shared"
  BY NotMade
<1> QED
  BY <1>1 DEF Relies, BeforeCreated, BeforeOwn

LEMMA ReliableRetirement ==
  ASSUME Owned, Orderly, [Next]_vars, PublishedLongEnough, RetireWaits,
         NEW v, NEW t \in Nat, now < t, t <= now + Window, Older(v), Reliable(v, t),
         rows' = rows, ownFrom' = ownFrom, In(rows, "active") # {},
         Waited \/ (In(rows, "next") # {} /\ now >= nextFrom + MinPublished),
         NEW c \in Calls, call'[c].old = In(rows, "previous"),
         \A d \in Calls \ {c} : call'[d] = call[d]
  PROVE  Reliable(v, t)'
<1>0. Paced
  BY DEF Owned
<1> SUFFICES ASSUME ownFrom # None, NEW k \in Ids, Relies(v, k)'
             PROVE  /\ rows'[k].state = "previous" => Fading(t)'
                    /\ rows'[k].state \notin {"retired", "deleted"}
                    /\ ~BeingRetired(k)'
  BY DEF Reliable
<1>1. rows[k].state # "none"
  BY StillNotMade
<1>2. Relies(v, k)
  <2>1. GoOn
    BY <1>0, RowsGoOn
  <2> QED
    BY <1>1, <2>1, ReliedBefore
<1>3. rows[k].state # "previous"
  BY <1>0, <1>2, FadedAway DEF Reliable
<1>4. BeingRetired(k)' => BeingRetired(k)
  BY <1>3 DEF BeingRetired, At, In
<1> QED
  BY <1>1, <1>4, ReliableKept

LEMMA ReliableStep ==
  ASSUME Owned, Owned', Orderly, Handover, PublishedLongEnough, RetireWaits, ~hasty', [Next]_vars,
         NEW v, NEW t \in Nat, now < t, t <= now + Window, Older(v), Reliable(v, t), Grounded(v)
  PROVE  Reliable(v, t)'
<1>0. TypeOK /\ Paced /\ GoOn
  BY RowsGoOn DEF Owned, Paced
<1> DEFINE Safe(k) == /\ rows'[k].state = "previous" => Fading(t)'
                      /\ rows'[k].state \notin {"retired", "deleted"}
                      /\ ~BeingRetired(k)'
<1>k. ASSUME ownFrom' = ownFrom,
             \A k \in Ids : /\ BeingRetired(k)' => BeingRetired(k)
                            /\ \/ rows'[k] = rows[k]
                               \/ rows[k].state = "retired" /\ rows'[k].state # "previous"
                               \/ BeingRetired(k) /\ rows[k].state # "none"
                               \/ ~Relies(v, k)'
                               \/ rows[k].state # "none" /\ rows'[k].state = "previous" /\ Fading(t)'
      PROVE  Reliable(v, t)'
  <2> SUFFICES ASSUME ownFrom # None, NEW k \in Ids, Relies(v, k)' PROVE Safe(k)
    BY <1>k DEF Reliable
  <2>1. rows[k].state # "none"
    BY <1>k, StillNotMade
  <2> QED
    BY <1>k, <2>1, ReliableKept
<1>1. CASE Rests
  <2>1. /\ rows' = rows /\ ownFrom' = ownFrom
        /\ \A d \in Calls : call'[d] = call[d] \/ call'[d] = Idle
    BY <1>1 DEF Rests, Returned, history
  <2>2. \A k \in Ids : BeingRetired(k)' => BeingRetired(k)
    BY <2>1, IdleFields DEF BeingRetired, At
  <2> QED
    BY <1>k, <2>1, <2>2
<1>2. ASSUME NEW c \in Calls, BeginsCreation(c) \/ BeginsRotation(c) PROVE Reliable(v, t)'
  <2>1. /\ rows' = rows /\ ownFrom' = ownFrom
        /\ call'[c].pc # "retire" /\ \A d \in Calls \ {c} : call'[d] = call[d]
    BY <1>2 DEF BeginsCreation, BeginsRotation, Began, db, history
  <2>2. \A k \in Ids : BeingRetired(k)' => BeingRetired(k)
    BY <2>1 DEF BeingRetired, At
  <2> QED
    BY <1>k, <2>1, <2>2
<1>4. ASSUME NEW c \in Calls, BeginsActivation(c) PROVE Reliable(v, t)'
  <2>1. /\ rows' = rows /\ ownFrom' = ownFrom
        /\ now >= nextFrom + MinPublished /\ In(rows, "next") # {}
        /\ \A d \in Calls \ {c} : call'[d] = call[d]
    BY <1>4 DEF BeginsActivation, Began, db
  <2>2. CASE In(rows, "active") # {}
    <3>1. call'[c].old = In(rows, "previous")
      BY <1>4, <2>2 DEF BeginsActivation, Began
    <3> QED
      BY <2>1, <2>2, <3>1, ReliableRetirement
  <2>3. CASE In(rows, "active") = {}
    <3>1. call'[c].pc # "retire"
      BY <1>4, <2>3 DEF BeginsActivation, Began
    <3>2. \A k \in Ids : BeingRetired(k)' => BeingRetired(k)
      BY <2>1, <3>1 DEF BeingRetired, At
    <3> QED
      BY <1>k, <2>1, <3>2
  <2> QED
    BY <2>2, <2>3
<1>5. ASSUME NEW c \in Calls, BeginsRetirement(c) PROVE Reliable(v, t)'
  <2>1. /\ rows' = rows /\ ownFrom' = ownFrom /\ Waited
        /\ call'[c].old = In(rows, "previous") /\ \A d \in Calls \ {c} : call'[d] = call[d]
    BY <1>5 DEF BeginsRetirement, Began, db
  <2>2. In(rows, "active") # {}
    BY <2>1 DEF Waited
  <2> QED
    BY <2>1, <2>2, ReliableRetirement
<1>6. ASSUME NEW c \in Calls, WritesKey(c) PROVE Reliable(v, t)'
  <2>1. PICK k \in Ids : Insert(k, "active", "created")
    BY <1>6 DEF WritesKey
  <2>2. /\ rows'[k].state = "active" /\ \A m \in Ids \ {k} : rows'[m] = rows[m]
    BY <1>0, <2>1, InsertEffect
  <2>3. /\ \A m \in Ids : rows[m].state = "none"
        /\ \A d \in Calls : call[d].pc \in {"idle", "writeKey"}
    BY <1>6 DEF WritesKey, Orderly, Clean, Creating
  <2>4. \A m \in Ids : ~BeingRetired(m)'
    BY <1>6, <2>3, IdleFields DEF WritesKey, Returned, BeingRetired, At
  <2> QED
    BY <2>2, <2>3, <2>4 DEF Reliable
<1>7. ASSUME NEW c \in Calls, InsertsNext(c) PROVE Reliable(v, t)'
  <2>1. PICK k \in Ids : Insert(k, "next", "rotated")
    BY <1>7 DEF InsertsNext
  <2>2. /\ rows[k].state = "none" /\ rows'[k].origin = "rotated"
        /\ \A m \in Ids \ {k} : rows'[m] = rows[m]
    BY <1>0, <2>1, InsertEffect
  <2>3. v[k].state = "none"
    BY <2>2, NotMade
  <2>4. ~Relies(v, k)'
    BY <2>2, <2>3 DEF Relies, BeforeCreated, BeforeOwn
  <2>5. \A m \in Ids : BeingRetired(m)' => BeingRetired(m)
    BY <1>7, IdleFields DEF InsertsNext, Returned, BeingRetired, At
  <2>6. ownFrom' = ownFrom
    BY <1>7 DEF InsertsNext, history
  <2> QED
    BY <1>k, <2>2, <2>4, <2>5, <2>6
<1>8. ASSUME NEW c \in Calls, RetireOld(c) PROVE Reliable(v, t)'
  <2>1. PICK k \in call[c].old : Erase(k) /\ call' = [call EXCEPT ![c].old = @ \ {k}]
    BY <1>8 DEF RetireOld
  <2>2. k \in Ids /\ BeingRetired(k) /\ ownFrom' = ownFrom /\ rows[k].state # "none"
    BY <1>0, <1>8 DEF RetireOld, TypeOK, Call, BeingRetired, history, Orderly, OldIsOver
  <2>3. \A m \in Ids \ {k} : rows'[m] = rows[m]
    BY <1>0, <2>1, <2>2, EraseEffect
  <2>4. \A d \in Calls : call'[d].pc = call[d].pc /\ call'[d].old \subseteq call[d].old
    BY <1>0, <2>1, RetireOldEffect
  <2>5. \A m \in Ids : BeingRetired(m)' => BeingRetired(m)
    BY <2>4 DEF BeingRetired, At
  <2> QED
    BY <1>k, <2>2, <2>3, <2>5
<1>9. ASSUME NEW c \in Calls, Demote(c) PROVE Reliable(v, t)'
  <2>a. PICK a : a = call[c].active
    OBVIOUS
  <2>1. /\ a \in Ids /\ Move(a, "previous") /\ rows[a].state \in {"active", "previous"}
        /\ ownFrom' = ownFrom /\ switched' = now
    BY <1>0, <1>9, <2>a DEF Demote, TypeOK, Call, Orderly, ActiveGivesWay
  <2>2. /\ rows'[a].state = "previous" /\ \A m \in Ids \ {a} : rows'[m] = rows[m]
    BY <1>0, <2>1, MoveEffect
  <2>3. \A d \in Calls : /\ call'[d].pc \in {call[d].pc, "promote"} /\ call'[d].old = call[d].old
    BY <1>0, <1>9, DemoteEffect
  <2>4. \A m \in Ids : BeingRetired(m)' => BeingRetired(m)
    BY <2>3 DEF BeingRetired, At
  <2>5. CASE rows[a].state = "active"
    <3>1. In(rows, "active")' = {}
      BY <1>0, <2>1, <2>2, <2>5 DEF Paced, OneEach, In
    <3>2. Fading(t)'
      BY <1>0, <2>1, <3>1, FadingBegins
    <3> QED
      BY <1>k, <2>1, <2>2, <2>4, <2>5, <3>2
  <2>6. CASE rows[a].state = "previous"
    <3> SUFFICES ASSUME ownFrom # None, NEW k \in Ids, Relies(v, k)' PROVE Safe(k)
      BY <2>1 DEF Reliable
    <3>1. rows'[k].state = rows[k].state
      BY <2>2, <2>6
    <3>2. rows[k].state # "none"
      BY <2>2, <2>6, StillNotMade
    <3> QED
      BY <2>4, <3>1, <3>2, ReliableKept
  <2> QED
    BY <2>1, <2>5, <2>6
<1>10. ASSUME NEW c \in Calls, AddShared(c) PROVE Reliable(v, t)'
  <2>1. PICK k \in Ids : Insert(k, "previous", "shared")
    BY <1>10 DEF AddShared
  <2>2. /\ rows[k].state = "none" /\ rows'[k].state = "previous" /\ rows'[k].origin = "shared"
        /\ \A m \in Ids \ {k} : rows'[m] = rows[m]
    BY <1>0, <2>1, InsertEffect
  <2>3. \A d \in Calls : call'[d].pc \in {call[d].pc, "promote"} /\ call'[d].old = call[d].old
    BY <1>0, <1>10, AddSharedEffect
  <2>4. ownFrom' = ownFrom
    BY <1>10 DEF AddShared, history
  <2>5. \A m \in Ids : BeingRetired(m)' => BeingRetired(m)
    BY <2>3 DEF BeingRetired, At
  <2> SUFFICES ASSUME ownFrom # None, NEW m \in Ids, Relies(v, m)' PROVE Safe(m)
    BY <2>4 DEF Reliable
  <2>6. CASE m # k
    <3>1. rows'[m] = rows[m] /\ rows[m].state # "none"
      BY <2>2, <2>6, StillNotMade
    <3> QED
      BY <2>5, <3>1, ReliableKept
  <2>7. CASE m = k
    <3>1. v[k].state = "none"
      BY <2>2, NotMade
    <3>u. Unused(v)' <=> Unused(v)
      BY DEF Unused, Own
    <3>2. Unused(v)
      BY <2>2, <2>7, <3>1, <3>u DEF Relies, BeforeCreated, BeforeOwn
    <3>3. ~HasCreated
      BY <1>10 DEF Handover, CreatedAlone, AddShared
    <3>4. PICK s \in Ids : rows[s].origin = "shared" /\ rows[s].state # "none"
      BY <3>2, <3>3 DEF Grounded, BeforeCreated, BeforeOwn, HasCreated
    <3>5. Relies(v, s)
      BY <3>2, <3>4 DEF Relies, BeforeOwn
    <3>6. rows[s].state = "previous"
      <4>1. rows[s].state \notin {"retired", "deleted"}
        BY <3>5 DEF Reliable
      <4>2. rows[s].state # "active" /\ rows[s].state # "next"
        BY <3>4 DEF Owned, ActiveIsOwn, IInv, NextIsLatest, Rotated
      <4> QED
        BY <1>0, <3>4, <4>1, <4>2 DEF TypeOK, View, Row, States
    <3>7. Fading(t)'
      BY <1>0, <3>5, <3>6, FadingStep DEF Reliable
    <3>8. ~BeingRetired(k)
      BY <2>2 DEF BeingRetired, Orderly, OldIsOver
    <3> QED
      BY <2>2, <2>5, <2>7, <3>7, <3>8
  <2> QED
    BY <2>6, <2>7
<1>11. ASSUME NEW c \in Calls, Promotes(c) PROVE Reliable(v, t)'
  <2>a. PICK n : n = call[c].next
    OBVIOUS
  <2>1. /\ n \in Ids /\ n # None /\ Move(n, "active") /\ switched' = now
        /\ ownFrom # None => ownFrom' = ownFrom
    BY <1>11, <2>a, ConstantsAssumption DEF ConstantsAssumption, Ids, Promotes, Promote
  <2>2. rows[n].state \in {"next", "active"} /\ rows[n].origin # "shared"
    BY <2>a, <2>1 DEF Orderly, NextGoesOn, Activating, Owned, CallsMoveOwn
  <2>3. rows'[n].state = "active" /\ \A m \in Ids \ {n} : rows'[m] = rows[m]
    BY <1>0, <2>1, <2>2, MoveEffect
  <2>4. \A d \in Calls : call'[d].pc \in {call[d].pc, "prune"} /\ call'[d].old \subseteq call[d].old
    BY <1>0, <1>11, PromoteEffect DEF Promotes
  <2>5. \A m \in Ids : BeingRetired(m)' => BeingRetired(m)
    BY <2>4 DEF BeingRetired, At
  <2> SUFFICES ASSUME NEW m \in Ids, Relies(v, m)' PROVE Safe(m)
    BY DEF Reliable
  <2>6. rows[m].state # "none"
    BY <2>2, <2>3, StillNotMade
  <2>7. CASE ownFrom # None
    BY <2>3, <2>5, <2>6, <2>7, ReliableKept
  <2>8. CASE ownFrom = None
    <3>1. ~BeingRetired(m)'
      BY <2>5, <2>8 DEF Handover, NothingRetired, BeingRetired
    <3>2. rows[n].state = "next"
      BY <2>1, <2>2, <2>8 DEF Owned, NoneYet
    <3>3. In(rows, "next")' = {}
      BY <1>0, <2>1, <2>3, <3>2 DEF Paced, OneEach, In
    <3>4. \A r \in Calls : ~At(r, "insert")'
      <4>1. \A r \in Calls : ~At(r, "insert")
        BY <2>a, <2>1, <3>2 DEF Orderly, RotationsInOrder, Activating
      <4> QED
        BY <2>4, <4>1 DEF At
    <3>5. Fading(t)'
      BY <1>0, <2>1, <3>3, <3>4, FadingBegins
    <3>6. rows'[m].state \notin {"retired", "deleted"}
      BY <2>3, <2>8 DEF Handover, NothingRetired
    <3> QED
      BY <3>1, <3>5, <3>6
  <2> QED
    BY <2>7, <2>8
<1>12. ASSUME NEW c \in Calls, Prune(c) PROVE Reliable(v, t)'
  <2>1. ownFrom' = ownFrom /\ \A d \in Calls : call'[d] = call[d] \/ call'[d] = Idle
    BY <1>0, <1>12, ReturnEffect DEF Prune, history
  <2>2. \A k \in Ids : rows'[k] = rows[k] \/ (rows[k].state = "retired" /\ rows'[k].state # "previous")
    BY <1>0, <1>12 DEF Prune, In, TypeOK, View, Row
  <2>3. \A k \in Ids : BeingRetired(k)' => BeingRetired(k)
    BY <2>1, IdleFields DEF BeingRetired, At
  <2> QED
    BY <1>k, <2>1, <2>2, <2>3
<1> QED
  BY <1>0, <1>1, <1>2, <1>4, <1>5, <1>6, <1>7, <1>8, <1>9, <1>10, <1>11, <1>12, Kinds

LEMMA GoodStep ==
  ASSUME Owned, Owned', Lone, Orderly, Handover, PublishedLongEnough, RetireWaits, ~hasty',
         [Next]_vars, NEW v, NEW t \in Nat, now < t, t <= now + Window, Good(v, t)
  PROVE  Good(v, t)'
<1>1. Older(v) /\ SignsOwn(v) /\ Reliable(v, t) /\ Grounded(v) /\ Unseen(v, t)
  BY DEF Good
<1>2. Older(v)' /\ SignsOwn(v)' /\ Grounded(v)'
  BY <1>1, OlderStep, SignsOwnStep, GroundedStep DEF Owned
<1>3. Reliable(v, t)' /\ Unseen(v, t)'
  BY <1>1, ReliableStep, UnseenStep
<1> QED
  BY <1>2, <1>3 DEF Good

-----------------------------------------------------------------------------
(* As long as one isolate may sign with the shared key, those that sign with an own key *)
(* publish the shared one, unless the tenant was created with keys.                     *)
InSight ==
  \A x, y \in Copies :
    Unused(x.view) /\ In(y.view, "active") # {} => ShowsShared(y.view) \/ HasCreated

VInv ==
  /\ Owned /\ KInv
  /\ ~hasty => Handover /\ InSight /\ \A x \in Copies : Good(x.view, x.until)

LEMMA VInvInit == Init => VInv
<1> SUFFICES ASSUME Init PROVE VInv
  OBVIOUS
<1>1. Copies = {}
  BY DEF Init, Copies
<1> QED
  BY <1>1, OInvInit, KInvInit, HandoverInit DEF VInv, OInv, InSight

LEMMA SharedIsPrevious ==
  ASSUME Owned, NEW s \in Ids, rows[s].origin = "shared",
         rows[s].state \notin {"none", "retired", "deleted"}
  PROVE  rows[s].state = "previous"
<1>1. rows[s].state # "active" /\ rows[s].state # "next"
  BY DEF Owned, ActiveIsOwn, IInv, NextIsLatest, Rotated
<1> QED
  BY <1>1 DEF Owned, Paced, TypeOK, View, Row, States

(* The same of the rows themselves. *)
LEMMA Sighted ==
  ASSUME VInv, ~hasty, NEW v, NEW w, Unused(v), In(w, "active") # {},
         v = rows \/ \E x \in Copies : x.view = v,
         w = rows \/ \E x \in Copies : x.view = w
  PROVE  ShowsShared(w) \/ HasCreated
<1>0. Owned /\ Handover /\ InSight /\ \A x \in Copies : Good(x.view, x.until)
  BY DEF VInv
<1>1. ownFrom # None
  <2>1. PICK m \in Ids : w[m].state = "active"
    BY DEF In
  <2>2. rows[m].origin # "shared" /\ rows[m].state # "next"
    <3>1. CASE w = rows
      BY <1>0, <2>1, <3>1 DEF Owned, ActiveIsOwn
    <3>2. ASSUME NEW x \in Copies, x.view = w PROVE rows[m].origin # "shared" /\ rows[m].state # "next"
      BY <1>0, <2>1, <3>2 DEF Good, Older, SignsOwn, Onward
    <3> QED
      BY <3>1, <3>2
  <2> QED
    BY <1>0, <2>2 DEF Owned, NoneYet
<1>2. CASE v = rows
  <2>1. \A k \in Ids : rows[k].state = "active" => rows[k].origin # "shared"
    BY <1>0 DEF Owned, ActiveIsOwn
  <2>2. ~Unused(rows)
    BY <1>0, <1>1, <2>1 DEF Handover, KeepsAKey, Unused, Own, In, States
  <2> QED
    BY <1>2, <2>2
<1>3. ASSUME NEW x \in Copies, x.view = v PROVE ShowsShared(w) \/ HasCreated
  <2>1. ASSUME NEW y \in Copies, y.view = w PROVE ShowsShared(w) \/ HasCreated
    BY <1>0, <1>3, <2>1 DEF InSight
  <2>2. CASE w = rows
    <3>1. Reliable(v, x.until) /\ Grounded(v)
      BY <1>0, <1>3 DEF Good
    <3>2. PICK k \in Ids : BeforeCreated(v, k) \/ BeforeOwn(v, k)
      BY <1>1, <3>1 DEF Grounded
    <3>3. CASE BeforeOwn(v, k)
      <4>1. rows[k].origin = "shared" /\ rows[k].state # "none"
        BY <3>3 DEF BeforeOwn
      <4>2. rows[k].state \notin {"retired", "deleted"}
        BY <1>1, <3>1, <3>3 DEF Reliable, Relies
      <4>3. rows[k].state = "previous"
        BY <1>0, <4>1, <4>2, SharedIsPrevious
      <4> QED
        BY <2>2, <4>1, <4>3 DEF ShowsShared, In
    <3> QED
      BY <3>2, <3>3 DEF BeforeCreated, HasCreated
  <2> QED
    BY <2>1, <2>2
<1> QED
  BY <1>2, <1>3

LEMMA GoodShorterAll ==
  Owned => \A v : \A t, s \in Nat : s <= t /\ Good(v, t) => Good(v, s)
  BY GoodShorter

LEMMA GoodShorterNext ==
  Owned' => \A v : \A t, s \in Nat : s <= t /\ Good(v, t)' => Good(v, s)'
<1>1. (Owned => \A v : \A t, s \in Nat : s <= t /\ Good(v, t) => Good(v, s))'
  BY GoodShorterAll, PTL
<1> QED
  BY <1>1

(* A copy after a step shows what one showed before it, or what has just been read. *)
LEMMA CopyBefore ==
  ASSUME Paced, Paced', [Next]_vars, NEW x \in Copies'
  PROVE  \/ \E y \in Copies : y.view = x.view /\ x.until <= y.until
         \/ x.view = rows /\ x.until <= now + Window
<1>1. x.until \in Nat /\ now \in Nat
  BY CopyTypesNext DEF Paced, TypeOK
<1>2. ASSUME NEW i \in Isolates, Load(i)
      PROVE  x \in Copies \/ (x.view = rows /\ x.until <= now + Window)
  <2>1. now + Window <= now + Window
    BY <1>1, ConstantsAssumption DEF ConstantsAssumption, Window
  <2> QED
    BY <1>2, <2>1, LoadCopies
<1>3. CASE ~\E i \in Isolates : Load(i)
  BY <1>3, CopiesHeld DEF Held
<1> QED
  BY <1>1, <1>2, <1>3

LEMMA LongEnough == PublishedLongEnough => NextOutlastsCalls
  BY ConstantsAssumption DEF ConstantsAssumption, PublishedLongEnough, NextOutlastsCalls

LEMMA VInvStep == PublishedLongEnough /\ RetireWaits /\ VInv /\ [Next]_vars => VInv'
<1> SUFFICES ASSUME PublishedLongEnough, RetireWaits, VInv, [Next]_vars PROVE VInv'
  OBVIOUS
<1>0. Owned /\ Owned' /\ KInv /\ KInv' /\ Paced /\ Paced' /\ Lone
  BY OwnedStep, KInvStep, LongEnough DEF VInv, Owned, KInv
<1> SUFFICES ASSUME ~hasty'
             PROVE  Handover' /\ InSight' /\ \A x \in Copies' : Good(x.view, x.until)'
  BY <1>0 DEF VInv
<1>1. ~hasty /\ Orderly /\ Handover /\ \A x \in Copies : Good(x.view, x.until)
  BY <1>0, HastyStep DEF VInv, KInv
<1>2. Handover'
  BY <1>0, <1>1, HandoverStep
<1>3. GoOn
  BY <1>0, <1>1, RowsGoOn
<1>4. InSight'
  <2> SUFFICES ASSUME NEW x \in Copies', NEW y \in Copies', Unused(x.view), In(y.view, "active") # {}
               PROVE  ShowsShared(y.view) \/ HasCreated'
    <3>1. \A v : (Unused(v)' <=> Unused(v)) /\ In(v, "active")' = In(v, "active")
      BY DEF Unused, Own, In
    <3>2. \A v : ShowsShared(v)' <=> ShowsShared(v)
      BY DEF ShowsShared, In
    <3> QED
      BY <3>1, <3>2 DEF InSight
  <2>1. ShowsShared(y.view) \/ HasCreated
    <3>1. /\ x.view = rows \/ \E z \in Copies : z.view = x.view
          /\ y.view = rows \/ \E z \in Copies : z.view = y.view
      BY <1>0, CopyBefore
    <3> QED
      BY <1>1, <3>1, Sighted
  <2>2. HasCreated => HasCreated'
    BY <1>0, <1>3 DEF HasCreated, GoOn, Owned, IInv, NoneIsNoRow
  <2> QED
    BY <2>1, <2>2
<1>5. ASSUME NEW x \in Copies' PROVE Good(x.view, x.until)'
  <2>0. x.until \in Nat /\ now \in Nat /\ now + Window \in Nat /\ now < now + Window
    BY <1>0, CopyTypesNext, ConstantsAssumption DEF ConstantsAssumption, Paced, TypeOK, Window
  <2>1. ASSUME NEW y \in Copies, y.view = x.view, x.until <= y.until PROVE Good(x.view, x.until)'
    <3>1. y.until \in Nat /\ now < y.until /\ y.until <= now + Window
      BY <1>0, CopyType
    <3>2. Good(x.view, y.until)
      BY <1>1, <2>1
    <3>3. Good(x.view, y.until)'
      BY <1>0, <1>1, <3>1, <3>2, GoodStep
    <3> QED
      BY <1>0, <2>0, <2>1, <3>1, <3>3, GoodShorterNext
  <2>2. CASE x.view = rows /\ x.until <= now + Window
    <3>d. PICK t : t = now + Window
      OBVIOUS
    <3>1. Good(x.view, t)
      BY <1>0, <1>1, <2>2, GoodRead
    <3>2. t \in Nat /\ now < t /\ t <= now + Window
      BY <2>0, <3>d
    <3>3. Good(x.view, t)'
      BY <1>0, <1>1, <3>1, <3>2, GoodStep
    <3> QED
      BY <1>0, <2>0, <2>2, <3>d, <3>2, <3>3, GoodShorterNext
  <2> QED
    BY <1>0, <2>1, <2>2, CopyBefore
<1> QED
  BY <1>2, <1>4, <1>5

(* The signer that an isolate picks is its only active key, or the shared key. *)
LEMMA SignerIs ==
  ASSUME NEW v, Signer(v) # None
  PROVE  \/ Signer(v) = Shared /\ Unused(v) /\ owner # "root"
         \/ In(v, "active") = {Signer(v)}
<1> DEFINE usable == {k \in In(v, "active") : v[k].key}
<1>1. usable # {} => (CHOOSE k \in usable : TRUE) \in usable
  OBVIOUS
<1>2. usable \subseteq In(v, "active") /\ In(v, "active") \subseteq Ids
  BY DEF In
<1> HIDE DEF usable
<1>3. Signer(v) = IF owner # "root" /\ In(v, "active") = {} /\ \A k \in Own(v) : v[k].state = "next"
                    THEN Shared
                  ELSE IF Cardinality(In(v, "active")) = 1 /\ usable # {}
                    THEN CHOOSE k \in usable : TRUE ELSE None
  BY DEF Signer, usable
<1>4. CASE owner # "root" /\ In(v, "active") = {} /\ \A k \in Own(v) : v[k].state = "next"
  BY <1>3, <1>4 DEF Unused
<1>5. CASE ~(owner # "root" /\ In(v, "active") = {} /\ \A k \in Own(v) : v[k].state = "next")
  <2>1. Cardinality(In(v, "active")) = 1 /\ Signer(v) \in In(v, "active")
    BY <1>1, <1>2, <1>3, <1>5
  <2>2. IsFiniteSet(In(v, "active"))
    BY <1>2, IdsFinite
  <2>3. PICK m : In(v, "active") = {m}
    BY <2>1, <2>2, FS_Singleton
  <2> QED
    BY <2>1, <2>3
<1> QED
  BY <1>4, <1>5

(* What has the row of a signer's key as a next, the active or a previous one publishes it. *)
LEMMA KeyPublished ==
  ASSUME NEW w, NEW k \in Ids, w[k].state \in {"next", "active", "previous"},
         w[k].origin # "shared", Signer(w) # None
  PROVE  k \in Published(w)
<1>1. Published(w) = {Signer(w)} \cup Beside(w)
  BY DEF Published
<1>2. CASE w[k].state = "active"
  <2>1. In(w, "active") # {} /\ k \in In(w, "active")
    BY <1>2 DEF In
  <2>2. ~Unused(w)
    BY <1>2 DEF Unused, Own, States
  <2> QED
    BY <1>1, <2>1, <2>2, SignerIs
<1>3. CASE w[k].state \in {"next", "previous"}
  <2>1. k \in Beside(w)
    BY <1>3 DEF Beside, In
  <2> QED
    BY <1>1, <2>1
<1> QED
  BY <1>2, <1>3

LEMMA VPublishes == VInv => SignerIsPublished
<1> SUFFICES ASSUME VInv, ~hasty, Settled, NEW v \in InUse, NEW w \in InUse,
                    Signer(v) # None, Published(w) # {}
             PROVE  Signer(v) \in Published(w)
  BY DEF SignerIsPublished
<1>0. /\ Owned /\ Paced /\ Orderly /\ Handover /\ now \in Nat
      /\ \A x \in Copies : Good(x.view, x.until)
  BY DEF VInv, KInv, Owned, Paced, TypeOK
<1>1. /\ v = rows \/ \E x \in Copies : x.view = v
      /\ w = rows \/ \E x \in Copies : x.view = w
  BY <1>0, InUseCopies
<1>2. Signer(w) # None /\ Published(w) = {Signer(w)} \cup Beside(w)
  BY DEF Published
(* The tenant's first key is not new any more. *)
<1>s. ASSUME NEW k \in Ids, rows[k].origin = "created", rows[k].state \notin {"none", "deleted"},
             owner # "root", NEW x \in Copies, x.until <= ownFrom + Window
      PROVE  FALSE
  <2>1. k \in Own(rows)
    BY <1>0, <1>s DEF Own, Paced, TypeOK, View, Row
  <2>2. now >= ownFrom + CacheTime + Lag
    BY <1>s, <2>1 DEF Settled
  <2>3. now < x.until /\ x.until \in Nat
    BY <1>0, CopyType
  <2>4. ownFrom \in Nat
    BY <1>0, <1>s, OwnSince DEF Paced, TypeOK
  <2> QED
    BY <1>0, <1>s, <2>2, <2>3, <2>4, ConstantsAssumption DEF ConstantsAssumption, Window
<1>3. ASSUME NEW k \in Ids, Signer(v) = k, v[k].state = "active" PROVE k \in Published(w)
  <2>1. rows[k].state \in {"active", "previous"} /\ rows[k].origin # "shared"
    <3>1. CASE v = rows
      BY <1>0, <1>3, <3>1 DEF Owned, ActiveIsOwn
    <3>2. ASSUME NEW x \in Copies, x.view = v
          PROVE  rows[k].state \in {"active", "previous"} /\ rows[k].origin # "shared"
      <4>1. Older(v) /\ SignsOwn(v) /\ Reliable(v, x.until)
        BY <1>0, <3>2 DEF Good
      <4>2. rows[k].state \in {"active", "previous", "retired", "deleted"} /\ rows[k].origin # "shared"
        BY <1>3, <4>1 DEF Older, SignsOwn, Onward
      <4>3. ownFrom # None
        BY <1>0, <4>2 DEF Owned, NoneYet
      <4>4. rows[k].state \notin {"retired", "deleted"}
        BY <1>3, <4>1, <4>3 DEF Reliable, Relies
      <4> QED
        BY <4>2, <4>4
    <3> QED
      BY <1>1, <3>1, <3>2
  <2>2. CASE w = rows
    BY <1>2, <2>1, <2>2, KeyPublished
  <2>3. ASSUME NEW y \in Copies, y.view = w PROVE k \in Published(w)
    <3>1. Older(w) /\ Unseen(w, y.until)
      BY <1>0, <2>3 DEF Good
    <3>2. w[k].state # "none"
      <4> SUFFICES ASSUME w[k].state = "none" PROVE FALSE
        OBVIOUS
      <4>1. rows[k].origin = "created" /\ owner # "root" /\ y.until <= ownFrom + Window
        BY <1>0, <2>1, <3>1 DEF Unseen, Paced, TypeOK, View, Row, Origins
      <4> QED
        BY <1>s, <2>1, <4>1
    <3>3. w[k].state \in {"next", "active", "previous"} /\ w[k].origin # "shared"
      BY <2>1, <3>1, <3>2 DEF Older, Onward
    <3> QED
      BY <1>2, <3>3, KeyPublished
  <2> QED
    BY <1>1, <2>2, <2>3
<1>4. ASSUME Signer(v) = Shared, Unused(v) PROVE Shared \in Published(w)
  <2>1. CASE Signer(w) = Shared
    BY <1>2, <2>1
  <2>2. CASE Signer(w) # Shared
    <3>1. In(w, "active") # {}
      BY <1>2, <2>2, SignerIs
    <3>2. CASE ShowsShared(w)
      BY <1>2, <3>2 DEF ShowsShared, Beside, In
    <3>3. CASE ~ShowsShared(w)
      <4>1. HasCreated
        BY <1>1, <1>4, <3>1, <3>3, Sighted
      <4>2. ownFrom # None
        BY <1>0, <4>1, OwnSince DEF HasCreated
      <4>3. v # rows
        <5>1. \A k \in Ids : rows[k].state = "active" => rows[k].origin # "shared"
          BY <1>0 DEF Owned, ActiveIsOwn
        <5>2. ~Unused(rows)
          BY <1>0, <4>2, <5>1 DEF Handover, KeepsAKey, Unused, Own, In, States
        <5> QED
          BY <1>4, <5>2
      <4>4. PICK x \in Copies : x.view = v
        BY <1>1, <4>3
      <4>5. Reliable(v, x.until) /\ Grounded(v) /\ Unseen(v, x.until)
        BY <1>0, <4>4 DEF Good
      <4>6. PICK k \in Ids : BeforeCreated(v, k)
        BY <1>0, <1>4, <4>1, <4>2, <4>5 DEF Grounded, BeforeOwn, Handover, CreatedAlone
      <4>7. rows[k].state \notin {"retired", "deleted"}
        BY <4>2, <4>5, <4>6 DEF Reliable, Relies
      <4>8. /\ rows[k].origin = "created" /\ rows[k].state # "none"
            /\ owner # "root" /\ x.until <= ownFrom + Window
        BY <1>0, <4>5, <4>6 DEF BeforeCreated, Unseen, Owned, IInv, NoneIsNoRow
      <4> QED
        BY <1>s, <4>7, <4>8
    <3> QED
      BY <3>2, <3>3
  <2> QED
    BY <2>1, <2>2
<1> QED
  <2>1. CASE Signer(v) = Shared /\ Unused(v)
    BY <1>4, <2>1
  <2>2. CASE In(v, "active") = {Signer(v)}
    BY <1>3, <2>2 DEF In
  <2> QED
    BY <2>1, <2>2, SignerIs

(* Whatever isolate signs, and whatever isolate's metadata an SP has read, the certificate is *)
(* in it: if the next key is published, and the previous ones are kept, for as long as an     *)
(* isolate may use what it read, and calls take.                                              *)
THEOREM AlwaysPublished ==
  PublishedLongEnough /\ RetireWaits => (Spec => []SignerIsPublished)
<1> SUFFICES ASSUME PublishedLongEnough, RetireWaits PROVE Spec => []SignerIsPublished
  OBVIOUS
<1>1. VInv /\ [Next]_vars => VInv'
  BY VInvStep
<1> QED
  BY <1>1, VInvInit, VPublishes, PTL DEF Spec
=============================================================================
