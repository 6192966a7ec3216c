------------------------------- MODULE FirstKey -------------------------------
(***************************************************************************)
(* The root identity's first managed key (ensureFirstKey of saml/tenant-   *)
(* keys.ts): every isolate that finds no key row makes one. The UNIQUE     *)
(* state key lets one row in; in a hand-written schema without it several  *)
(* get in, and whoever sees more than one first key keeps the earliest.    *)
(* Times are left out: what was cached, and a failure that is remembered   *)
(* for FAILED_RETRY_MS, may be forgotten at any time.                      *)
(***************************************************************************)
EXTENDS FiniteSets, Naturals

CONSTANTS
  Makers,      \* isolates or processes that sign as the root
  MaxFirst     \* bound: first keys ever made

FirstKeys == 1..MaxFirst   \* in the order of the repair: by createdAt, then by kid

ASSUME FirstKeyAssumption == MaxFirst \in Nat

VARIABLES
  unique,    \* the table has the UNIQUE index on stateKey
  firsts,    \* the first key rows there are: active, made by no one
  unused,    \* the keys nobody has made yet
  maker,     \* the ensureFirstKey of an isolate: its step, its key, and the rows it will delete
  known,     \* the rows an isolate has cached
  failed,    \* the isolates that remember a failure
  relied,    \* (history) some ensureFirstKey has returned: there is a key
  cutShort   \* (history) one was cut short after its INSERT, or never heard of its success

firstVars == <<unique, firsts, unused, maker, known, failed, relied, cutShort>>

MakerSteps == {"idle", "look", "insert", "classify", "lookAgain", "repair"}
NoMaker == [pc |-> "idle", key |-> 0, extras |-> {}]

FirstTypeOK ==
  /\ unique \in BOOLEAN
  /\ firsts \subseteq FirstKeys /\ unused \subseteq FirstKeys /\ firsts \cap unused = {}
  /\ maker \in [Makers -> [pc : MakerSteps, key : FirstKeys \cup {0}, extras : SUBSET FirstKeys]]
  /\ known \in [Makers -> SUBSET FirstKeys]
  /\ failed \subseteq Makers
  /\ relied \in BOOLEAN /\ cutShort \in BOOLEAN

FirstInit ==
  /\ unique \in BOOLEAN
  /\ firsts = {} /\ unused = FirstKeys
  /\ maker = [i \in Makers |-> NoMaker]
  /\ known = [i \in Makers |-> {}]
  /\ failed = {}
  /\ relied = FALSE /\ cutShort = FALSE

-----------------------------------------------------------------------------
Making(i, step) == maker[i].pc = step
Continue(i, step) == maker' = [maker EXCEPT ![i].pc = step]
Stop(i) == maker' = [maker EXCEPT ![i] = NoMaker]
LoadRows(i) == known' = [known EXCEPT ![i] = firsts]

(* ensureFirstKey: the rows, cached or read, settle it if there are any; a failure that *)
(* is remembered is thrown again; else this isolate makes a key, once at a time.        *)
EnsureFirstKey(i) ==
  /\ Making(i, "idle")
  /\ IF known[i] # {} THEN UNCHANGED known ELSE LoadRows(i)
  /\ IF known'[i] # {}
       THEN relied' = TRUE /\ UNCHANGED maker
       ELSE /\ UNCHANGED relied
            /\ IF i \in failed THEN UNCHANGED maker ELSE Continue(i, "look")
  /\ UNCHANGED <<unique, firsts, unused, failed, cutShort>>

(* A fresh read: what was cached may predate another isolate's key. *)
LookFresh(i) ==
  /\ Making(i, "look")
  /\ LoadRows(i)
  /\ IF firsts # {}
       THEN relied' = TRUE /\ Stop(i) /\ UNCHANGED unused
       ELSE /\ UNCHANGED relied
            /\ \E k \in unused :
                 /\ maker' = [maker EXCEPT ![i] = [pc |-> "insert", key |-> k, extras |-> {}]]
                 /\ unused' = unused \ {k}
  /\ UNCHANGED <<unique, firsts, failed, cutShort>>

(* The INSERT: refused by the index, failed, or done - and its answer may be lost. *)
InsertFirst(i) ==
  /\ Making(i, "insert")
  /\ \/ /\ unique => firsts = {}
        /\ firsts' = firsts \cup {maker[i].key}
        /\ \/ Continue(i, "lookAgain") /\ UNCHANGED cutShort
           \/ Continue(i, "classify") /\ cutShort' = TRUE
     \/ Continue(i, "classify") /\ UNCHANGED <<firsts, cutShort>>
  /\ UNCHANGED <<unique, unused, known, failed, relied>>

(* After an error another isolate's key is used, or the failure is remembered. *)
ClassifyFailure(i) ==
  /\ Making(i, "classify")
  /\ LoadRows(i)
  /\ relied' = (relied \/ firsts # {})
  /\ failed' = IF firsts # {} THEN failed ELSE failed \cup {i}
  /\ Stop(i)
  /\ UNCHANGED <<unique, firsts, unused, cutShort>>

(* Faulty: a writer looks only after its own key. *)
Extras_own(i) == {k \in firsts : k = maker[i].key /\ \E m \in firsts : m < k}

(* Faulty: a writer keeps its own key. *)
Extras_others(i) == firsts \ {maker[i].key}

(* The first keys that are not the earliest. *)
Extras(i) == {k \in firsts : \E m \in firsts : m < k}

(* After its own write the writer reads again, ... *)
LookAgain(i) ==
  /\ Making(i, "lookAgain")
  /\ LoadRows(i)
  /\ IF Extras(i) = {}
       THEN relied' = TRUE /\ Stop(i)
       ELSE maker' = [maker EXCEPT ![i].pc = "repair", ![i].extras = Extras(i)] /\ UNCHANGED relied
  /\ UNCHANGED <<unique, firsts, unused, failed, cutShort>>

(* ... and deletes them by their ids, one by one. *)
Repair(i) ==
  /\ Making(i, "repair")
  /\ \E k \in maker[i].extras :
       /\ firsts' = firsts \ {k}
       /\ IF maker[i].extras = {k}
            THEN /\ Stop(i)
                 /\ relied' = TRUE
                 /\ known' = [known EXCEPT ![i] = {}]
            ELSE /\ maker' = [maker EXCEPT ![i].extras = @ \ {k}]
                 /\ UNCHANGED <<relied, known>>
  /\ UNCHANGED <<unique, unused, failed, cutShort>>

(* The isolate dies, or the adapter throws. *)
CrashMaker(i) ==
  /\ ~Making(i, "idle")
  /\ cutShort' = (cutShort \/ maker[i].pc \in {"lookAgain", "repair"})
  /\ Stop(i)
  /\ known' = [known EXCEPT ![i] = {}]
  /\ failed' = failed \ {i}
  /\ UNCHANGED <<unique, firsts, unused, relied>>

(* A cache time, or FAILED_RETRY_MS, is over. *)
ForgetRows(i) ==
  /\ known' = [known EXCEPT ![i] = {}]
  /\ UNCHANGED <<unique, firsts, unused, maker, failed, relied, cutShort>>

ForgetFailure(i) ==
  /\ failed' = failed \ {i}
  /\ UNCHANGED <<unique, firsts, unused, maker, known, relied, cutShort>>

FirstNext ==
  \E i \in Makers :
    \/ EnsureFirstKey(i) \/ LookFresh(i) \/ InsertFirst(i) \/ ClassifyFailure(i)
    \/ LookAgain(i) \/ Repair(i)
    \/ CrashMaker(i) \/ ForgetRows(i) \/ ForgetFailure(i)

FirstSpec == FirstInit /\ [][FirstNext]_firstVars

-----------------------------------------------------------------------------
(* "Keeps the earliest and deletes the others": the repairs of several writers, each  *)
(* on the rows it saw, never delete all of them. Once any isolate was told that there *)
(* is a key, there is one.                                                            *)
KeepsAKey == relied => firsts # {}

(* "So the last writer always leaves one": when every writer is through there is one  *)
(* first key, with the index or without; two are left only by a writer that was cut   *)
(* short after its INSERT.                                                            *)
OneFirstKey ==
  (\A i \in Makers : maker[i].pc \notin {"insert", "lookAgain", "repair"}) /\ ~(cutShort /\ ~unique) =>
    Cardinality(firsts) <= 1
=============================================================================
