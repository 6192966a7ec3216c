----------------------------- MODULE SigningKeys -----------------------------
(***************************************************************************)
(* The signing keys of one owner, a tenant (tenants.keys: "per-tenant") or *)
(* the root (signing.managed): its key rows, the administrators' calls     *)
(* that make and move them (endpoints/tenants.ts, and for the root         *)
(* endpoints/signing-keys.ts), and the copies of the rows that every       *)
(* isolate caches and signs and publishes metadata from (TenantKeyStore of *)
(* saml/tenant-keys.ts).                                                   *)
(*                                                                         *)
(* A call is a chain of awaits: each step below is one access to the       *)
(* database, made on what the call read at its start.                      *)
(***************************************************************************)
EXTENDS FiniteSets, Naturals

CONSTANTS
  MaxRows,       \* bound: key rows ever made
  Calls,         \* concurrent calls of the key API
  Isolates,      \* isolates or processes, each with its own TenantKeyStore
  CacheTime,     \* tenants.cacheSeconds
  MinPublished,  \* tenants.minPublishedSeconds
  KeepRetired,   \* KEEP_RETIRED
  Lag,           \* hypothesis: how long a call or a load may take
  Patience,      \* hypothesis: how long administrators wait between activate and retire
  MaxTime,       \* bound: the clock
  Shared,        \* the shared `signing` key
  None           \* no row, no view, no key

Ids == 1..MaxRows     \* in the order of their INSERT

ASSUME ConstantsAssumption ==
  /\ MaxRows \in Nat \ {0} /\ CacheTime \in Nat \ {0} /\ MinPublished \in Nat
  /\ KeepRetired \in Nat \ {0} /\ Lag \in Nat /\ Patience \in Nat /\ MaxTime \in Nat
  /\ Shared \notin Ids /\ None \notin Nat \cup Isolates /\ Shared # None

VARIABLES
  now,       \* the clock, which all isolates share
  owner,     \* a "tenant", which may be "absent", or the "root"
  rows,      \* the owner's key rows
  nextFrom,  \* the createdAt of the next key
  cache,     \* what an isolate cached of them, and until when
  loading,   \* what an isolate has read of them and not cached yet
  call,      \* the calls of the key API
  hasty,     \* (history) an activation was forced, or a retirement or a rotation did not wait
  switched,  \* (history) when an activation last moved a row
  ownFrom    \* (history) when the first key of its own became active

history == <<hasty, switched, ownFrom>>
db == <<owner, rows, nextFrom>>
vars == <<now, db, cache, loading, call, history>>

States == {"next", "active", "previous", "retired"}
Origins == {"created", "rotated", "shared"}   \* the first key, made by rotate, or SHARED_KID

NoRow == [state |-> "none", origin |-> "shared", key |-> FALSE]
FirstRow == [state |-> "active", origin |-> "created", key |-> TRUE]
Row == [state : States \cup {"none", "deleted"}, origin : Origins, key : BOOLEAN]
View == [Ids -> Row]

Idle == [pc |-> "idle", home |-> None, at |-> 0, next |-> None, active |-> None, old |-> {}]
Homes == Isolates \cup {None}     \* None: an isolate that serves nothing but the call
Steps == {"idle", "writeKey", "insert", "retire", "addShared", "promote", "prune"}
Call ==
  [pc : Steps, home : Homes, at : Nat, next : Ids \cup {None}, active : Ids \cup {None},
   old : SUBSET Ids]

(* A call that promotes has a next key, and one that demotes has both. *)
WellFormed(job) ==
  /\ job.pc \in {"addShared", "promote"} => job.next # None
  /\ job.active # None => job.pc = "retire" /\ job.next # None

TypeOK ==
  /\ now \in Nat
  /\ owner \in {"absent", "tenant", "root"}
  /\ rows \in View
  /\ nextFrom \in Nat
  /\ cache \in [Isolates -> [view : View, until : Nat] \cup {None}]
  /\ loading \in [Isolates -> [view : View, at : Nat] \cup {None}]
  /\ call \in [Calls -> Call]
  /\ \A c \in Calls : WellFormed(call[c])
  /\ hasty \in BOOLEAN
  /\ switched \in Nat
  /\ ownFrom \in Nat \cup {None}

(* A tenant yet to be created, or one made before tenants had keys; or the root *)
(* with its first key, which ensureFirstKey makes before anything needs it.     *)
Init ==
  /\ now = 0
  /\ owner \in {"absent", "tenant", "root"}
  /\ rows = [k \in Ids |-> IF owner = "root" /\ k = 1 THEN FirstRow ELSE NoRow]
  /\ nextFrom = 0
  /\ cache = [i \in Isolates |-> None]
  /\ loading = [i \in Isolates |-> None]
  /\ call = [c \in Calls |-> Idle]
  /\ hasty = FALSE
  /\ switched = 0
  /\ ownFrom = IF owner = "root" THEN 0 ELSE None

-----------------------------------------------------------------------------
In(v, state) == {k \in Ids : v[k].state = state}
Own(v) == {k \in Ids : v[k].state \in States /\ v[k].origin # "shared"}

(* stateKeyOf: UNIQUE for next and active, a random value for the others. *)
SlotFree(k, state) == state \in {"next", "active"} => In(rows, state) \subseteq {k}

(* The row a call makes takes the next id. *)
Insert(k, state, origin) ==
  /\ In(rows, "none") = k..MaxRows
  /\ SlotFree(k, state)
  /\ rows' = [rows EXCEPT ![k] = [state |-> state, origin |-> origin, key |-> origin # "shared"]]

(* moveKeyRow: an UPDATE by id, whatever state the row is in by now; none if it was pruned. *)
Move(k, state) ==
  rows' = [rows EXCEPT ![k].state = IF @ = "deleted" THEN @ ELSE state]
Erase(k) ==
  rows' = [rows EXCEPT ![k].state = IF @ = "deleted" THEN @ ELSE "retired", ![k].key = FALSE]

At(c, l) == call[c].pc = l
Begin(c, i, pc, next, active, old) ==
  call' = [call EXCEPT ![c] = [pc |-> pc, home |-> i, at |-> now, next |-> next,
                                active |-> active, old |-> old]]
Goto(c, l) == call' = [call EXCEPT ![c].pc = l]
Return(c) == call' = [call EXCEPT ![c] = Idle]

(* changed(): the isolate of the call forgets its copy. *)
Invalidate(c) ==
  cache' = [i \in Isolates |-> IF i = call[c].home THEN None ELSE cache[i]]

-----------------------------------------------------------------------------
(* samlIdpCreateTenant: the tenant's row ... *)
CreateTenant(c, i) ==
  /\ At(c, "idle") /\ owner = "absent"
  /\ owner' = "tenant"
  /\ Begin(c, i, "writeKey", None, None, {})
  /\ UNCHANGED <<now, rows, nextFrom, cache, loading, history>>

(* ... and then its key's; a failure takes the tenant back. *)
WriteKey(c) ==
  /\ At(c, "writeKey")
  /\ \/ /\ \E k \in Ids : Insert(k, "active", "created")
        /\ ownFrom' = IF ownFrom = None THEN now ELSE ownFrom
        /\ Invalidate(c)
        /\ UNCHANGED owner
     \/ /\ owner' = "absent"
        /\ UNCHANGED <<rows, cache, ownFrom>>
  /\ Return(c)
  /\ UNCHANGED <<now, nextFrom, loading, hasty, switched>>

(* The tenant can be seen, and the call that creates it has not returned. *)
Creating == \E c \in Calls : At(c, "writeKey")

(* samlIdpRotateTenantKey: there must be no next key, ... *)
Rotate(c, i) ==
  /\ At(c, "idle") /\ owner = "tenant"
  /\ In(rows, "next") = {}
  /\ hasty' = (hasty \/ Creating)
  /\ Begin(c, i, "insert", None, None, {})
  /\ UNCHANGED <<now, db, cache, loading, switched, ownFrom>>

(* ... and the UNIQUE state key decides between two that saw none. *)
InsertNext(c) ==
  /\ At(c, "insert")
  /\ \/ /\ \E k \in Ids : Insert(k, "next", "rotated")
        /\ nextFrom' = call[c].at
        /\ Invalidate(c)
     \/ /\ In(rows, "next") # {}
        /\ UNCHANGED <<rows, nextFrom, cache>>
  /\ Return(c)
  /\ UNCHANGED <<now, owner, loading, history>>

(* Faulty: the next key may be activated at once. *)
Activate_early(c, i) ==
  /\ At(c, "idle") /\ owner = "tenant"
  /\ \E n \in In(rows, "next"), a \in In(rows, "active") :
       Begin(c, i, "retire", n, a, In(rows, "previous"))
  /\ UNCHANGED <<now, db, cache, loading, history>>

(* Faulty: a tenant without a next key is activated too. *)
Activate_nothing(c, i) ==
  /\ At(c, "idle") /\ owner = "tenant"
  /\ In(rows, "active") = {}
  /\ Begin(c, i, "addShared", None, None, {})
  /\ UNCHANGED <<now, db, cache, loading, history>>

(* samlIdpActivateTenantKey reads the rows and decides how to go on: a rotation,  *)
(* one that was cut short, or the tenant's first own key after the shared one.    *)
Activate(c, i) ==
  /\ At(c, "idle") /\ owner = "tenant"
  /\ \E n \in In(rows, "next"), force \in BOOLEAN :
       LET tooNew == now < nextFrom + MinPublished
           previous == In(rows, "previous")
       IN
       /\ tooNew => force
       /\ hasty' = (hasty \/ tooNew)
       /\ \/ \E a \in In(rows, "active") :
               Begin(c, i, "retire", n, a, previous)
          \/ /\ In(rows, "active") = {}
             /\ Begin(c, i, IF previous # {} THEN "promote" ELSE "addShared", n, None, previous)
  /\ UNCHANGED <<now, db, cache, loading, switched, ownFrom>>

(* "Wait between activating and retiring" (docs/guide/signing-and-encryption.md): *)
(* the last activation has ended, with an active key, and that long ago.          *)
Waited ==
  /\ now >= switched + Patience
  /\ In(rows, "active") # {}
  /\ \A c \in Calls : call[c].next = None

(* Faulty: everything but the next key is taken for a previous key. *)
Retire_all(c, i) ==
  /\ At(c, "idle") /\ owner = "tenant"
  /\ hasty' = (hasty \/ ~Waited)
  /\ LET old == {k \in Ids : rows[k].state \in {"active", "previous"}} IN
       /\ old # {}
       /\ Begin(c, i, "retire", None, None, old)
  /\ UNCHANGED <<now, db, cache, loading, switched, ownFrom>>

(* samlIdpRetireTenantKey. *)
Retire(c, i) ==
  /\ At(c, "idle") /\ owner = "tenant"
  /\ In(rows, "previous") # {}
  /\ hasty' = (hasty \/ ~Waited)
  /\ Begin(c, i, "retire", None, None, In(rows, "previous"))
  /\ UNCHANGED <<now, db, cache, loading, switched, ownFrom>>

(* samlIdpRotateSigningKey: the same for the root, ... *)
RotateRoot(c, i) ==
  /\ At(c, "idle") /\ owner = "root"
  /\ In(rows, "next") = {}
  /\ Begin(c, i, "insert", None, None, {})
  /\ UNCHANGED <<now, db, cache, loading, history>>

(* ... samlIdpActivateSigningKey, which has no shared key to keep published, ... *)
ActivateRoot(c, i) ==
  /\ At(c, "idle") /\ owner = "root"
  /\ \E n \in In(rows, "next"), force \in BOOLEAN :
       LET tooNew == now < nextFrom + MinPublished IN
       /\ tooNew => force
       /\ hasty' = (hasty \/ tooNew)
       /\ \/ \E a \in In(rows, "active") :
               Begin(c, i, "retire", n, a, In(rows, "previous"))
          \/ In(rows, "active") = {} /\ Begin(c, i, "promote", n, None, {})
  /\ UNCHANGED <<now, db, cache, loading, switched, ownFrom>>

(* ... and samlIdpRetireSigningKey. *)
RetireRoot(c, i) ==
  /\ At(c, "idle") /\ owner = "root"
  /\ In(rows, "previous") # {}
  /\ hasty' = (hasty \/ ~Waited)
  /\ Begin(c, i, "retire", None, None, In(rows, "previous"))
  /\ UNCHANGED <<now, db, cache, loading, switched, ownFrom>>

-----------------------------------------------------------------------------
(* The previous keys the call read are retired, one by one, and erased. *)
RetireOld(c) ==
  /\ At(c, "retire")
  /\ \E k \in call[c].old :
       /\ Erase(k)
       /\ call' = [call EXCEPT ![c].old = @ \ {k}]
  /\ UNCHANGED <<now, owner, nextFrom, cache, loading, history>>

(* Faulty: the UPDATE goes by the owner, and not by the row's id. *)
Demote_all(c) ==
  /\ At(c, "retire") /\ call[c].old = {} /\ call[c].active # None
  /\ rows' = [k \in Ids |->
                IF k \in Own(rows) /\ rows[k].state # "next"
                  THEN [rows[k] EXCEPT !.state = "previous"] ELSE rows[k]]
  /\ switched' = now
  /\ call' = [call EXCEPT ![c].pc = "promote", ![c].active = None]
  /\ UNCHANGED <<now, owner, nextFrom, cache, loading, hasty, ownFrom>>

(* The active key becomes a previous one ... *)
Demote(c) ==
  /\ At(c, "retire") /\ call[c].old = {} /\ call[c].active # None
  /\ Move(call[c].active, "previous")
  /\ switched' = now
  /\ call' = [call EXCEPT ![c].pc = "promote", ![c].active = None]
  /\ UNCHANGED <<now, owner, nextFrom, cache, loading, hasty, ownFrom>>

(* ... or the shared key's certificate stays published as one. *)
AddShared(c) ==
  /\ At(c, "addShared")
  /\ \E k \in Ids : Insert(k, "previous", "shared")
  /\ Goto(c, "promote")
  /\ UNCHANGED <<now, owner, nextFrom, cache, loading, history>>

(* The next key becomes the active one, unless another has the slot. *)
Promote(c) ==
  LET n == call[c].next IN
  /\ At(c, "promote")
  /\ \/ /\ SlotFree(n, "active")
        /\ Move(n, "active")
        /\ switched' = now
        /\ ownFrom' = IF ownFrom = None THEN now ELSE ownFrom
        /\ call' = [call EXCEPT ![c] = [@ EXCEPT !.pc = "prune", !.next = None, !.old = {}]]
     \/ /\ ~SlotFree(n, "active")
        /\ Return(c)
        /\ UNCHANGED <<rows, switched, ownFrom>>
  /\ UNCHANGED <<now, owner, nextFrom, cache, loading, hasty>>

(* The rows pruneRetiredRows keeps: the newest of the retired. *)
Newest(S) == {k \in S : Cardinality({m \in S : m > k}) < KeepRetired}

(* pruneRetiredRows, and the call returns. *)
Prune(c) ==
  LET retired == In(rows, "retired") IN
  /\ At(c, "prune") \/ (At(c, "retire") /\ call[c].old = {} /\ call[c].next = None)
  /\ rows' = [k \in Ids |-> IF k \in retired \ Newest(retired)
                              THEN [rows[k] EXCEPT !.state = "deleted"] ELSE rows[k]]
  /\ Invalidate(c)
  /\ Return(c)
  /\ UNCHANGED <<now, owner, nextFrom, loading, history>>

(* The call's isolate dies, or the database throws, between two steps. *)
Crash(c) ==
  /\ ~At(c, "idle")
  /\ Return(c)
  /\ UNCHANGED <<now, db, cache, loading, history>>

-----------------------------------------------------------------------------
Valid(i) == cache[i] # None /\ now < cache[i].until

(* TenantKeyStore.load: on a miss the rows are read ... *)
Load(i) ==
  /\ owner # "absent" /\ ~Valid(i) /\ loading[i] = None
  /\ loading' = [loading EXCEPT ![i] = [view |-> rows, at |-> now]]
  /\ UNCHANGED <<now, db, cache, call, history>>

(* ... and cached, also when changed() was called in between. *)
Store(i) ==
  /\ loading[i] # None
  /\ cache' = [cache EXCEPT ![i] = [view |-> loading[i].view, until |-> now + CacheTime]]
  /\ loading' = [loading EXCEPT ![i] = None]
  /\ UNCHANGED <<now, db, call, history>>

(* An isolate is evicted. *)
Evict(i) ==
  /\ cache' = [cache EXCEPT ![i] = None]
  /\ loading' = [loading EXCEPT ![i] = None]
  /\ UNCHANGED <<now, db, call, history>>

Tick ==
  /\ now < MaxTime
  /\ \A c \in Calls : ~At(c, "idle") => now < call[c].at + Lag
  /\ \A i \in Isolates : loading[i] # None => now < loading[i].at + Lag
  /\ now' = now + 1
  /\ cache' = [i \in Isolates |-> IF cache[i] # None /\ cache[i].until <= now + 1
                                    THEN None ELSE cache[i]]   \* expired: as good as none
  /\ UNCHANGED <<db, loading, call, history>>

Next ==
  \/ \E c \in Calls :
       \/ \E i \in Homes :
            \/ CreateTenant(c, i) \/ Rotate(c, i) \/ Activate(c, i) \/ Retire(c, i)
            \/ RotateRoot(c, i) \/ ActivateRoot(c, i) \/ RetireRoot(c, i)
       \/ WriteKey(c)
       \/ InsertNext(c)
       \/ RetireOld(c)
       \/ Demote(c)
       \/ AddShared(c)
       \/ Promote(c)
       \/ Prune(c)
       \/ Crash(c)
  \/ \E i \in Isolates : Load(i) \/ Store(i) \/ Evict(i)
  \/ Tick

Spec == Init /\ [][Next]_vars

-----------------------------------------------------------------------------
(* Faulty: without an active key the tenant signs with the shared one. *)
Signer_fallsBack(v) ==
  LET active == In(v, "active") IN
  IF active = {} THEN Shared ELSE CHOOSE k \in active : TRUE

(* TenantKeyStore.signing: the key it signs with, or None when it refuses. *)
Signer(v) ==
  LET active == In(v, "active")
      usable == {k \in active : v[k].key}
  IN
  IF owner # "root" /\ active = {} /\ \A k \in Own(v) : v[k].state = "next" THEN Shared
  ELSE IF Cardinality(active) = 1 /\ usable # {} THEN CHOOSE k \in usable : TRUE
  ELSE None

(* The certificates its metadata publishes next to the signer's. *)
Beside(v) ==
  {IF v[k].origin = "shared" THEN Shared ELSE k : k \in In(v, "next") \cup In(v, "previous")}
Published(v) == IF Signer(v) = None THEN {} ELSE {Signer(v)} \cup Beside(v)

(* The rows an isolate may be working with: a fresh read, its copy, or one on its way. *)
InUse ==
  IF owner = "absent" THEN {}
  ELSE {rows} \cup {cache[i].view : i \in {i \in Isolates : Valid(i)}}
              \cup {loading[i].view : i \in {i \in Isolates : loading[i] # None}}

-----------------------------------------------------------------------------
(* A key the plugin made for a new tenant, which no SP trusts yet, is active at   *)
(* once; its certificate has reached every isolate a cache time later. (No        *)
(* isolate works without the root's first key.)                                   *)
Settled ==
  owner # "root" /\ (\E k \in Own(rows) : rows[k].origin = "created") =>
    now >= ownFrom + CacheTime + Lag

(* "SPs that verify with either published certificate keep working"               *)
(* (docs/guide/multi-tenant.md): whatever isolate signs, and whatever isolate's   *)
(* metadata an SP has read, the certificate is in it, over rotation, activation   *)
(* and retirement, also when they are cut short or overlap: as long as nobody     *)
(* forces an activation, and administrators wait before they retire, and for a    *)
(* tenant's creation to return before they rotate its keys. (A creation that      *)
(* fails leaves the next key of such a rotation to the next creation, whose first *)
(* key may then become active in the middle of an activation.)                    *)
SignerIsPublished ==
  ~hasty /\ Settled =>
    \A v, w \in InUse :
      Signer(v) # None /\ Published(w) # {} => Signer(v) \in Published(w)

(* An owner that has a key of its own can always be brought back to signing: it   *)
(* has an active key, or a next one to activate, with its private key, whichever  *)
(* calls raced, failed or were cut short ("call activate again").                 *)
Recoverable ==
  Own(rows) # {} => \E k \in Ids : rows[k].state \in {"next", "active"} /\ rows[k].key

(* "Once a tenant has had a key of its own, nothing else ever signs for it":      *)
(* beyond the time for which isolates may use what they read before, the shared   *)
(* key is out for good, also while an activation is cut short. (Retired rows are  *)
(* kept as evidence; an isolate that read that many retired rows of the shared    *)
(* key may find none of the tenant's own among them.)                             *)
SharedExpires ==
  ownFrom # None /\ now >= ownFrom + CacheTime + Lag =>
    \A v \in InUse :
      Cardinality({k \in In(v, "retired") : v[k].origin = "shared"}) < KeepRetired =>
        Signer(v) # Shared

(* "The previous certificate is no longer published, and its private key is       *)
(* erased": a retired row never comes back, also when a call goes on with what it *)
(* read before; a forced activation, or a retirement or rotation that did not     *)
(* wait, is the exception.                                                        *)
RetiredIsFinal ==
  [][\A k \in Ids :
       ~hasty /\ rows[k].state = "retired" => rows'[k].state \in {"retired", "deleted"}]_vars

(* "Activate. SPs that verify with either published certificate keep working"     *)
(* (docs/guide/multi-tenant.md): once every call has returned and there is an     *)
(* active key, every isolate that works with its copy of the rows can sign.       *)
KeepsWorking ==
  (\A c \in Calls : At(c, "idle")) /\ (\E k \in In(rows, "active") : rows[k].key) =>
    \A i \in Isolates : Valid(i) => Signer(cache[i].view) # None
=============================================================================
