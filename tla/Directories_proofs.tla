-------------------------- MODULE Directories_proofs --------------------------
(***************************************************************************)
(* Both directories implement a view that is stale by less than a cache    *)
(* time and a lookup, for any number of isolates, keys, configs, calls and *)
(* organizations, and every cacheSeconds; and the registry keeps an SP     *)
(* that was switched off so.                                               *)
(*                                                                         *)
(* The tenant directory reads a row and an organization, at two instants.  *)
(* Whatever the second read finds was the truth at one instant since the   *)
(* first: an organization that has the row's birth now had it then (a date *)
(* is given once), when the row was there and enabled; if it has another   *)
(* one now, the tenant was none then, or became none when it left.         *)
(***************************************************************************)
EXTENDS TenantDirectory, SpDirectory, TLAPS

Delay == DirCacheTime + DirLag
Served(v, since) == lastServed[v] # Absent /\ since <= lastServed[v]

BornOK ==
  /\ orgBorn <= orgsMade
  /\ tenantRow # Absent => tenantRow.born <= orgsMade
  /\ \A h \in Hosts : lookup[h] # Absent => lookup[h].row.born <= orgsMade

ServedOK ==
  /\ \A v \in Answers : lastServed[v] # Absent => lastServed[v] <= dirNow
  /\ lastServed[TenantOf(tenantRow, orgBorn)] = dirNow

LookupOK ==
  \A h \in Hosts : lookup[h] # Absent =>
    /\ lookup[h].at <= dirNow /\ dirNow <= lookup[h].at + DirLag
    /\ Served(IF orgBorn = lookup[h].row.born THEN lookup[h].row.key ELSE Absent, lookup[h].at)

CacheOK ==
  \A h \in Hosts : dirCache[h] # Absent =>
    /\ lastServed[dirCache[h].tenant] # Absent
    /\ dirCache[h].until <= lastServed[dirCache[h].tenant] + Delay

DInv == DirectoryTypeOK /\ BornOK /\ ServedOK /\ LookupOK /\ CacheOK

-----------------------------------------------------------------------------
LEMMA TruthIsAnAnswer ==
  ASSUME NEW row \in DirRow \cup {Absent}, NEW org
  PROVE  TenantOf(row, org) \in Answers
BY DEF TenantOf, Answers, DirRow

LEMMA DirInit == DirectoryInit => DInv /\ Truth!ViewInit
<1> SUFFICES ASSUME DirectoryInit PROVE DInv /\ Truth!ViewInit
  OBVIOUS
<1> USE DirectoryAssumption DEF DirectoryAssumption
<1>1. TenantOf(tenantRow, orgBorn) = Absent
  BY DEF DirectoryInit, TenantOf
<1>2. DirectoryTypeOK
  BY DEF DirectoryInit, DirectoryTypeOK, Answers
<1>3. lastServed[Absent] = 0 /\ \A v \in Answers : lastServed[v] # Absent => v = Absent
  BY DEF DirectoryInit, Answers
<1>4. DInv
  BY <1>1, <1>2, <1>3 DEF DInv, DirectoryInit, BornOK, ServedOK, LookupOK, CacheOK
<1>5. Truth!ViewInit
  BY <1>1 DEF DirectoryInit, Truth!ViewInit, Answers
<1> QED
  BY <1>4, <1>5

(* The truth only gets later. *)
LEMMA LaterTruth ==
  ASSUME DInv, NEW v \in Answers, NEW now \in Nat, now >= dirNow,
         lastServed' = [lastServed EXCEPT ![v] = now]
  PROVE  /\ lastServed' \in [Answers -> Nat \cup {Absent}]
         /\ lastServed'[v] = now
         /\ \A w \in Answers : lastServed[w] # Absent =>
              lastServed'[w] # Absent /\ lastServed'[w] \in Nat /\ lastServed[w] <= lastServed'[w]
         /\ \A w \in Answers : lastServed'[w] # Absent => lastServed'[w] <= now
<1>1. lastServed \in [Answers -> Nat \cup {Absent}] /\ dirNow \in Nat
  BY DEF DInv, DirectoryTypeOK
<1>2. \A w \in Answers : lastServed[w] # Absent => lastServed[w] \in Nat /\ lastServed[w] <= dirNow
  BY <1>1 DEF DInv, ServedOK
<1>3. \A w \in Answers : lastServed'[w] = IF w = v THEN now ELSE lastServed[w]
  BY <1>1
<1>4. now # Absent
  BY DirectoryAssumption DEF DirectoryAssumption
<1> QED
  BY <1>1, <1>2, <1>3, <1>4

(* What is cached stays true enough. *)
LEMMA CacheStays ==
  ASSUME DInv, NEW v \in Answers, NEW now \in Nat, now >= dirNow,
         lastServed' = [lastServed EXCEPT ![v] = now], UNCHANGED dirCache
  PROVE  CacheOK'
<1>1. \A h \in Hosts : dirCache[h] # Absent => dirCache[h].tenant \in Answers /\ dirCache[h].until \in Nat
  BY DEF DInv, DirectoryTypeOK
<1>2. Delay \in Nat
  BY DirectoryAssumption DEF DirectoryAssumption, Delay
<1>3. lastServed \in [Answers -> Nat \cup {Absent}]
  BY DEF DInv, DirectoryTypeOK
<1> HIDE DEF Delay
<1>4. SUFFICES ASSUME NEW h \in Hosts, dirCache[h] # Absent
               PROVE  /\ lastServed'[dirCache[h].tenant] # Absent
                      /\ dirCache[h].until <= lastServed'[dirCache[h].tenant] + Delay
  BY DEF CacheOK, Delay
<1> PICK w \in Answers : w = dirCache[h].tenant
  BY <1>1, <1>4
<1>5. lastServed[w] # Absent /\ lastServed[w] \in Nat /\ dirCache[h].until <= lastServed[w] + Delay
  BY <1>3, <1>4 DEF DInv, CacheOK
<1>6. lastServed'[w] # Absent /\ lastServed'[w] \in Nat /\ lastServed[w] <= lastServed'[w]
  BY <1>5, LaterTruth
<1> QED
  BY <1>1, <1>2, <1>4, <1>5, <1>6

LEMMA LookupStays ==
  ASSUME DInv, NEW v \in Answers, NEW now \in Nat, now >= dirNow,
         lastServed' = [lastServed EXCEPT ![v] = now],
         NEW w \in Answers, NEW since \in Nat, Served(w, since)
  PROVE  Served(w, since)'
<1>1. lastServed \in [Answers -> Nat \cup {Absent}]
  BY DEF DInv, DirectoryTypeOK
<1>2. lastServed[w] \in Nat /\ since <= lastServed[w] /\ lastServed[w] # Absent
  BY <1>1 DEF Served
<1>3. lastServed'[w] # Absent /\ lastServed'[w] \in Nat /\ lastServed[w] <= lastServed'[w]
  BY <1>2, LaterTruth
<1> QED
  BY <1>2, <1>3 DEF Served

-----------------------------------------------------------------------------
(* What writes make of the organization and the row: a new organization is a later one. *)
Legal(row, org) ==
  /\ row \in DirRow \cup {Absent} /\ org \in 0..DirMaxBorn
  /\ orgsMade' \in 0..DirMaxBorn /\ orgsMade <= orgsMade'
  /\ org <= orgsMade' /\ (row # Absent => row.born <= orgsMade')
  /\ org = orgBorn \/ org = 0 \/ (org > orgsMade /\ orgBorn = 0)

(* A write makes its tenant, or none, the truth from now on. *)
LEMMA WriteStep ==
  ASSUME DInv, NEW row, NEW org, Write(row, org), Legal(row, org)
  PROVE  DInv' /\ \E a \in Answers : Truth!Become(a)
<1>l. /\ row \in DirRow \cup {Absent} /\ org \in 0..DirMaxBorn
      /\ orgsMade' \in 0..DirMaxBorn /\ orgsMade <= orgsMade'
      /\ org <= orgsMade' /\ (row # Absent => row.born <= orgsMade')
      /\ org = orgBorn \/ org = 0 \/ (org > orgsMade /\ orgBorn = 0)
  BY DEF Legal
<1> USE DirectoryAssumption DEF DirectoryAssumption
<1>t. DirectoryTypeOK
  BY DEF DInv
<1>n. dirNow \in Nat /\ dirNow >= dirNow
  BY <1>t DEF DirectoryTypeOK
<1> PICK a \in Answers : a = TenantOf(row, org)
  BY <1>l, TruthIsAnAnswer
<1>1. /\ tenantRow' = row /\ orgBorn' = org /\ answering' = Absent
      /\ lastServed' = [lastServed EXCEPT ![a] = dirNow]
      /\ UNCHANGED <<dirNow, dirCache, lookup>>
  BY DEF Write
<1>2. TenantOf(tenantRow', orgBorn') = a
  BY <1>1
<1>3. Truth!Become(a)
  BY <1>1, <1>2 DEF Truth!Become, TenantOf
<1>4. DirectoryTypeOK'
  BY <1>t, <1>l, <1>1, <1>n, LaterTruth DEF DirectoryTypeOK
<1>5. BornOK'
  <2>1. \A h \in Hosts : lookup[h] # Absent => lookup[h].row.born \in Nat
    BY <1>t DEF DirectoryTypeOK, DirRow
  <2>2. orgsMade \in Nat /\ orgsMade' \in Nat
    BY <1>t, <1>l DEF DirectoryTypeOK
  <2>3. \A h \in Hosts : lookup[h] # Absent => lookup[h].row.born <= orgsMade'
    BY <1>l, <2>1, <2>2 DEF DInv, BornOK
  <2> QED
    BY <1>l, <1>1, <2>3 DEF BornOK
<1>6. ServedOK'
  <2>1. lastServed'[a] = dirNow /\ \A w \in Answers : lastServed'[w] # Absent => lastServed'[w] <= dirNow
    BY <1>1, <1>n, LaterTruth
  <2> QED
    BY <1>1, <2>1 DEF ServedOK
<1>7. LookupOK'
  <2> SUFFICES ASSUME NEW h \in Hosts, lookup[h] # Absent, NEW r \in DirRow, r = lookup[h].row,
                      NEW at \in Nat, at = lookup[h].at
               PROVE  /\ at <= dirNow /\ dirNow <= at + DirLag
                      /\ Served(IF org = r.born THEN r.key ELSE Absent, at)'
    BY <1>t, <1>1 DEF LookupOK, DirectoryTypeOK
  <2>1. /\ at <= dirNow /\ dirNow <= at + DirLag /\ dirNow \in Nat
        /\ Served(IF orgBorn = r.born THEN r.key ELSE Absent, at)
    BY <1>t DEF DInv, LookupOK, DirectoryTypeOK
  <2>2. r.key \in Answers /\ Absent \in Answers /\ r.born \in 1..DirMaxBorn
    BY DEF DirRow, Answers
  <2>3. \A w \in Answers : Served(w, at) => Served(w, at)'
    BY <1>1, <1>n, LookupStays
  <2>4. CASE org = orgBorn
    BY <2>1, <2>2, <2>3, <2>4
  <2>5. CASE org = 0
    <3>1. a = Absent /\ org # r.born
      <4>1. row # Absent => row.born # 0
        BY <1>l DEF DirRow
      <4> QED
        BY <2>2, <2>5, <4>1 DEF TenantOf
    <3>2. lastServed'[Absent] = dirNow /\ dirNow # Absent
      BY <1>1, <1>n, <3>1, LaterTruth
    <3> QED
      BY <2>1, <3>1, <3>2 DEF Served
  <2>6. CASE org > orgsMade /\ orgBorn = 0
    <3>1. org # r.born /\ orgBorn # r.born
      BY <1>t, <2>2, <2>6 DEF DInv, BornOK, DirectoryTypeOK
    <3> QED
      BY <2>1, <2>2, <2>3, <3>1
  <2> QED
    BY <1>l, <2>1, <2>4, <2>5, <2>6
<1>8. CacheOK'
  BY <1>1, <1>n, CacheStays
<1> QED
  BY <1>3, <1>4, <1>5, <1>6, <1>7, <1>8 DEF DInv

(* An answer that is cached and given was the truth when, or since, its row was read. *)
LEMMA ConcludeStep ==
  ASSUME DInv, NEW h \in Hosts, NEW a \in Answers, Conclude(h, a),
         NEW since \in Nat, Served(a, since), dirNow <= since + DirLag
  PROVE  DInv' /\ Truth!Tell(h, a)
<1> USE DirectoryAssumption DEF DirectoryAssumption
<1>t. DirectoryTypeOK
  BY DEF DInv
<1>1. lastServed[a] \in Nat /\ since <= lastServed[a] /\ lastServed[a] # Absent /\ dirNow \in Nat
  BY <1>t DEF DirectoryTypeOK, Served
<1>2. dirNow + DirCacheTime <= lastServed[a] + Delay /\ dirNow < lastServed[a] + Delay
  BY <1>1 DEF Delay
<1>3. UNCHANGED <<dirNow, dirDb, lastServed>> /\ answering' = [reader |-> h, value |-> a]
  BY DEF Conclude
<1>4. Truth!Tell(h, a)
  BY <1>1, <1>2, <1>3 DEF Truth!Tell, TenantOf, dirDb, Delay
<1>5. /\ lookup' \in [Hosts -> [row : DirRow, at : Nat] \cup {Absent}]
      /\ \A g \in Hosts : lookup'[g] = lookup[g] \/ lookup'[g] = Absent
  BY <1>t DEF Conclude, DirectoryTypeOK
<1>6. /\ dirCache' \in [Hosts -> [tenant : Answers, until : Nat] \cup {Absent}]
      /\ dirCache'[h] = [tenant |-> a, until |-> dirNow + DirCacheTime]
      /\ \A g \in Hosts \ {h} : dirCache'[g] = dirCache[g]
  BY <1>t DEF Conclude, DirectoryTypeOK
<1>7. DirectoryTypeOK'
  BY <1>t, <1>3, <1>5, <1>6 DEF DirectoryTypeOK, dirDb
<1>8. BornOK' /\ ServedOK'
  BY <1>3, <1>5 DEF DInv, BornOK, ServedOK, dirDb
<1>9. LookupOK'
  BY <1>3, <1>5 DEF DInv, LookupOK, Served, dirDb
<1>10. CacheOK'
  <2>1. \A g \in Hosts \ {h} : dirCache[g] # Absent =>
          /\ lastServed[dirCache[g].tenant] # Absent
          /\ dirCache[g].until <= lastServed[dirCache[g].tenant] + Delay
    BY DEF DInv, CacheOK
  <2>2. dirCache'[h].tenant = a /\ dirCache'[h].until = dirNow + DirCacheTime
    BY <1>6
  <2> QED
    BY <1>1, <1>2, <1>3, <1>6, <2>1, <2>2 DEF CacheOK
<1> QED
  BY <1>4, <1>7, <1>8, <1>9, <1>10 DEF DInv

LEMMA HushStep ==
  ASSUME DInv, UNCHANGED <<dirNow, dirDb, lastServed>>, answering' = Absent,
         DirectoryTypeOK', LookupOK', CacheOK',
         \A h \in Hosts : lookup'[h] = lookup[h] \/ (lookup'[h].row = tenantRow /\ tenantRow # Absent)
  PROVE  DInv' /\ Truth!Hush
<1>1. Truth!Hush
  BY DEF Truth!Hush, TenantOf, dirDb
<1>2. BornOK'
  BY DEF DInv, BornOK, dirDb
<1>3. ServedOK'
  BY DEF DInv, ServedOK, dirDb
<1> QED
  BY <1>1, <1>2, <1>3 DEF DInv

LEMMA DirStep == DInv /\ [DirectoryNext]_directoryVars => DInv' /\ [Truth!ViewNext]_Truth!viewVars
<1> SUFFICES ASSUME DInv, [DirectoryNext]_directoryVars
             PROVE  DInv' /\ [Truth!ViewNext]_Truth!viewVars
  OBVIOUS
<1> USE DirectoryAssumption DEF DirectoryAssumption
<1>t. DirectoryTypeOK
  BY DEF DInv
<1>n. /\ dirNow \in Nat /\ dirNow >= dirNow /\ orgsMade \in 0..DirMaxBorn /\ orgBorn \in 0..DirMaxBorn
      /\ tenantRow \in DirRow \cup {Absent} /\ orgsMade \in Nat
  BY <1>t DEF DirectoryTypeOK
<1>b. orgBorn <= orgsMade /\ (tenantRow # Absent => tenantRow.born <= orgsMade)
  BY DEF DInv, BornOK
<1>w. (\E a \in Answers : Truth!Become(a)) \/ Truth!Hush \/ Truth!Pass
        \/ (\E h \in Hosts, a \in Answers : Truth!Tell(h, a)) => Truth!ViewNext
  BY DEF Truth!ViewNext
<1>1. CASE UNCHANGED directoryVars
  <2>1. DInv'
    BY <1>1 DEF directoryVars, dirDb, DInv, DirectoryTypeOK, BornOK, ServedOK, LookupOK, CacheOK, Served, TenantOf
  <2>2. UNCHANGED Truth!viewVars
    BY <1>1 DEF directoryVars, dirDb, Truth!viewVars, TenantOf
  <2> QED
    BY <2>1, <2>2
<1>k. \A row, org : Write(row, org) /\ Legal(row, org) => DInv' /\ Truth!ViewNext
  BY <1>w, WriteStep
<1>2. CASE MakeOrganization
  <2>1. Write(tenantRow, orgsMade + 1) /\ orgBorn = 0 /\ orgsMade' = orgsMade + 1 /\ orgsMade < DirMaxBorn
    BY <1>2 DEF MakeOrganization
  <2>2. tenantRow # Absent => tenantRow.born <= orgsMade + 1
    <3>1. tenantRow # Absent => tenantRow.born \in Nat
      BY <1>n DEF DirRow
    <3> QED
      BY <1>n, <1>b, <3>1
  <2>3. orgsMade + 1 \in 0..DirMaxBorn /\ orgsMade < orgsMade + 1
    BY <1>n, <2>1
  <2>4. Legal(tenantRow, orgsMade + 1)
    BY <1>n, <2>1, <2>2, <2>3 DEF Legal
  <2> QED
    BY <1>k, <2>1, <2>4
<1>3. CASE DropOrganization
  <2>1. Write(tenantRow, 0) /\ orgsMade' = orgsMade /\ 0 \in 0..DirMaxBorn /\ 0 <= orgsMade
    BY <1>3, <1>n DEF DropOrganization
  <2>2. Legal(tenantRow, 0)
    BY <1>n, <1>b, <2>1 DEF Legal
  <2> QED
    BY <1>k, <2>1, <2>2
<1>4. ASSUME NEW on \in BOOLEAN, NEW k \in DirKeys, InsertTenantRow(k, on)
      PROVE  DInv' /\ Truth!ViewNext
  <2>1. PICK b \in 1..orgsMade : Write([key |-> k, born |-> b, enabled |-> on], orgBorn)
    BY <1>4 DEF InsertTenantRow
  <2> DEFINE row == [key |-> k, born |-> b, enabled |-> on]
  <2>2. row \in DirRow /\ row.born <= orgsMade
    BY <1>n DEF DirRow
  <2>3. orgsMade' = orgsMade /\ Write(row, orgBorn)
    BY <1>4, <2>1 DEF InsertTenantRow
  <2> HIDE DEF row
  <2>4. Legal(row, orgBorn)
    BY <1>n, <1>b, <2>2, <2>3 DEF Legal
  <2> QED
    BY <1>k, <2>3, <2>4
<1>5. ASSUME NEW on \in BOOLEAN, UpdateTenantRow(on) PROVE DInv' /\ Truth!ViewNext
  <2> DEFINE row == [tenantRow EXCEPT !.enabled = on]
  <2>1. Write(row, orgBorn) /\ orgsMade' = orgsMade /\ tenantRow # Absent
    BY <1>5 DEF UpdateTenantRow
  <2>2. row \in DirRow /\ row.born <= orgsMade
    BY <1>n, <1>b, <2>1 DEF DirRow
  <2> HIDE DEF row
  <2>3. Legal(row, orgBorn)
    BY <1>n, <1>b, <2>1, <2>2 DEF Legal
  <2> QED
    BY <1>k, <2>1, <2>3
<1>6. CASE DeleteTenantRow
  <2>1. Write(Absent, orgBorn) /\ orgsMade' = orgsMade
    BY <1>6 DEF DeleteTenantRow
  <2>2. Legal(Absent, orgBorn)
    BY <1>n, <1>b, <2>1 DEF Legal
  <2> QED
    BY <1>k, <2>1, <2>2
<1>7. ASSUME NEW h \in Hosts, Hit(h) PROVE DInv' /\ Truth!ViewNext
  <2>1. dirCache[h] # Absent /\ dirNow < dirCache[h].until
    BY <1>7 DEF Hit, CacheHit
  <2> PICK a \in Answers : a = dirCache[h].tenant
    BY <1>t, <2>1 DEF DirectoryTypeOK
  <2>2. lastServed[a] # Absent /\ dirCache[h].until <= lastServed[a] + Delay
    BY <2>1 DEF DInv, CacheOK
  <2>3. lastServed[a] \in Nat /\ dirCache[h].until \in Nat /\ Delay \in Nat
    BY <1>t, <2>1, <2>2 DEF DirectoryTypeOK, Delay
  <2>4. dirNow < lastServed[a] + Delay
    BY <1>n, <2>1, <2>2, <2>3
  <2>5. Truth!Tell(h, a)
    BY <1>7, <2>2, <2>4 DEF Hit, Truth!Tell, TenantOf, dirDb, Delay
  <2>6. DInv'
    BY <1>7, <1>t DEF Hit, dirDb, DInv, DirectoryTypeOK, BornOK, ServedOK, LookupOK, CacheOK, Served, TenantOf
  <2> QED
    BY <1>w, <2>5, <2>6
<1>8. ASSUME NEW h \in Hosts, ReadRow(h) PROVE DInv' /\ Truth!ViewNext
  <2>1. CASE tenantRow # Absent /\ tenantRow.enabled
    <3>1. /\ lookup' = [lookup EXCEPT ![h] = [row |-> tenantRow, at |-> dirNow]]
          /\ answering' = Absent /\ UNCHANGED <<dirNow, dirDb, dirCache, lastServed>>
      BY <1>8, <2>1 DEF ReadRow
    <3>2. tenantRow \in DirRow
      BY <1>n, <2>1
    <3>3. DirectoryTypeOK'
      BY <1>t, <3>1, <3>2 DEF DirectoryTypeOK, dirDb
    <3>4. /\ lookup'[h] = [row |-> tenantRow, at |-> dirNow]
          /\ \A g \in Hosts \ {h} : lookup'[g] = lookup[g]
      BY <1>t, <3>1 DEF DirectoryTypeOK
    <3>5. Served(IF orgBorn = tenantRow.born THEN tenantRow.key ELSE Absent, dirNow)
      <4>1. TenantOf(tenantRow, orgBorn) = IF orgBorn = tenantRow.born THEN tenantRow.key ELSE Absent
        BY <2>1 DEF TenantOf
      <4>2. lastServed[TenantOf(tenantRow, orgBorn)] = dirNow /\ dirNow # Absent /\ dirNow <= dirNow
        BY <1>n DEF DInv, ServedOK
      <4> QED
        BY <4>1, <4>2 DEF Served
    <3>6. LookupOK'
      <4>1. dirNow <= dirNow /\ dirNow <= dirNow + DirLag
        BY <1>n
      <4>2. lookup'[h].row = tenantRow /\ lookup'[h].at = dirNow
        BY <3>4
      <4>3. \A g \in Hosts \ {h} : lookup[g] # Absent =>
              /\ lookup[g].at <= dirNow /\ dirNow <= lookup[g].at + DirLag
              /\ Served(IF orgBorn = lookup[g].row.born THEN lookup[g].row.key ELSE Absent, lookup[g].at)
        BY DEF DInv, LookupOK
      <4> QED
        BY <3>1, <3>4, <3>5, <4>1, <4>2, <4>3 DEF LookupOK, Served, dirDb
    <3>7. CacheOK'
      BY <3>1 DEF DInv, CacheOK
    <3>8. \A g \in Hosts : lookup'[g] = lookup[g] \/ (lookup'[g].row = tenantRow /\ tenantRow # Absent)
      BY <2>1, <3>4
    <3> QED
      BY <1>w, <3>1, <3>3, <3>6, <3>7, <3>8, HushStep
  <2>2. CASE ~(tenantRow # Absent /\ tenantRow.enabled)
    <3>1. Conclude(h, Absent) /\ Absent \in Answers
      BY <1>8, <2>2 DEF ReadRow, Answers
    <3>2. Served(Absent, dirNow) /\ dirNow <= dirNow + DirLag
      BY <1>n, <2>2 DEF DInv, ServedOK, Served, TenantOf
    <3> QED
      BY <1>n, <1>w, <3>1, <3>2, ConcludeStep
  <2> QED
    BY <2>1, <2>2
<1>9. ASSUME NEW h \in Hosts, ReadOrganization(h) PROVE DInv' /\ Truth!ViewNext
  <2> DEFINE a == IF orgBorn = lookup[h].row.born THEN lookup[h].row.key ELSE Absent
  <2>1. lookup[h] # Absent /\ Conclude(h, a)
    BY <1>9 DEF ReadOrganization, SameOrganization
  <2>2. a \in Answers /\ lookup[h].at \in Nat
    BY <1>t, <2>1 DEF DirectoryTypeOK, DirRow, Answers
  <2>3. Served(a, lookup[h].at) /\ dirNow <= lookup[h].at + DirLag
    BY <2>1 DEF DInv, LookupOK
  <2> HIDE DEF a
  <2> QED
    BY <1>w, <2>1, <2>2, <2>3, ConcludeStep
<1>10. ASSUME NEW h \in Hosts, ForgetTenants(h) PROVE DInv' /\ Truth!ViewNext
  <2>1. /\ dirCache' = [dirCache EXCEPT ![h] = Absent] /\ answering' = Absent
        /\ UNCHANGED <<dirNow, dirDb, lookup, lastServed>>
    BY <1>10 DEF ForgetTenants
  <2>2. DirectoryTypeOK' /\ \A g \in Hosts : dirCache'[g] = dirCache[g] \/ dirCache'[g] = Absent
    BY <1>t, <2>1 DEF DirectoryTypeOK, dirDb
  <2>3. LookupOK'
    BY <2>1 DEF DInv, LookupOK, Served, dirDb
  <2>4. CacheOK'
    BY <2>1, <2>2 DEF DInv, CacheOK
  <2> QED
    <3>1. \A g \in Hosts : lookup'[g] = lookup[g] \/ (lookup'[g].row = tenantRow /\ tenantRow # Absent)
      BY <2>1 DEF dirDb
    <3> QED
      BY <1>w, <2>1, <2>2, <2>3, <2>4, <3>1, HushStep
<1>11. CASE DirTick
  <2> PICK a \in Answers : a = TenantOf(tenantRow, orgBorn)
    BY <1>n, TruthIsAnAnswer
  <2>1. /\ dirNow' = dirNow + 1 /\ dirNow + 1 \in Nat /\ dirNow + 1 >= dirNow
        /\ lastServed' = [lastServed EXCEPT ![a] = dirNow + 1]
        /\ answering' = Absent /\ UNCHANGED <<dirDb, dirCache, lookup>>
    BY <1>11, <1>n DEF DirTick
  <2>2. Truth!Pass
    BY <2>1 DEF Truth!Pass, TenantOf, dirDb
  <2>3. DirectoryTypeOK'
    BY <1>t, <2>1, LaterTruth DEF DirectoryTypeOK, dirDb
  <2>4. BornOK'
    BY <2>1 DEF DInv, BornOK, dirDb
  <2>5. ServedOK'
    <3>1. /\ lastServed'[a] = dirNow + 1
          /\ \A w \in Answers : lastServed'[w] # Absent => lastServed'[w] <= dirNow + 1
      BY <2>1, LaterTruth
    <3>2. TenantOf(tenantRow', orgBorn') = a
      BY <2>1 DEF dirDb
    <3> QED
      BY <2>1, <3>1, <3>2 DEF ServedOK
  <2>6. LookupOK'
    <3> SUFFICES ASSUME NEW h \in Hosts, lookup[h] # Absent, NEW at \in Nat, at = lookup[h].at,
                        NEW w \in Answers,
                        w = IF orgBorn = lookup[h].row.born THEN lookup[h].row.key ELSE Absent
                 PROVE  at <= dirNow + 1 /\ dirNow + 1 <= at + DirLag /\ Served(w, at)'
      <4>1. \A h \in Hosts : lookup[h] # Absent =>
              /\ lookup[h].at \in Nat
              /\ (IF orgBorn = lookup[h].row.born THEN lookup[h].row.key ELSE Absent) \in Answers
        BY <1>t DEF DirectoryTypeOK, DirRow, Answers
      <4> QED
        BY <2>1, <4>1 DEF LookupOK, Served, dirDb
    <3>1. at <= dirNow /\ dirNow < at + DirLag
      BY <1>11 DEF DInv, LookupOK, DirTick
    <3>2. Served(w, at)
      BY DEF DInv, LookupOK
    <3>3. Served(w, at)'
      BY <2>1, <3>2, LookupStays
    <3> QED
      BY <1>n, <3>1, <3>3
  <2>7. CacheOK'
    BY <2>1, CacheStays
  <2> QED
    BY <1>w, <2>2, <2>3, <2>4, <2>5, <2>6, <2>7 DEF DInv
<1> QED
  BY <1>1, <1>2, <1>3, <1>4, <1>5, <1>6, <1>7, <1>8, <1>9, <1>10, <1>11 DEF DirectoryNext

(* The directory implements the view: every step of it is one of the view, or none.      *)
THEOREM DirectoryIsAView == DirectorySpec => TenantsAreFresh
<1>1. DirectoryInit => DInv /\ Truth!ViewInit
  BY DirInit
<1>2. DInv /\ [DirectoryNext]_directoryVars => DInv' /\ [Truth!ViewNext]_Truth!viewVars
  BY DirStep
<1> QED
  BY <1>1, <1>2, PTL DEF DirectorySpec, TenantsAreFresh, Truth!ViewSpec

-----------------------------------------------------------------------------
(* The SP directory reads one row, so what it finds was the truth when it was read. *)
SpDelay == SpCacheTime + SpLag

ForceOK ==
  /\ \A v \in SpAnswers : lastInForce[v] # Missing => lastInForce[v] <= spNow
  /\ lastInForce[FromRow(spRow)] = spNow

FoundOK ==
  \A h \in SpHosts : spLookup[h] # Missing =>
    /\ spLookup[h].at <= spNow /\ spNow <= spLookup[h].at + SpLag
    /\ lastInForce[spLookup[h].sp] # Missing
    /\ spLookup[h].at <= lastInForce[spLookup[h].sp]

KeptOK ==
  \A h \in SpHosts : spCache[h] # Missing =>
    /\ lastInForce[spCache[h].sp] # Missing
    /\ spCache[h].until <= lastInForce[spCache[h].sp] + SpDelay

SpInv == SpTypeOK /\ ForceOK /\ FoundOK /\ KeptOK

LEMMA RowIsAnSp ==
  ASSUME NEW row \in SpRow \cup {Missing}
  PROVE  FromRow(row) \in SpAnswers
BY DEF FromRow, SpAnswers, SpRow

LEMMA SpDirInit == SpInit => SpInv /\ InForce!ViewInit
<1> SUFFICES ASSUME SpInit PROVE SpInv /\ InForce!ViewInit
  OBVIOUS
<1> USE SpDirectoryAssumption DEF SpDirectoryAssumption
<1>1. FromRow(spRow) = Missing
  BY DEF SpInit, FromRow
<1>2. SpTypeOK
  BY DEF SpInit, SpTypeOK, SpAnswers, Edits, NoEdit
<1>3. lastInForce[Missing] = 0 /\ \A v \in SpAnswers : lastInForce[v] # Missing => v = Missing
  BY DEF SpInit, SpAnswers
<1>4. SpInv
  BY <1>1, <1>2, <1>3 DEF SpInv, SpInit, ForceOK, FoundOK, KeptOK
<1>5. InForce!ViewInit
  BY <1>1 DEF SpInit, InForce!ViewInit, SpAnswers
<1> QED
  BY <1>4, <1>5

(* What is in force is so from now on, and everything else was as before. *)
LEMMA LaterForce ==
  ASSUME SpInv, NEW v \in SpAnswers, NEW now \in Nat, now >= spNow,
         lastInForce' = [lastInForce EXCEPT ![v] = now]
  PROVE  /\ lastInForce' \in [SpAnswers -> Nat \cup {Missing}]
         /\ lastInForce'[v] = now
         /\ \A w \in SpAnswers : lastInForce[w] # Missing =>
              /\ lastInForce[w] \in Nat
              /\ lastInForce'[w] # Missing /\ lastInForce'[w] \in Nat
              /\ lastInForce[w] <= lastInForce'[w]
         /\ \A w \in SpAnswers : lastInForce'[w] # Missing => lastInForce'[w] <= now
<1>1. lastInForce \in [SpAnswers -> Nat \cup {Missing}] /\ spNow \in Nat
  BY DEF SpInv, SpTypeOK
<1>2. \A w \in SpAnswers : lastInForce[w] # Missing => lastInForce[w] \in Nat /\ lastInForce[w] <= spNow
  BY <1>1 DEF SpInv, ForceOK
<1>3. \A w \in SpAnswers : lastInForce'[w] = IF w = v THEN now ELSE lastInForce[w]
  BY <1>1
<1>4. now # Missing
  BY SpDirectoryAssumption DEF SpDirectoryAssumption
<1> QED
  BY <1>1, <1>2, <1>3, <1>4

(* So what was found or kept is no worse for it. *)
LEMMA KeptStays ==
  ASSUME SpInv, NEW v \in SpAnswers, NEW now \in Nat, now >= spNow,
         lastInForce' = [lastInForce EXCEPT ![v] = now], UNCHANGED spCache
  PROVE  KeptOK'
<1>1. SpDelay \in Nat
  BY SpDirectoryAssumption DEF SpDirectoryAssumption, SpDelay
<1> SUFFICES ASSUME NEW h \in SpHosts, spCache[h] # Missing
             PROVE  /\ lastInForce'[spCache[h].sp] # Missing
                    /\ spCache[h].until <= lastInForce'[spCache[h].sp] + SpDelay
  BY DEF KeptOK, SpDelay
<1>2. spCache[h].sp \in SpAnswers /\ spCache[h].until \in Nat
  BY DEF SpInv, SpTypeOK
<1> PICK w \in SpAnswers : w = spCache[h].sp
  BY <1>2
<1>3. lastInForce[w] # Missing /\ spCache[h].until <= lastInForce[w] + SpDelay
  BY DEF SpInv, KeptOK
<1>4. lastInForce[w] \in Nat /\ lastInForce'[w] # Missing /\ lastInForce'[w] \in Nat
      /\ lastInForce[w] <= lastInForce'[w]
  BY <1>3, LaterForce
<1> HIDE DEF SpDelay
<1> QED
  BY <1>1, <1>2, <1>3, <1>4

LEMMA FoundStays ==
  ASSUME SpInv, NEW v \in SpAnswers, NEW now \in Nat, now >= spNow, spNow' = now,
         lastInForce' = [lastInForce EXCEPT ![v] = now], UNCHANGED spLookup,
         \A h \in SpHosts : spLookup[h] # Missing => now <= spLookup[h].at + SpLag
  PROVE  FoundOK'
<1> SUFFICES ASSUME NEW h \in SpHosts, spLookup[h] # Missing
             PROVE  /\ spLookup[h].at <= now /\ now <= spLookup[h].at + SpLag
                    /\ lastInForce'[spLookup[h].sp] # Missing
                    /\ spLookup[h].at <= lastInForce'[spLookup[h].sp]
  BY DEF FoundOK
<1>1. spLookup[h].sp \in SpAnswers /\ spLookup[h].at \in Nat /\ spNow \in Nat
  BY DEF SpInv, SpTypeOK
<1> PICK w \in SpAnswers : w = spLookup[h].sp
  BY <1>1
<1>2. /\ spLookup[h].at <= spNow
      /\ lastInForce[w] # Missing /\ spLookup[h].at <= lastInForce[w]
  BY DEF SpInv, FoundOK
<1>3. lastInForce[w] \in Nat /\ lastInForce'[w] # Missing /\ lastInForce'[w] \in Nat
      /\ lastInForce[w] <= lastInForce'[w]
  BY <1>2, LaterForce
<1> QED
  BY <1>1, <1>2, <1>3

-----------------------------------------------------------------------------
(* A write makes its config, or none, the one in force from now on. *)
LEMMA InForceStep ==
  ASSUME SpInv, NEW row \in SpRow \cup {Missing}, spRow' = row,
         lastInForce' = [lastInForce EXCEPT ![FromRow(row)] = spNow], spAnswering' = Missing,
         UNCHANGED <<spNow, spCache, spLookup>>,
         rowsMade' \in 0..SpMaxRows, edit' \in [RegistryCalls -> Edits]
  PROVE  SpInv' /\ InForce!ViewNext
<1> PICK v \in SpAnswers : v = FromRow(row)
  BY RowIsAnSp
<1>1. spNow \in Nat /\ spNow >= spNow /\ lastInForce' = [lastInForce EXCEPT ![v] = spNow]
  BY DEF SpInv, SpTypeOK
<1>2. InForce!Become(v)
  BY <1>1 DEF InForce!Become, FromRow
<1>3. SpTypeOK'
  BY <1>1, LaterForce DEF SpInv, SpTypeOK
<1>4. ForceOK'
  <2>1. lastInForce'[v] = spNow /\ \A w \in SpAnswers : lastInForce'[w] # Missing => lastInForce'[w] <= spNow
    BY <1>1, LaterForce
  <2>2. FromRow(spRow') = v
    OBVIOUS
  <2> QED
    BY <2>1, <2>2 DEF ForceOK
<1>5. FoundOK'
  BY <1>1, FoundStays DEF SpInv, FoundOK
<1>6. KeptOK'
  BY <1>1, KeptStays
<1> QED
  BY <1>2, <1>3, <1>4, <1>5, <1>6 DEF SpInv, InForce!ViewNext

(* A step that changes neither the row nor the clock, and answers nobody. *)
LEMMA SpHush ==
  ASSUME SpInv, UNCHANGED <<spNow, spRow, rowsMade, lastInForce>>, spAnswering' = Missing,
         edit' \in [RegistryCalls -> Edits],
         SpTypeOK', FoundOK', KeptOK'
  PROVE  SpInv' /\ InForce!ViewNext
<1>1. InForce!Hush
  BY DEF InForce!Hush, FromRow
<1>2. ForceOK'
  BY DEF SpInv, ForceOK, FromRow
<1> QED
  BY <1>1, <1>2 DEF SpInv, InForce!ViewNext

LEMMA NoEditType == NoEdit \in Edits
BY SpDirectoryAssumption DEF SpDirectoryAssumption, NoEdit, Edits, SpAnswers

LEMMA PutType ==
  ASSUME SpTypeOK, NEW c \in RegistryCalls, NEW row, Put(c, row)
  PROVE  edit' \in [RegistryCalls -> Edits]
<1>1. \A d \in RegistryCalls : edit[d] \in Edits
  BY DEF SpTypeOK
<1>2. [NoEdit EXCEPT !.pc = "flush", !.home = edit[c].home] \in Edits
  <2>1. edit[c].home \in SpHosts \cup {Missing}
    BY <1>1 DEF Edits
  <2> QED
    BY <2>1, NoEditType DEF Edits
<1>3. \A d \in RegistryCalls : [edit[d] EXCEPT !.overtaken = TRUE] \in Edits
  BY <1>1 DEF Edits
<1> QED
  BY <1>1, <1>2, <1>3 DEF Put

LEMMA MergedType ==
  ASSUME NEW row \in SpRow, NEW job \in Edits
  PROVE  Merged(row, job) \in SpRow
BY DEF Merged, SpRow, Edits, SpAnswers

LEMMA SpStep == SpInv /\ [SpNext]_spVars => SpInv' /\ [InForce!ViewNext]_InForce!viewVars
<1> SUFFICES ASSUME SpInv, [SpNext]_spVars PROVE SpInv' /\ [InForce!ViewNext]_InForce!viewVars
  OBVIOUS
<1> USE SpDirectoryAssumption DEF SpDirectoryAssumption
<1>t. SpTypeOK /\ spNow \in Nat /\ spRow \in SpRow \cup {Missing} /\ rowsMade \in 0..SpMaxRows
      /\ \A c \in RegistryCalls : edit[c] \in Edits
  BY DEF SpInv, SpTypeOK
<1>e. NoEdit \in Edits
  BY NoEditType
<1>1. CASE UNCHANGED spVars
  <2>1. SpInv'
    BY <1>1 DEF spVars, SpInv, SpTypeOK, ForceOK, FoundOK, KeptOK, FromRow
  <2>2. UNCHANGED InForce!viewVars
    BY <1>1 DEF spVars, InForce!viewVars, FromRow
  <2> QED
    BY <2>1, <2>2
<1>2. ASSUME NEW c \in RegistryCalls, NEW h \in SpHosts, NEW config \in SpConfigs, NEW on \in BOOLEAN,
             CreateServiceProvider(c, h, config, on)
      PROVE  SpInv' /\ InForce!ViewNext
  <2> DEFINE row == [id |-> rowsMade + 1, config |-> config, enabled |-> on]
  <2>1. row \in SpRow /\ rowsMade + 1 \in 0..SpMaxRows
    BY <1>2, <1>t DEF CreateServiceProvider, SpRow
  <2>2. /\ spRow' = row /\ lastInForce' = [lastInForce EXCEPT ![FromRow(row)] = spNow]
        /\ spAnswering' = Missing /\ UNCHANGED <<spNow, spCache, spLookup>>
        /\ rowsMade' = rowsMade + 1
    BY <1>2 DEF CreateServiceProvider
  <2>3. edit' \in [RegistryCalls -> Edits]
    <3>1. [NoEdit EXCEPT !.pc = "flush", !.home = h] \in Edits
      BY <1>e DEF Edits
    <3> QED
      BY <1>2, <1>t, <3>1 DEF CreateServiceProvider, SpTypeOK
  <2> HIDE DEF row
  <2> QED
    BY <2>1, <2>2, <2>3, InForceStep
<1>b. ASSUME NEW c \in RegistryCalls, NEW job \in Edits, Begun(c, job)
      PROVE  SpInv' /\ InForce!ViewNext
  <2>1. edit' \in [RegistryCalls -> Edits]
    BY <1>b, <1>t DEF Begun, SpTypeOK
  <2>2. /\ UNCHANGED <<spNow, spRow, rowsMade, spCache, spLookup, lastInForce>>
        /\ spAnswering' = Missing
    BY <1>b DEF Begun
  <2>3. SpTypeOK'
    BY <1>t, <2>1, <2>2 DEF SpTypeOK
  <2>4. FoundOK' /\ KeptOK'
    BY <2>2 DEF SpInv, FoundOK, KeptOK
  <2> QED
    BY <2>1, <2>2, <2>3, <2>4, SpHush
<1>3. ASSUME NEW c \in RegistryCalls, NEW h \in SpHosts, NEW config \in SpAnswers,
             NEW on \in BOOLEAN \cup {Missing}, UpdateServiceProvider(c, h, config, on)
      PROVE  SpInv' /\ InForce!ViewNext
  <2> DEFINE job == [pc |-> "write", home |-> h, id |-> spRow.id, config |-> config,
                     was |-> spRow.enabled, enabled |-> on, overtaken |-> FALSE]
  <2>1. spRow \in SpRow /\ Begun(c, job)
    BY <1>3, <1>t DEF UpdateServiceProvider
  <2>2. job \in Edits
    BY <2>1 DEF Edits, SpRow
  <2> HIDE DEF job
  <2> QED
    BY <1>b, <2>1, <2>2
<1>4. ASSUME NEW c \in RegistryCalls, NEW h \in SpHosts, DeleteServiceProvider(c, h)
      PROVE  SpInv' /\ InForce!ViewNext
  <2>1. spRow \in SpRow /\ Begun(c, [NoEdit EXCEPT !.pc = "delete", !.home = h, !.id = spRow.id])
    BY <1>4, <1>t DEF DeleteServiceProvider
  <2>2. [NoEdit EXCEPT !.pc = "delete", !.home = h, !.id = spRow.id] \in Edits
    <3>1. spRow.id \in 0..SpMaxRows
      BY <2>1 DEF SpRow
    <3> QED
      BY <1>e, <3>1 DEF Edits
  <2> QED
    BY <1>b, <2>1, <2>2
<1>p. ASSUME NEW c \in RegistryCalls, NEW row \in SpRow \cup {Missing}, Put(c, row), UNCHANGED rowsMade
      PROVE  SpInv' /\ InForce!ViewNext
  <2>1. edit' \in [RegistryCalls -> Edits]
    BY <1>p, <1>t, PutType
  <2> QED
    BY <1>p, <1>t, <2>1, InForceStep DEF Put
<1>5. ASSUME NEW c \in RegistryCalls, WriteServiceProvider(c) PROVE SpInv' /\ InForce!ViewNext
  <2>1. CASE spRow # Missing /\ spRow.id = edit[c].id
    BY <1>5, <1>t, <1>p, <2>1, MergedType DEF WriteServiceProvider
  <2>2. CASE ~(spRow # Missing /\ spRow.id = edit[c].id)
    BY <1>5, <1>t, <1>p, <2>2 DEF WriteServiceProvider
  <2> QED
    BY <2>1, <2>2
<1>6. ASSUME NEW c \in RegistryCalls, EraseServiceProvider(c) PROVE SpInv' /\ InForce!ViewNext
  <2>1. CASE spRow # Missing /\ spRow.id = edit[c].id
    BY <1>6, <1>p, <2>1 DEF EraseServiceProvider
  <2>2. CASE ~(spRow # Missing /\ spRow.id = edit[c].id)
    BY <1>6, <1>t, <1>p, <2>2 DEF EraseServiceProvider
  <2> QED
    BY <2>1, <2>2
<1>7. ASSUME NEW c \in RegistryCalls, Flush(c) \/ CrashEdit(c) PROVE SpInv' /\ InForce!ViewNext
  <2>1. edit' \in [RegistryCalls -> Edits]
    BY <1>7, <1>t, <1>e DEF Flush, CrashEdit, SpTypeOK
  <2>2. UNCHANGED <<spNow, spRow, rowsMade, spLookup, lastInForce>> /\ spAnswering' = Missing
    BY <1>7 DEF Flush, CrashEdit
  <2>3. /\ spCache' \in [SpHosts -> [sp : SpAnswers, until : Nat] \cup {Missing}]
        /\ \A g \in SpHosts : spCache'[g] = spCache[g] \/ spCache'[g] = Missing
    BY <1>7, <1>t DEF Flush, CrashEdit, SpTypeOK
  <2>4. SpTypeOK'
    BY <1>t, <2>1, <2>2, <2>3 DEF SpTypeOK
  <2>5. FoundOK' /\ KeptOK'
    BY <2>2, <2>3 DEF SpInv, FoundOK, KeptOK
  <2> QED
    BY <2>1, <2>2, <2>4, <2>5, SpHush
<1>8. ASSUME NEW h \in SpHosts, FindCached(h) PROVE SpInv' /\ InForce!ViewNext
  <2>1. spCache[h] # Missing /\ spNow < spCache[h].until
    BY <1>8 DEF FindCached, Cached
  <2> PICK v \in SpAnswers : v = spCache[h].sp
    BY <1>t, <2>1 DEF SpTypeOK
  <2>2. lastInForce[v] # Missing /\ spCache[h].until <= lastInForce[v] + SpDelay
    BY <2>1 DEF SpInv, KeptOK
  <2>3. lastInForce[v] \in Nat /\ spCache[h].until \in Nat /\ SpDelay \in Nat
    BY <1>t, <2>1, <2>2 DEF SpTypeOK, SpDelay
  <2>4. spNow < lastInForce[v] + SpDelay
    BY <1>t, <2>1, <2>2, <2>3
  <2>5. InForce!Tell(h, v)
    BY <1>8, <2>2, <2>4 DEF FindCached, InForce!Tell, FromRow, SpDelay
  <2>6. SpInv'
    BY <1>8 DEF FindCached, SpInv, SpTypeOK, ForceOK, FoundOK, KeptOK, FromRow
  <2> QED
    BY <2>5, <2>6 DEF InForce!ViewNext
<1>9. ASSUME NEW h \in SpHosts, ReadSp(h) PROVE SpInv' /\ InForce!ViewNext
  <2> PICK v \in SpAnswers : v = FromRow(spRow)
    BY <1>t, RowIsAnSp
  <2>1. /\ spLookup' = [spLookup EXCEPT ![h] = [sp |-> v, at |-> spNow]] /\ spAnswering' = Missing
        /\ UNCHANGED <<spNow, spRow, rowsMade, edit, spCache, lastInForce>>
    BY <1>9 DEF ReadSp
  <2>2. /\ spLookup' \in [SpHosts -> [sp : SpAnswers, at : Nat] \cup {Missing}]
        /\ spLookup'[h].sp = v /\ spLookup'[h].at = spNow
        /\ \A g \in SpHosts \ {h} : spLookup'[g] = spLookup[g]
    BY <1>t, <2>1 DEF SpTypeOK
  <2>3. SpTypeOK' /\ KeptOK' /\ edit' \in [RegistryCalls -> Edits]
    BY <1>t, <2>1, <2>2 DEF SpTypeOK, SpInv, KeptOK
  <2>4. /\ spNow <= spNow + SpLag /\ spNow <= spNow /\ spNow # Missing
        /\ lastInForce[v] = spNow
    BY <1>t DEF SpInv, ForceOK
  <2>5. FoundOK'
    <3>1. ASSUME NEW g \in SpHosts \ {h}, spLookup[g] # Missing
          PROVE  /\ spLookup[g].at <= spNow /\ spNow <= spLookup[g].at + SpLag
                 /\ lastInForce[spLookup[g].sp] # Missing
                 /\ spLookup[g].at <= lastInForce[spLookup[g].sp]
      BY <3>1 DEF SpInv, FoundOK
    <3> QED
      BY <2>1, <2>2, <2>4, <3>1 DEF FoundOK
  <2> QED
    BY <2>1, <2>3, <2>5, SpHush
<1>10. ASSUME NEW h \in SpHosts, Remember(h) PROVE SpInv' /\ InForce!ViewNext
  <2>1. spLookup[h] # Missing
    BY <1>10 DEF Remember
  <2> PICK v \in SpAnswers : v = spLookup[h].sp
    BY <1>t, <2>1 DEF SpTypeOK
  <2>2. /\ lastInForce[v] # Missing /\ spLookup[h].at <= lastInForce[v]
        /\ spNow <= spLookup[h].at + SpLag
    BY <2>1 DEF SpInv, FoundOK
  <2>3. lastInForce[v] \in Nat /\ spLookup[h].at \in Nat
    BY <1>t, <2>1, <2>2 DEF SpTypeOK
  <2>4. spNow + SpCacheTime <= lastInForce[v] + SpDelay /\ spNow < lastInForce[v] + SpDelay
    BY <1>t, <2>2, <2>3 DEF SpDelay
  <2>5. /\ UNCHANGED <<spNow, spRow, rowsMade, edit, lastInForce>>
        /\ spAnswering' = [reader |-> h, value |-> v]
        /\ spCache' = [spCache EXCEPT ![h] = [sp |-> v, until |-> spNow + SpCacheTime]]
        /\ spLookup' = [spLookup EXCEPT ![h] = Missing]
    BY <1>10 DEF Remember
  <2>6. InForce!Tell(h, v)
    BY <2>2, <2>4, <2>5 DEF InForce!Tell, FromRow, SpDelay
  <2>7. /\ spLookup' \in [SpHosts -> [sp : SpAnswers, at : Nat] \cup {Missing}]
        /\ \A g \in SpHosts : spLookup'[g] = spLookup[g] \/ spLookup'[g] = Missing
    BY <1>t, <2>5 DEF SpTypeOK
  <2>8. /\ spCache' \in [SpHosts -> [sp : SpAnswers, until : Nat] \cup {Missing}]
        /\ spCache'[h].sp = v /\ spCache'[h].until = spNow + SpCacheTime
        /\ \A g \in SpHosts \ {h} : spCache'[g] = spCache[g]
    BY <1>t, <2>5 DEF SpTypeOK
  <2>9. SpTypeOK'
    BY <1>t, <2>5, <2>7, <2>8 DEF SpTypeOK
  <2>10. ForceOK' /\ FoundOK'
    BY <2>5, <2>7 DEF SpInv, ForceOK, FoundOK, FromRow
  <2>11. KeptOK'
    <3>1. \A g \in SpHosts \ {h} : spCache[g] # Missing =>
            /\ lastInForce[spCache[g].sp] # Missing
            /\ spCache[g].until <= lastInForce[spCache[g].sp] + SpDelay
      BY DEF SpInv, KeptOK
    <3> QED
      BY <2>2, <2>4, <2>5, <2>8, <3>1 DEF KeptOK
  <2> QED
    BY <2>6, <2>9, <2>10, <2>11 DEF SpInv, InForce!ViewNext
<1>11. CASE SpTick
  <2> PICK v \in SpAnswers : v = FromRow(spRow)
    BY <1>t, RowIsAnSp
  <2>1. /\ spNow' = spNow + 1 /\ spNow + 1 \in Nat /\ spNow + 1 >= spNow
        /\ lastInForce' = [lastInForce EXCEPT ![v] = spNow + 1]
        /\ spAnswering' = Missing /\ UNCHANGED <<spRow, rowsMade, edit, spCache, spLookup>>
    BY <1>11, <1>t DEF SpTick
  <2>2. InForce!Pass
    BY <2>1 DEF InForce!Pass, FromRow
  <2>3. SpTypeOK'
    BY <1>t, <2>1, LaterForce DEF SpTypeOK
  <2>4. ForceOK'
    <3>1. /\ lastInForce'[v] = spNow + 1
          /\ \A w \in SpAnswers : lastInForce'[w] # Missing => lastInForce'[w] <= spNow + 1
      BY <2>1, LaterForce
    <3>2. FromRow(spRow') = v
      BY <2>1
    <3> QED
      BY <2>1, <3>1, <3>2 DEF ForceOK
  <2>5. \A h \in SpHosts : spLookup[h] # Missing => spNow + 1 <= spLookup[h].at + SpLag
    <3> SUFFICES ASSUME NEW h \in SpHosts, spLookup[h] # Missing
                 PROVE  spNow + 1 <= spLookup[h].at + SpLag
      OBVIOUS
    <3>1. spLookup[h].at \in Nat /\ spNow < spLookup[h].at + SpLag
      BY <1>11, <1>t DEF SpTick, SpTypeOK
    <3> QED
      BY <1>t, <3>1
  <2>6. FoundOK'
    BY <2>1, <2>5, FoundStays
  <2>7. KeptOK'
    BY <2>1, KeptStays
  <2> QED
    BY <2>2, <2>3, <2>4, <2>6, <2>7 DEF SpInv, InForce!ViewNext
<1> QED
  BY <1>1, <1>2, <1>3, <1>4, <1>5, <1>6, <1>7, <1>8, <1>9, <1>10, <1>11 DEF SpNext

(* Of every SP, in every isolate, what is used was in force less than a cache time and  *)
(* a lookup ago: each step of the directory and its registry is one of that view.       *)
THEOREM SpDirectoryIsAView == SpSpec => SpsAreFresh
<1>1. SpInit => SpInv /\ InForce!ViewInit
  BY SpDirInit
<1>2. SpInv /\ [SpNext]_spVars => SpInv' /\ [InForce!ViewNext]_InForce!viewVars
  BY SpStep
<1> QED
  BY <1>1, <1>2, PTL DEF SpSpec, SpsAreFresh, InForce!ViewSpec

-----------------------------------------------------------------------------
(* An edit that read its SP as enabled, and was not overtaken, knows what the row says. *)
IdsOK ==
  /\ spRow # Missing => spRow.id <= rowsMade
  /\ \A c \in RegistryCalls : edit[c].id <= rowsMade

KnowsOK ==
  \A c \in RegistryCalls :
    /\ edit[c].pc = "write" /\ edit[c].was /\ ~edit[c].overtaken
    /\ spRow # Missing /\ spRow.id = edit[c].id
    => spRow.enabled

WInv == SpInv /\ IdsOK /\ KnowsOK

(* A write leaves the id of the row, and tells the edits that it switched the SP off. *)
LEMMA PutKnows ==
  ASSUME WInv, SpInv', NEW c \in RegistryCalls, NEW row \in SpRow \cup {Missing}, Put(c, row),
         UNCHANGED rowsMade, row # Missing => spRow # Missing /\ row.id = spRow.id
  PROVE  WInv'
<1> USE SpDirectoryAssumption DEF SpDirectoryAssumption
<1>t. /\ spRow \in SpRow \cup {Missing} /\ spRow' = row
      /\ \A d \in RegistryCalls : edit[d] \in Edits
      /\ rowsMade' = rowsMade /\ rowsMade \in Nat
  BY DEF WInv, SpInv, SpTypeOK, Put
<1>1. /\ edit'[c].pc = "flush" /\ edit'[c].id = 0
      /\ \A d \in RegistryCalls \ {c} :
           /\ edit'[d].pc = edit[d].pc /\ edit'[d].id = edit[d].id /\ edit'[d].was = edit[d].was
           /\ ~edit'[d].overtaken =>
                ~edit[d].overtaken
                /\ ~(edit[d].pc = "write" /\ FromRow(spRow) # Missing /\ FromRow(row) = Missing)
  <2>1. edit'[c] = [NoEdit EXCEPT !.pc = "flush", !.home = edit[c].home]
    BY DEF Put
  <2>2. edit'[c].pc = "flush" /\ edit'[c].id = 0
    BY <2>1 DEF NoEdit
  <2>3. ASSUME NEW d \in RegistryCalls \ {c}
        PROVE  /\ edit'[d].pc = edit[d].pc /\ edit'[d].id = edit[d].id /\ edit'[d].was = edit[d].was
               /\ ~edit'[d].overtaken =>
                    ~edit[d].overtaken
                    /\ ~(edit[d].pc = "write" /\ FromRow(spRow) # Missing /\ FromRow(row) = Missing)
    <3>1. CASE FromRow(spRow) # Missing /\ FromRow(row) = Missing /\ edit[d].pc = "write"
      <4>1. edit'[d] = [edit[d] EXCEPT !.overtaken = TRUE]
        BY <3>1 DEF Put
      <4> QED
        BY <4>1, <1>t DEF Edits
    <3>2. CASE ~(FromRow(spRow) # Missing /\ FromRow(row) = Missing /\ edit[d].pc = "write")
      <4>1. edit'[d] = edit[d]
        BY <3>2 DEF Put
      <4> QED
        BY <4>1, <3>2
    <3> QED
      BY <3>1, <3>2
  <2> QED
    BY <2>2, <2>3
<1>2. IdsOK'
  BY <1>t, <1>1 DEF WInv, IdsOK
<1>3. ASSUME NEW d \in RegistryCalls, edit'[d].pc = "write", edit'[d].was, ~edit'[d].overtaken,
             row # Missing, row.id = edit'[d].id, ~row.enabled
      PROVE  FALSE
  <2>1. d # c
    BY <1>1, <1>3
  <2>2. /\ edit[d].pc = "write" /\ edit[d].was /\ ~edit[d].overtaken /\ spRow.id = edit[d].id
        /\ FromRow(spRow) = Missing \/ FromRow(row) # Missing
    BY <1>1, <1>3, <2>1
  <2>3. FromRow(row) = Missing
    BY <1>3 DEF FromRow
  <2>4. spRow \in SpRow /\ spRow.enabled
    BY <1>t, <1>3, <2>2 DEF WInv, KnowsOK
  <2>5. spRow.config # Missing
    BY <2>4 DEF SpRow
  <2> QED
    BY <1>3, <2>2, <2>3, <2>4, <2>5 DEF FromRow
<1> QED
  BY <1>t, <1>2, <1>3 DEF WInv, KnowsOK

LEMMA WInvStep == WInv /\ [SpNext]_spVars => WInv'
<1> SUFFICES ASSUME WInv, [SpNext]_spVars PROVE WInv'
  OBVIOUS
<1> USE SpDirectoryAssumption DEF SpDirectoryAssumption
<1>t. /\ SpInv' /\ SpTypeOK /\ rowsMade \in Nat /\ edit \in [RegistryCalls -> Edits]
      /\ spRow \in SpRow \cup {Missing}
      /\ \A c \in RegistryCalls : edit[c].id \in Nat
  BY SpStep DEF WInv, SpInv, SpTypeOK, Edits
<1>n. NoEdit.id = 0 /\ NoEdit.pc = "idle" /\ 0 <= rowsMade
  BY <1>t DEF NoEdit
<1>1. CASE UNCHANGED spVars
  BY <1>1, <1>t DEF spVars, WInv, IdsOK, KnowsOK
<1>2. ASSUME NEW c \in RegistryCalls, NEW h \in SpHosts, NEW config \in SpConfigs, NEW on \in BOOLEAN,
             CreateServiceProvider(c, h, config, on)
      PROVE  WInv'
  <2>1. spRow'.id = rowsMade + 1 /\ rowsMade' = rowsMade + 1
    BY <1>2 DEF CreateServiceProvider
  <2>2. /\ edit'[c].id = 0 /\ edit'[c].pc = "flush"
        /\ \A d \in RegistryCalls \ {c} : edit'[d] = edit[d]
    BY <1>2, <1>t DEF CreateServiceProvider, NoEdit
  <2>3. \A d \in RegistryCalls : edit'[d].id <= rowsMade
    BY <1>t, <2>2 DEF WInv, IdsOK
  <2>4. \A d \in RegistryCalls : edit'[d].id \in Nat
    BY <1>t, <2>2
  <2>5. IdsOK'
    BY <1>t, <2>1, <2>3, <2>4 DEF IdsOK
  <2>6. \A d \in RegistryCalls : spRow'.id # edit'[d].id
    BY <1>t, <2>1, <2>3, <2>4
  <2> QED
    BY <1>t, <2>5, <2>6 DEF WInv, KnowsOK
<1>b. ASSUME NEW c \in RegistryCalls, NEW job, edit' = [edit EXCEPT ![c] = job],
             UNCHANGED <<spRow, rowsMade>>, job.id <= rowsMade,
             job.pc = "write" => spRow # Missing /\ job.was = spRow.enabled
      PROVE  WInv'
  <2>1. edit'[c] = job /\ \A d \in RegistryCalls \ {c} : edit'[d] = edit[d]
    BY <1>b, <1>t
  <2>2. IdsOK'
    BY <1>b, <2>1 DEF WInv, IdsOK
  <2>3. KnowsOK'
    BY <1>b, <2>1 DEF WInv, KnowsOK
  <2> QED
    BY <1>t, <2>2, <2>3 DEF WInv
<1>3. ASSUME NEW c \in RegistryCalls, NEW h \in SpHosts, NEW config \in SpAnswers,
             NEW on \in BOOLEAN \cup {Missing}, UpdateServiceProvider(c, h, config, on)
      PROVE  WInv'
  <2> DEFINE job == [pc |-> "write", home |-> h, id |-> spRow.id, config |-> config,
                     was |-> spRow.enabled, enabled |-> on, overtaken |-> FALSE]
  <2>1. spRow # Missing /\ edit' = [edit EXCEPT ![c] = job] /\ UNCHANGED <<spRow, rowsMade>>
    BY <1>3 DEF UpdateServiceProvider, Begun
  <2>2. job.id <= rowsMade /\ job.was = spRow.enabled
    BY <2>1 DEF WInv, IdsOK
  <2> HIDE DEF job
  <2> QED
    BY <1>b, <2>1, <2>2
<1>4. ASSUME NEW c \in RegistryCalls, NEW h \in SpHosts, DeleteServiceProvider(c, h) PROVE WInv'
  <2> DEFINE job == [NoEdit EXCEPT !.pc = "delete", !.home = h, !.id = spRow.id]
  <2>1. spRow # Missing /\ edit' = [edit EXCEPT ![c] = job] /\ UNCHANGED <<spRow, rowsMade>>
    BY <1>4 DEF DeleteServiceProvider, Begun
  <2>2. job.id = spRow.id /\ job.pc = "delete" /\ spRow.id <= rowsMade
    BY <2>1 DEF NoEdit, WInv, IdsOK
  <2> HIDE DEF job
  <2> QED
    BY <1>b, <2>1, <2>2
<1>5. ASSUME NEW c \in RegistryCalls, WriteServiceProvider(c) PROVE WInv'
  <2>1. CASE spRow # Missing /\ spRow.id = edit[c].id
    <3>1. edit[c] \in Edits /\ spRow \in SpRow
      BY <1>t, <2>1
    <3>2. Merged(spRow, edit[c]) \in SpRow /\ Merged(spRow, edit[c]).id = spRow.id
      BY <3>1, MergedType DEF Merged, SpRow
    <3>3. Put(c, Merged(spRow, edit[c])) /\ UNCHANGED rowsMade
      BY <1>5, <2>1 DEF WriteServiceProvider
    <3> QED
      BY <1>t, <2>1, <3>2, <3>3, PutKnows
  <2>2. CASE ~(spRow # Missing /\ spRow.id = edit[c].id)
    BY <1>5, <1>t, <2>2, PutKnows DEF WriteServiceProvider
  <2> QED
    BY <2>1, <2>2
<1>6. ASSUME NEW c \in RegistryCalls, EraseServiceProvider(c) PROVE WInv'
  <2>1. CASE spRow # Missing /\ spRow.id = edit[c].id
    BY <1>6, <1>t, <2>1, PutKnows DEF EraseServiceProvider
  <2>2. CASE ~(spRow # Missing /\ spRow.id = edit[c].id)
    BY <1>6, <1>t, <2>2, PutKnows DEF EraseServiceProvider
  <2> QED
    BY <2>1, <2>2
<1>7. ASSUME NEW c \in RegistryCalls, Flush(c) \/ CrashEdit(c) PROVE WInv'
  BY <1>7, <1>b, <1>n DEF Flush, CrashEdit
<1>8. ASSUME NEW h \in SpHosts, FindCached(h) \/ ReadSp(h) \/ Remember(h) PROVE WInv'
  BY <1>8, <1>t DEF FindCached, ReadSp, Remember, WInv, IdsOK, KnowsOK
<1>9. CASE SpTick
  BY <1>9, <1>t DEF SpTick, WInv, IdsOK, KnowsOK
<1> QED
  BY <1>1, <1>2, <1>3, <1>4, <1>5, <1>6, <1>7, <1>8, <1>9 DEF SpNext

(* A write that switches an SP on was asked to, or another call switched it off since *)
(* the write read it.                                                                 *)
LEMMA SwitchedOnKnowingly ==
  ASSUME WInv, NEW c \in RegistryCalls, WriteServiceProvider(c),
         spRow # Missing, spRow' # Missing, ~spRow.enabled, spRow'.enabled
  PROVE  /\ edit[c].pc = "write" /\ edit'[c].pc = "flush"
         /\ edit[c].enabled = TRUE \/ edit[c].overtaken
<1>1. spRow \in SpRow /\ edit[c] \in Edits
  BY DEF WInv, SpInv, SpTypeOK
<1>2. edit[c].pc = "write" /\ spRow' # spRow
  BY DEF WriteServiceProvider
<1>3. spRow.id = edit[c].id /\ Put(c, Merged(spRow, edit[c])) /\ spRow' = Merged(spRow, edit[c])
  BY <1>2 DEF WriteServiceProvider, Put
<1>4. edit'[c].pc = "flush"
  BY <1>3 DEF Put, NoEdit
<1>5. spRow'.enabled = IF edit[c].enabled = Missing THEN edit[c].was ELSE edit[c].enabled
  BY <1>1, <1>3 DEF Merged, SpRow
<1>6. CASE edit[c].enabled = Missing
  BY <1>2, <1>3, <1>4, <1>5, <1>6 DEF WInv, KnowsOK
<1>7. CASE edit[c].enabled # Missing
  <2>1. edit[c].enabled \in BOOLEAN /\ edit[c].enabled
    BY <1>1, <1>5, <1>7 DEF Edits
  <2> QED
    BY <1>2, <1>4, <2>1
<1> QED
  BY <1>2, <1>4, <1>6, <1>7

(* An SP that was switched off comes on again only by a call that says so; an edit that *)
(* is silent about it may do so only if the SP was switched off after the edit had read *)
(* the row (samlIdpUpdateServiceProvider).                                              *)
THEOREM SwitchedOffIsKept == SpSpec => SwitchedOffStaysOff
<1>1. SpInit => WInv
  BY SpDirInit DEF WInv, IdsOK, KnowsOK, SpInit, NoEdit
<1>2. WInv /\ [SpNext]_spVars =>
        [spRow # Missing /\ spRow' # Missing /\ spRow.id = spRow'.id /\ ~spRow.enabled /\ spRow'.enabled =>
           \E c \in RegistryCalls :
             /\ edit[c].pc = "write" /\ edit'[c].pc = "flush"
             /\ edit[c].enabled = TRUE \/ edit[c].overtaken]_spVars
  <2> SUFFICES ASSUME WInv, SpNext, spRow # Missing, spRow' # Missing, ~spRow.enabled, spRow'.enabled
               PROVE  \E c \in RegistryCalls :
                        /\ edit[c].pc = "write" /\ edit'[c].pc = "flush"
                        /\ edit[c].enabled = TRUE \/ edit[c].overtaken
    OBVIOUS
  <2>1. \A c \in RegistryCalls : ~EraseServiceProvider(c)
    BY DEF EraseServiceProvider, Put
  <2>2. PICK c \in RegistryCalls : WriteServiceProvider(c)
    BY <2>1 DEF SpNext, CreateServiceProvider, UpdateServiceProvider, DeleteServiceProvider, Begun,
                Flush, CrashEdit, FindCached, ReadSp, Remember, SpTick
  <2> QED
    BY <2>2, SwitchedOnKnowingly
<1> QED
  BY <1>1, <1>2, WInvStep, PTL DEF SpSpec, SwitchedOffStaysOff
=============================================================================
