SPECIFICATION IsolatesSpec
CONSTANTS
  Requests = {r1}
  Instances = {i1, i2}
  Slots <- MCSlots
  IssueInstants <- MCIssueInstants
  MaxAge = 1
  Skew = 2
  SweepInterval = 2
  SpAhead = 1
  MaxLag = 1
  MaxTime = 9
  Assertions = {a1}
  Clients = {client1}
  Exchangers = {i1, i2}
  Lifetime = 1
  Leeway = 2
  ExMaxTime = 4
  ExMaxKeys = 2
  Nil = Nil
  Hosts = {h1}
  DirKeys = {t1, t2}
  DirCacheTime = 1
  DirLag = 1
  DirMaxTime = 3
  DirMaxBorn = 2
  Absent = Absent
  SpHosts = {h1}
  RegistryCalls = {i1, i2}
  SpConfigs = {g1}
  SpCacheTime = 1
  SpLag = 1
  SpMaxTime = 2
  SpMaxRows = 2
  Missing = Missing
SYMMETRY Symmetry
INVARIANTS
  WellTyped
  SweptIsStale
  OneVerdict
  KeptWhileValid
PROPERTIES
  FirstSightWins
  TenantsAreFresh
  SpsAreFresh
  SwitchedOffStaysOff
  ImplementsFirstSight
