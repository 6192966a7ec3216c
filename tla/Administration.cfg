SPECIFICATION Spec
CONSTANTS
  Orgs = {o1, o2}
  TenantKeys = {o1, o2}
  Sps = {s1}
  AdminCalls = {c1, c2}
  MaxBorn = 2
  MaxTenants = 2
  Nobody = Nobody
  DelTenants = {o1, o2}
  Root = Root
  OAuthClients = {x1}
  DelCalls = {c1, c2}
  DelRowIds = {1, 2}
  Unset = Unset
  MaxSpId = 3
  EntityIds = {e1, e2}
  PageSize = 1
  NoKey = NoKey
  Makers = {c1, c2}
  MaxFirst = 3
SYMMETRY Symmetry
CHECK_DEADLOCK FALSE
INVARIANTS TypeOK KeyGivenOnce NoOrphans NeverInherited SignsWithItsOwn KeepsAKey OneFirstKey EverySpIsFound
PROPERTIES StaysDelegated
