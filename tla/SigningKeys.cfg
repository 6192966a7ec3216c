SPECIFICATION Spec
CONSTANTS
  MaxRows = 3
  Calls = {c1, c2}
  Isolates = {i1}
  CacheTime = 1
  MinPublished = 1
  KeepRetired = 2
  Lag = 0
  Patience = 1
  MaxTime = 2
  Shared = Shared
  None = None
SYMMETRY Symmetry
CHECK_DEADLOCK FALSE
INVARIANTS TypeOK SignerIsPublished Recoverable SharedExpires
PROPERTY RetiredIsFinal
