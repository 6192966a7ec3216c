SPECIFICATION Spec
CONSTANTS
  Requests = {r1}
  Browsers = {b1, b2}
  Sessions = {s1, s2}
  Handlers = {h1, h2}
  None = None
  MaxTime = 2
  MaxValues = 4
CHECK_DEADLOCK FALSE
SYMMETRY Symmetry
INVARIANTS
  TypeOK
  OneAnswer
  FreshSession
  BoundToBrowser
  LoopGuard
  EndedGetsNothing
