SPECIFICATION Spec
CONSTANTS
  Requests = {r1}
  Browsers = {b1}
  Sessions = {s1}
  Handlers = {h1}
  None = None
  MaxTime = 1
  MaxValues = 4
CHECK_DEADLOCK FALSE
PROPERTY
  DeletedGetsNothing
