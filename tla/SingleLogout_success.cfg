SPECIFICATION Spec
CONSTANTS
  SPs = {a, b}
  Endpoints = {a, b}
  Isolates = {i1, i2}
  Logouts = {l1, l2}
  Deleters = {}
  MaxParticipants = 2
  Idp = Idp
  NoSP = NoSP
CHECK_DEADLOCK FALSE
INVARIANTS
  SuccessMeansAll
