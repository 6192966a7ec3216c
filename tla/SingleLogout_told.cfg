SPECIFICATION Spec
CONSTANTS
  SPs = {a}
  Endpoints = {a}
  Isolates = {i1}
  Logouts = {l1}
  Deleters = {}
  MaxParticipants = 2
  Idp = Idp
  NoSP = NoSP
CHECK_DEADLOCK FALSE
INVARIANTS
  ThoseSPsAreTold
