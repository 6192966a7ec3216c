SPECIFICATION FairSpec
CONSTANTS
  SPs = {a, b, c}
  Endpoints = {a, b}
  Isolates = {i1}
  Logouts = {l1}
  Deleters = {d1}
  MaxParticipants = 2
  Idp = Idp
  NoSP = NoSP
CHECK_DEADLOCK FALSE
INVARIANTS
  SuccessIsEarned
  EndsFirst
PROPERTY
  EveryLogoutEnds
