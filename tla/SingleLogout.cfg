SPECIFICATION Spec
CONSTANTS
  SPs = {a}
  Endpoints = {a}
  Isolates = {i1, i2}
  Logouts = {l1, l2}
  Deleters = {d1}
  MaxParticipants = 2
  Idp = Idp
  NoSP = NoSP
CHECK_DEADLOCK FALSE
SYMMETRY Symmetry
INVARIANTS
  TypeOK
  NobodyForgotten
  OwnLogoutIsSilent
PROPERTY
  OnlyLogoutsSilence
