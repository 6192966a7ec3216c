SPECIFICATION Spec
CONSTANTS
  Requests = {r1}
  Instances = {i1, i2}
  Slots <- MCSlots
  IssueInstants <- MCIssueInstants
  MaxAge = 1
  Skew = 2
  SweepInterval = 2
  SpAhead = 2
  MaxLag = 1
  MaxTime = 9
PROPERTY
  FirstSightWins
