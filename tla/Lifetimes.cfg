SPECIFICATION Spec
CONSTANTS
  Partners = {p1}
  Signons = {s1}
  Refreshes = {r1, r2}
  Ends = {e1}
  SessionTime = 2
  EndingTtl = 1
  PaMaxTime = 3
  NoTime = NoTime
  Documents = {d1, d2}
  Configured = d0
  RefreshRuns = {n1, n2}
  RefreshTime = 4
  MinBackoff = 1
  StuckTime = 1
  None = None
CHECK_DEADLOCK FALSE
INVARIANTS TypeOK ParticipantsOutlive EndsAreShown
PROPERTIES ChangesAreLearned
