\* Two daemons on one database, two replies at a time.
SPECIFICATION Spec
CONSTANTS
  Signals = {s1, s2}
  Daemons = {d1, d2}
  Replies = {r1, r2}
  FetchLimit = 1
  MaxFaults = 1
  MaxOverruns = 1
  None = None
SYMMETRY MCSymmetry
INVARIANTS TypeOK RejectedNeverRuns RepeatsNeedOverrun
PROPERTY SettledIsFinal
