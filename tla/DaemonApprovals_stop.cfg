\* stop() while the daemon is still creating its consumer groups.
SPECIFICATION FairSpec
CONSTANTS
  Signals = {s1}
  Daemons = {d1}
  Replies = {r1}
  FetchLimit = 1
  MaxFaults = 0
  MaxOverruns = 0
  None = None
PROPERTY StopEndsLoop
