\* One daemon, as process ownership enforces; every fault it can survive.
SPECIFICATION FairSpec
CONSTANTS
  Signals = {s1, s2}
  Daemons = {d1}
  Replies = {r1}
  FetchLimit = 1
  MaxFaults = 2
  MaxOverruns = 3
  None = None
PROPERTIES ApprovedSettles
