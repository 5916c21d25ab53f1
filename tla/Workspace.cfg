SPECIFICATION WorkspaceSpec
CONSTANTS
  Specs = {s1, s2}
  Runs = {r1, r2, r3}
  MaxAttempts = 2
  MaxOrders = 3
  MaxCrashes = 1
  None = None
  LastMorning = 3
  Throttle = 1
  Ttl = 1
  Stale = 1
  Idle = 1
  MaxNow = 2
  MaxMorningCrashes = 1
  Never = Never
  Questions = {q1, q2, q3}
  MaxCommands = 2
  MaxStoreLosses = 1
  Nothing = Nothing
  LastSignal = 2
  LastEpisode = 2
  Topics = {t1}
  MaxRuns = 2
  Missing = Missing
SYMMETRY Symmetry
INVARIANTS
  WorkspaceTypeOK
  DoneHasItsCommit
  
  
  OneConsolidation
  
  
PROPERTIES
  KeepsContract
  RunningRoomHasItsRun
  SelfWorkKeepsDistance
  FateIsFinal
CHECK_DEADLOCK FALSE
