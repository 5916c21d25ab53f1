\* Four messages, a queue of two, two failures and one overrun.
SPECIFICATION FairSpec
CONSTANTS
  Messages = {m1, m2, m3, m4}
  MaxQueue = 2
  MaxFailures = 2
  MaxOverruns = 1
  None = None
INVARIANTS TypeOK OneTurnAtATime AcceptedIsKept HandledOnce
PROPERTIES ChatIsFreed QueuedIsStarted
CHECK_DEADLOCK FALSE
