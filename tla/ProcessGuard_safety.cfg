\* Two bots and two standalone daemons start, on four pids that are recycled.
SPECIFICATION Spec
CONSTANTS
  Bots = {b1, b2}
  Standalones = {d1, d2}
  BotServices <- MCBotServices
  Pids = {n1, n2, n3, n4}
  None = None
SYMMETRY MCSymmetry
INVARIANTS TypeOK OneHolder LeaseIsKept SomebodyServes OnlyCrashesLeaveLeases
CHECK_DEADLOCK FALSE
