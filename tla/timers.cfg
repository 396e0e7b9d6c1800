SPECIFICATION Spec
CONSTANTS
  Half = 4
  MaxTime = 9
  Deadlines <- MCDeadlines
  Counts = {0, 1}
  Enables <- MCEnables
INVARIANTS TypeOK TimerExact NoTornRead
PROPERTIES PendingSurvivesTimers
CHECK_DEADLOCK FALSE
