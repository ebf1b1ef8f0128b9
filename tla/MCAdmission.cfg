SPECIFICATION Spec
CONSTANTS
  Keys = {k1}
  Limit = 1
  Window = 2
  Workers = {w1, w2}
  Cap = 1
  DayLength = 2
  MaxSessions = 3
  MaxTime = 3
  MaxMessages = 2
  MaxRestarts = 1
SYMMETRY Interchangeable
INVARIANTS
  TypeOK
  DailyOvershoot
  HeardUntilEnded
PROPERTIES
  ImplementsQuota
CHECK_DEADLOCK FALSE
