SPECIFICATION Spec
CONSTANTS
  Sessions = {s1}
  EventWriters = {w1}
  RowWriters = {p1}
  None = None
  WallClock = {0}
  MaxRetries = 1
  MaxEvents = 1
INVARIANT
  LockGuardsTransaction
