SPECIFICATION Spec
CONSTANTS
  Sessions = {s1, s2}
  EventWriters = {w1, w2}
  RowWriters = {p1}
  None = None
  WallClock = {0, 3}
  MaxRetries = 1
  MaxEvents = 2
INVARIANTS
  TypeOK
  SeqDense
  TsFollowsSeq
  FeedFollowsLog
PROPERTIES
  WriteSettles
  ImplementsLog
