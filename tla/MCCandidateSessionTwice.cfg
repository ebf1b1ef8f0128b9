SPECIFICATION Spec
CONSTANTS
  t1 = t1
  t2 = t2
  None = None
  Sockets = {k1, k2}
  TaskSequence <- MCTaskSequence
  MaxSubmits = 2
  MaxEnds = 2
  MaxWeight = 2
INVARIANT
  ScoredOnce
