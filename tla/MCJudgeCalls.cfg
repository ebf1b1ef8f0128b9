SPECIFICATION Spec
CONSTANTS
  Runs = {r1, r2}
  Sessions = {s1, s2}
  None = None
  OverChat = {s2}
  Tasks = 2
  SessionCap = 2
  GlobalCap = 3
  Concurrency = 1
  Attempts = 2
  MaxWanted = 2
INVARIANTS
  TypeOK
  WithinBudgets
  UsageAccounted
  ReportedAsHappened
PROPERTIES
  RunSettles
CHECK_DEADLOCK FALSE
