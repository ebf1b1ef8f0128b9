SPECIFICATION Spec
CONSTANTS
  Dashboards = {d1}
  Tasks = 2
  MaxEvents = 2
INVARIANTS
  TypeOK
  NoEventMissed
  FinalReaches
PROPERTIES
  CitedIsShown
