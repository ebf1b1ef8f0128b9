SPECIFICATION Spec
CONSTANTS
  Handlers <- MCHandlers
  QueueMax = 2
  Closers = {k1, k2}
  MaxEvents = 4
  MaxChannels = 3
INVARIANTS
  TypeOK
  KeptNeverDropped
  HandedInOrder
PROPERTIES
  PasteOutlivesQueuedSnapshot
  CloseTerminates
  KeptIsHanded
CHECK_DEADLOCK FALSE
