SPECIFICATION Spec
CONSTANTS
  Sockets = {k1, k2}
  RunCap = 2
  TokenCap = 2
  MaxPrompt = 2
  MaxHistory = 2
  MaxPrompts = 4
INVARIANTS
  TypeOK
  HistoryIsDialogue
  LogAndBillAgree
PROPERTIES
  RunsMetered
  ChatsMetered
