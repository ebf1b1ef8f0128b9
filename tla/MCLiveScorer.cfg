SPECIFICATION Spec
CONSTANTS
  Baseline = 1
  RecentWindow = 3
  RunSoon = 2
  RunLate = 4
  PriorEvents = 2
  Texts = {"oops"}
  NoCode = NoCode
  Written <- MCWritten
  RunOutcomes <- MCRunOutcomes
  Gaps <- MCGaps
  MaxEvents = 4
  MaxMissed = 1
INVARIANTS
  TypeOK
  LivePromptIsFinal
  SubmitSettlesLive
  BlendIsBetween
PROPERTIES
  RunNeverCosts
  QuestionsStand
CHECK_DEADLOCK FALSE
