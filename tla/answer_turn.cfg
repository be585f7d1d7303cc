\* Two questions with the default budgets: every reply, failure and crash.
SPECIFICATION Spec
CONSTANTS
  None = None
  Failed = Failed
  CallLimit = 3
  MaxRequests = 2
  MaxTurns = 2
INVARIANTS
  HistoryShowsTheAnswer
  BudgetsHold
PROPERTIES
  OtherTurnsUntouched
  TurnsEnd
  DialogueSpec
CHECK_DEADLOCK FALSE
