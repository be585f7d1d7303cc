\* Two questions of a thread, explicit ones about sources, follow-ups and ones
\* that name the guide; the view holds two short turns but not two long ones.
SPECIFICATION Spec
CONSTANTS
  None = None
  Questions <- MCQuestions
  Answers <- MCAnswers
  Searches <- MCSearches
  Reading <- MCReading
  HistoryTurns = 4
  CharacterLimit = 9
  CallLimit = 2
  MaxTurns = 2
INVARIANTS
  ClaimsAreGrounded
  NothingFoundIsLeftOut
CHECK_DEADLOCK FALSE
