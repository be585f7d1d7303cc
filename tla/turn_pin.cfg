\* Two operators racing, or one beside a turn or a check of release pins:
\* crashes between any two steps, old releases activated again, retired ones
\* withdrawn, nothing active at first, calls in contexts of their own.
SPECIFICATION MCSpec
CONSTANTS
  r1 = r1
  r2 = r2
  r3 = r3
  d1 = d1
  d2 = d2
  d3 = d3
  None = None
  Releases = {r1, r2, r3}
  Operators = {o1, o2}
  InitiallyActive <- NoneActive
  MayCrash = TRUE
  MayReactivate = TRUE
  MayWithdraw = TRUE
  MaxHistory = 3
  Turns = {t1}
  MaxCalls = 2
  ContextsChange = TRUE
  Docs = {d1, d2, d3}
  Holds <- MCHolds
  Top <- MCTop
  Expected = {d1, d3}
  ExpectedCurrent = {d2}
SYMMETRY OperatorSymmetry
CONSTRAINT AtMostTwoRun
INVARIANTS
  TypeOK
  ServesOnlyVerified
  HistoryRecordsEveryLink
  NoReleaseUnasked
  TurnReadsServedRelease
  PassIsTrue
PROPERTY
  NeverUnpublished
CHECK_DEADLOCK FALSE
