\* Two calls of a turn that share a context, and a first activation between
\* the question for the active release and the first search.
SPECIFICATION MCSpec
CONSTANTS
  r1 = r1
  r2 = r2
  r3 = r3
  d1 = d1
  d2 = d2
  d3 = d3
  None = None
  Releases = {r1, r2, r3}
  Operators = {o1}
  InitiallyActive <- NoneActive
  MayCrash = FALSE
  MayReactivate = FALSE
  MayWithdraw = FALSE
  MaxHistory = 3
  Turns = {t1}
  MaxCalls = 2
  ContextsChange = FALSE
  Docs = {d1, d2, d3}
  Holds <- MCHolds
  Top <- MCTop
  Expected = {d1, d3}
  ExpectedCurrent = {d2}
INVARIANT TurnReadsOneRelease
CHECK_DEADLOCK FALSE
