\* One operator, no crash, every activation of a newly built release.
SPECIFICATION LSpec
CONSTANTS
  None = None
  Releases = {r1, r2, r3, r4}
  Operators = {o1}
  InitiallyActive <- NothingActive
  MayCrash = FALSE
  MayReactivate = FALSE
  MayWithdraw = FALSE
  MaxHistory = 9
INVARIANT
  RollbackReturnsToPrevious
PROPERTY
  StackSpec
CHECK_DEADLOCK FALSE
