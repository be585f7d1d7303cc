\* Two operators racing and failing at every step.
SPECIFICATION LSpec
CONSTANTS
  None = None
  Releases = {r1, r2}
  Operators = {o1, o2}
  MayFail = TRUE
  MaxWrites = 4
SYMMETRY OperatorSymmetry
INVARIANTS
  LoggedWasServed
  ViewsAgree
PROPERTY
  StackWhileUndisturbed
CHECK_DEADLOCK FALSE
