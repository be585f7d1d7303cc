\* Two commands at once, a directory for a replay and one for a revision or
\* another replay, two saved files edited.  Directories are used up.
SPECIFICATION Spec
CONSTANTS
  Packets <- MCPackets
  Responses <- MCResponses
  Jobs = {j1, j2}
  Dirs = {d1, d2}
  None = None
  MaxEdits = 2
  c1 = c1
  c2 = c2
  f1 = f1
CHECK_DEADLOCK FALSE
SYMMETRY MCSymmetry
INVARIANTS
  ReceiptTruthful
  RevisionEarned
PROPERTY
  RunsAreKept
