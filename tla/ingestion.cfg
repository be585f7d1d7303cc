\* Two bundles that share a point and a third that may be assembled from them,
\* jobs killed anywhere and run again.  Bundles whose conversion failed are left
\* for good: nothing may be enabled any more.
SPECIFICATION Spec
CONSTANTS
  b1 = b1
  b2 = b2
  p1 = p1
  p2 = p2
  p3 = p3
  None = None
  Bundles = {b1, b2, b3}
  Collections = {c1, c2}
  Points = {p1, p2, p3}
  PointsOf <- SharedPoints
  DefaultCollection = c1
INVARIANTS
  ReportsTellTheTruth
  CollectionsUnmixed
  OneReportPerCollection
PROPERTY
  ReportedBundleFrozen
CHECK_DEADLOCK FALSE
