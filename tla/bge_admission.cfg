\* Modes that together ask for more than the total.
SPECIFICATION Spec
CONSTANTS
  Queries = {q1, q2, q3}
  Batches = {b1, b2, b3}
  QueryMax = 2
  BatchMax = 2
  TotalMax = 3
  MaxQueue = 1
SYMMETRY RequestSymmetry
INVARIANTS
  CountersExact
  AdmissionBounded
PROPERTY
  QueryCapacityPreserved
