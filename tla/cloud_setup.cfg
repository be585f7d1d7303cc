\* Every stage in any order; one lost answer or failure, one change by others.
SPECIFICATION FairSpec
CONSTANTS
  MaxFaults = 1
  MaxEdits = 1
INVARIANTS
  ChangesFollowInspection
  ChangesRestOnDependencies
  CompletedStagesStand
PROPERTY
  RerunsComplete
