\* A response over either transport, in any order and cut anywhere.
SPECIFICATION Spec
CONSTANTS
  Call = {1, 2}
  MaxItems = 4
INVARIANTS
  TypeOK
  KeptIsSaid
  MilestonesLast
  CompleteMeansFinished
CHECK_DEADLOCK FALSE
