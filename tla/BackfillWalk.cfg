CONSTANTS
  Pages = {1, 2, 3}
  MaxLength = 2
  BatchSize = 1
  TitleLimit = 2
  Batches = 2
  MaxEdits = 2
  MaxFailures = 1
  MaxRestarts = 1
SPECIFICATION FairSpec
INVARIANTS TypeOK WalkSkipsNothing RepeatedOnlyAfterFailure
PROPERTIES SizeWalkEnds EveryBatchMovesOn
CHECK_DEADLOCK FALSE
