SPECIFICATION FairSpec
CONSTANTS
  MaxRuns = 3
  MaxInline = 2
  MaxBoots = 2
  MaxFaults = 1
  Lanes = {l1}
  NoLane = NoLane
INVARIANTS
  TypeOK
  LaneExclusion
  LaneMapIsTail
  FailedPrepareNeverCompletes
  RunsRecorded
PROPERTIES
  RowLifecycle
  KeepsPromise
  NoWedgedLane
  CloseReturns
CHECK_DEADLOCK FALSE
