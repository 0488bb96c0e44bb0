SPECIFICATION FairSpec
CONSTANTS
  Fetches = {f1, f2}
  id1 = id1
  id2 = id2
  Ids = {id1, id2}
  Unserved = Unserved
  Everything = Everything
  NoKey = NoKey
  Requests <- MCRequests
  Batch = 1
  Tries = 2
INVARIANTS
  OutcomesExplained
  SuppressesLaterChunks
  BlocksAreEarned
  PauseAdmitsCallInFlight
PROPERTIES
  FetchEnds
CHECK_DEADLOCK FALSE
