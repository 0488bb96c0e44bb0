SPECIFICATION FairSpec
CONSTANTS
  Sources = {s1}
  Admins = {a1, a2}
  Fetches = {f1}
  NoOne = NoOne
  MaxChanges = 3
INVARIANTS
  RegistryInStep
  StaleAnswersComeLate
  RebuildFollowsReorder
PROPERTIES
  HandlersReturn
CHECK_DEADLOCK FALSE
