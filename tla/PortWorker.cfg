SPECIFICATION FairSpec
CONSTANTS
  N = 2
  Unit <- OwnUnits
  Threshold = 2
  Statuses = {"normal"}
  Setups <- TwoSetups
INVARIANTS StoresFollowCycle ReadingIsOwn
PROPERTIES AvailabilityFollows
