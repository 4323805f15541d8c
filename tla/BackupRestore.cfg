SPECIFICATION FairSideSpec
CONSTANTS
  j1 = j1  j2 = j2  j3 = j3
  Files = 3
  Jobs = {j1, j2, j3}
  Faults = {"restart", "settings", "rollback"}
  Dirs = {"root"}
  Root = "root"
  Maps = {"m1"}
  Keeps = {1, 2}
  Current = 1
  Foreign <- OlderPackage
  MaxMade = 3
  SaveAfter = 2
  MaxClock = 1
INVARIANTS ScheduleFollowsSettings AllOrNothing RestoredMapsHaveFiles
PROPERTIES RestoreIsAlone PauseEnds NewestStays
