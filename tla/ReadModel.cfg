SPECIFICATION ReadSpec
CONSTANTS
  Detectors = {1, 2}
  Direct = "direct"
  ControllerOf <- SomeControllers
  Readings <- SomeReadings
  MaxRows = 2
  MaxEdits = 1
  MaxRaces = 3
  PageSize = 1
INVARIANTS ScreensAgree AnswersHold
