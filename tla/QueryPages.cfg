SPECIFICATION QuerySpec
CONSTANTS
  NoValue = NoValue
  Commands <- MCCommands
  Targets <- MCTargets
  Devices <- MCDevices
  Flips <- MCFlips
  MaxExchanges = 1
  Kinds = {"alarm", "running", "operation"}
  Stamps <- SomeStamps
  Start = 4
  MaxClock = 5
  MaxId = 4
  Places = {"hall", "yard"}
  Anywhere = "anywhere"
  Homes <- SomeHomes
  Forms <- SomeForms
  Sizes = {1}
  Hour = 1
  Week = 3
  MaxSpan = 4
  Batch = 1
  Limit = 2
  HistoryMax = 3
  CurveSize = 2
INVARIANTS GreenIsTrue RowsReadOnce
PROPERTIES LineUnderstood ActsOnWhatIsShown
