SPECIFICATION Spec
CONSTANTS
  d1 = d1  d2 = d2  r1 = r1  r2 = r2  o1 = o1  low = low  high = high
  Detectors = {d1, d2}
  AlarmTypes = {low, high}
  Normal = Normal
  Invalid = Invalid
  LevelOf <- MCLevelOf
  NoLevel = NoLevel
  AnyDetector = AnyDetector
  AnyType = AnyType
  RuleIds = {r1}
  RuleShapes <- MCShapes
  ObjectIds = {o1}
  NoRow = NoRow
  Deleted = Deleted
  NoTxn = NoTxn
  MaxBatch = 2
  MaxAlarms = 2
  MaxManual = 1
INVARIANTS AlarmsTellConditions LinkageOncePerPeriod
PROPERTIES HistoryKept ImplementsPeriods
