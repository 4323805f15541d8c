SPECIFICATION PageSideSpec
CONSTANTS
    DetectorIds = {d1, d2}
    Plans = {p1}
    Dates <- MCDates
    Cycles <- MCCycles
    Reminds <- MCReminds
    SensorLifeRemindDays = 1
    CalibrationRemindDays = 0
    DefaultRemindDays = 1
    Absent = Absent
    Unreadable = Unreadable
    MaxNow = 1
    MaxSaves = 3
    MaxChanges = 1
    Maps = {1, 2}
    Marks = {1, 2}
    Sensors = {1, 2}
    Spots = {1, 2}
    Labels = {"a", "b"}
    NoOne = 0
    MaxRestores = 1
    Databases <- MCDatabases
    Probes = {1, 2}
    IdTexts <- MCIdTexts
    Values = {"v"}
    NoValue = NoValue
    Periods <- MCPeriods
    LastHour <- MCLastHour
    MaxPeriod = 2
    MaxProbes = 2
    StatusFilters = {"all", "fault"}
    Replies <- MCReplies
    CacheSize = 1
    Lookback = 0
    MaxMinute = 1
    MaxReadings = 2
SYMMETRY MCSymmetry
INVARIANTS PagesAreTrue
PROPERTIES UrgencyOnlyGrows EditsAsShown
