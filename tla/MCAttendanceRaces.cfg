CONSTANTS
    Null = Null
    Undefined = Undefined
    u1 = u1
    u2 = u2
    x1 = x1
    x2 = x2
    x3 = x3
    x4 = x4
    Users = {u1, u2}
    ActiveEmployees = {u2}
    MaxDate = 2
    Lookback = 3
    Debounce = 300
    ExternalIds = {x1, x2, x3, x4}
    Punches <- MCPunches
    DtoBatches <- RaceDtoBatches
    DeviceBatches <- RaceDeviceBatches
    Corrections <- RaceCorrections
    ShiftOf <- MCShiftOf
    ShiftLookupFails <- u2Keys
    CalendarOf <- MCCalendarOf
    Requests = {r1, r2}
    Crons = {c1}
    MaxCrashes = 0

SPECIFICATION Spec

SYMMETRY HandlerSymmetry

INVARIANTS
    RecordsMatchPunches
    DevicePunchesLabelledByOrder
    ExternalIdStoredOnce

PROPERTY DecisionsStick
