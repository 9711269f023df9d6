CONSTANTS
    Null = Null
    Undefined = Undefined
    u1 = u1
    u2 = u2
    x1 = x1
    x2 = x2
    x3 = x3
    x4 = x4
    Users = {u1, u2}
    ActiveEmployees = {u1, u2}
    MaxDate = 2
    Lookback = 3
    Debounce = 300
    ExternalIds = {x1, x2, x3, x4}
    Punches <- MCPunches
    DtoBatches <- NoBatches
    DeviceBatches <- NoBatches
    Corrections <- NoBatches
    ShiftOf <- MCShiftOf
    ShiftLookupFails <- u2Keys
    CalendarOf <- MCCalendarOf
    Requests = {r1}
    Crons = {c1}
    MaxCrashes = 0

SPECIFICATION FairSpec

PROPERTY EventuallyFinalized
