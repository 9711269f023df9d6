CONSTANTS
    Null = Null
    Undefined = Undefined
    u1 = u1
    u2 = u2
    x1 = x1
    x2 = x2
    x3 = x3
    x4 = x4
    Users = {u1}
    ActiveEmployees = {u1}
    MaxDate = 1
    Lookback = 3
    Debounce = 300
    ExternalIds = {x1, x2, x3, x4}
    Punches <- MCPunches
    DtoBatches <- MCDtoBatches
    DeviceBatches <- MCDeviceBatches
    Corrections <- MCCorrections
    ShiftOf <- MCShiftOf
    ShiftLookupFails <- NoKeys
    CalendarOf <- MCCalendarOf
    Requests = {r1, r2}
    Crons = {}
    MaxCrashes = 0

SPECIFICATION Spec

PROPERTY DecisionsAlwaysStick
