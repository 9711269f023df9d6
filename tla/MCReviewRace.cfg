CONSTANTS
    Null = Null
    Undefined = Undefined
    u1 = u1
    x1 = x1
    r1 = r1
    r2 = r2
    q1 = q1
    q2 = q2
    Users = {u1}
    ActiveEmployees = {u1}
    MaxDate = 1
    Lookback = 3
    Debounce = 300
    ExternalIds = {x1}
    Punches <- MCPunches
    DtoBatches <- MCDeviceBatches
    DeviceBatches <- MCDeviceBatches
    Corrections <- MCCorrections
    ShiftOf <- MCShiftOf
    ShiftLookupFails <- NoKeys
    CalendarOf <- MCCalendarOf
    Requests = {r1, r2}
    Crons = {}
    MaxCrashes = 0
    RequestIds = {q1, q2}
    BodyOf <- MCBodyOf

SPECIFICATION RequestsSpec

PROPERTY OnlyPendingRequestsAreDecided
