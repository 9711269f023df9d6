CONSTANTS
    Null = Null
    Undefined = Undefined
    u1 = u1
    x1 = x1
    r1 = r1
    r2 = r2
    q1 = q1
    q2 = q2
    Users = {u1}
    ActiveEmployees = {u1}
    MaxDate = 2
    Lookback = 3
    Debounce = 300
    ExternalIds = {x1}
    Punches <- MCPunches
    DtoBatches <- MCDtoBatches
    DeviceBatches <- MCDeviceBatches
    Corrections <- MCCorrections
    ShiftOf <- MCShiftOf
    ShiftLookupFails <- NoKeys
    CalendarOf <- MCCalendarOf
    Requests = {r1, r2}
    Crons = {c1}
    MaxCrashes = 1
    RequestIds = {q1}
    BodyOf <- MCBodyOf

SPECIFICATION RequestsSpec

SYMMETRY HandlerSymmetry

INVARIANTS
    RequestsTypeOK
    ApprovedIsApplied
    OnlyApprovedIsApplied

PROPERTIES
    DecidedOnce
