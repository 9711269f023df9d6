CONSTANTS
    Null = Null
    Shifts <- MCShifts
    PunchTimes <- MCPunchTimes
    Instants <- MCInstants
    Debounce = 300

SPECIFICATION Spec

INVARIANTS
    DebounceKeepsFirstOfRun
    DeviceDaySpan
    LongerStayNeverWorse
    MinutesAddUp

PROPERTY EndPunchNeverWorsens
