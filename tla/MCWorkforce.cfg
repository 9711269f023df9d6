CONSTANTS
    Null = Null
    Undefined = Undefined
    Gone = Gone
    Handlers = {h1, h2}
    Budgets <- MCBudgets
    Entries = {1, 2, 3}
    Titles = {a, b}
    Users = {u1, u2, u3}
    Emails = {1, 2, 3}
    EmployeeCodes = {0, 1, 2, 3}
    Devices = {0, d}
    Blank = 0
    Names = {n1, n2}
    Shifts = {s1, s2}
    Enrolments <- MCEnrolments
    Times = {1, 2}
    Patterns = {p1, p2}
    Days = {1, 2}
    Weekdays = {"sun", "mon"}
    PatternUpdates <- MCPatternUpdates
    WeekdayOf <- MCWeekdayOf
    Limits = {1, 2}
    Places = {1, 2}

SPECIFICATION Spec

SYMMETRY Symmetry

INVARIANTS
    TypeOK
    NamesNotReused
    EnrolmentsComplete
    DepartmentMirrored
    NameOfParts
    OvernightFollowsTimes
    PatternDaysDisjoint
    SwapsAreWhole
    BatchAgreesWithSingle
    ShownOnce

CHECK_DEADLOCK FALSE
