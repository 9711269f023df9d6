CONSTANTS
    Null = Null
    Passwords = {p1, p2}
    Tokens = {t1, t2, t3}
    Codes = {c1, c2}
    MaxAttempts = 1
    Handlers = {h1, h2}
    MaxCrashes = 1
    MaxRequests = 4

SPECIFICATION Spec

SYMMETRY Symmetry

INVARIANTS
    TypeOK
    SessionsStayEnded
    OldPasswordOpensNothing
    GuessesBounded
    UsedCodesAreGone

PROPERTY ImplementsChains

CHECK_DEADLOCK FALSE
