CONSTANTS
    Null = Null
    Employees = {e1}
    Types = {t1}
    Months = {1}
    Totals <- MCTotals
    Amounts <- MCAmounts
    MaxTransactions = 0
    Handlers = {h1, h2}
    MaxCrashes = 0

SPECIFICATION Spec

INVARIANT AccrualIsIdempotent

CHECK_DEADLOCK FALSE
