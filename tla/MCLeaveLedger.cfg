CONSTANTS
    Null = Null
    Employees = {e1, e2}
    Types = {t1}
    Months = {1}
    Totals <- MCTotals
    Amounts <- MCAmounts
    MaxTransactions = 1
    Handlers = {h1, h2}
    MaxCrashes = 1

SPECIFICATION Spec

SYMMETRY Symmetry

INVARIANTS
    TypeOK
    AccruedOncePerMonth
    LumpCreditedOnce
    NeverBothWays

PROPERTY CompletedRunsCreditAll

CHECK_DEADLOCK FALSE
