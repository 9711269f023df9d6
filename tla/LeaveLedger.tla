----------------------------- MODULE LeaveLedger -----------------------------
(***************************************************************************)
(* LeaveService: leave types, allocations of a year's entitlement and the  *)
(* append-only ledger whose sum is an employee's balance.  An allocation   *)
(* of an annual_lump type is credited at once, one of a monthly_accrual    *)
(* type by the accrual runs an administrator starts.                       *)
(*                                                                         *)
(* As in Attendance, every await on a repository is one step of a handler. *)
(* Days are counted in hundredths, as the decimal(6,2) columns keep them.  *)
(* The calendar years are independent of each other: this is one of them.  *)
(***************************************************************************)
EXTENDS Integers, FiniteSets, Bags

CONSTANTS
    Employees, Types,   \* employees; the codes of leave types
    Months,             \* BOUND: the months of the year accrual is run for
    Totals,             \* BOUND: entitlements, in hundredths of a day
    Amounts,            \* BOUND: amounts of manual transactions
    MaxTransactions,    \* BOUND: manual transactions
    Handlers,           \* BOUND: handlers of requests
    MaxCrashes,         \* BOUND: crashes of the server
    Null

Keys == Employees \X Types      \* the unique index of leave_allocations
AccrualMethods == {"annual_lump", "monthly_accrual"}
TransactionTypes == {"usage", "encashment", "adjustment"}

LeaveTypes == [accrualMethod: AccrualMethods, annualEntitlementDays: Totals, deleted: BOOLEAN]

\* A row of the ledger.  month is the month of referenceId, of accruals only.
Entries ==
    [key: Keys, entryType: {"allocation", "accrual"} \cup TransactionTypes,
     amountDays: Int, month: Months \cup {Null}]

ASSUME LeaveAssumption ==
    /\ Months \subseteq 1..12
    /\ Totals \subseteq Nat
    /\ Amounts \subseteq Int
    /\ MaxTransactions \in Nat /\ MaxCrashes \in Nat
    /\ Null \notin Keys \cup Int \cup LeaveTypes

VARIABLES
    types,          \* leave_types: the type of a code, or Null
    allocations,    \* leave_allocations: totalAllocatedDays, or Null
    ledger,         \* leave_ledger_entries, a bag of rows
    op,             \* the local state of every handler
    transactions,   \* manual transactions so far
    crashes,        \* crashes so far
    switched,       \* HISTORY: types whose accrual method was changed
    interrupted,    \* HISTORY: allocations whose call a crash cut short
    overlapped      \* HISTORY: <<key, month>> two runs credited at a time

history == <<switched, interrupted, overlapped>>
vars == <<types, allocations, ledger, op, transactions, crashes, history>>

Idle ==
    [pc |-> "idle", key |-> Null, total |-> Null, lump |-> FALSE,
     month |-> Null, typeIds |-> {}, found |-> {}, todo |-> {}]

Ops ==
    [pc: {"idle", "save", "credit", "find", "accrue", "insert"},
     key: Keys \cup {Null}, total: Totals \cup {Null}, lump: BOOLEAN,
     month: Months \cup {Null}, typeIds: SUBSET Types,
     found: SUBSET Keys, todo: SUBSET Keys]

TypeOK ==
    /\ types \in [Types -> LeaveTypes \cup {Null}]
    /\ allocations \in [Keys -> Totals \cup {Null}]
    /\ IsABag(ledger) /\ BagToSet(ledger) \subseteq Entries
    /\ op \in [Handlers -> Ops]
    /\ \A h \in Handlers: op[h].pc \in {"save", "credit"} => op[h].total \in Totals
    /\ transactions \in 0..MaxTransactions
    /\ crashes \in 0..MaxCrashes
    /\ switched \subseteq Types
    /\ interrupted \subseteq Keys
    /\ overlapped \subseteq Keys \X Months

Init ==
    /\ types = [t \in Types |-> Null]
    /\ allocations = [k \in Keys |-> Null]
    /\ ledger = EmptyBag
    /\ op = [h \in Handlers |-> Idle]
    /\ transactions = 0
    /\ crashes = 0
    /\ switched = {} /\ interrupted = {} /\ overlapped = {}

-----------------------------------------------------------------------------
\* findType finds the type: it exists and is not soft-deleted.
Live(t) == types[t] # Null /\ ~types[t].deleted

Entry(key, entryType, amountDays, month) ==
    [key |-> key, entryType |-> entryType, amountDays |-> amountDays, month |-> month]

Credit(entry) == ledger' = ledger (+) SetToBag({entry})

\* toDecimal(total / 12).  Where that is half a hundredth the binary fraction
\* decides, so toFixed may go either way.
MonthlyCredits(total) == {amount \in {total \div 12, total \div 12 + 1}:
                            12 * amount - total \in -6..6}

\* The look-up by referenceId, deleted rows included.
Accrued(key, month) ==
    \E entry \in BagToSet(ledger):
        entry.entryType = "accrual" /\ entry.key = key /\ entry.month = month

\* FAULT: the default is not taken.
TotalAsGiven(given, type) == given

\* dto.totalAllocatedDays ?? type.annualEntitlementDays
TotalOrDefault(given, type) == IF given = Null THEN type.annualEntitlementDays ELSE given

Goto(h, state) == op' = [op EXCEPT ![h] = state]

-----------------------------------------------------------------------------
(* Leave types.  The losers of races end in errors that change nothing.    *)

CreateType(t, method, entitlement) ==
    /\ types[t] = Null
    /\ types' = [types EXCEPT ![t] =
         [accrualMethod |-> method, annualEntitlementDays |-> entitlement, deleted |-> FALSE]]
    /\ UNCHANGED <<allocations, ledger, op, transactions, crashes, history>>

UpdateType(t, method, entitlement) ==
    /\ Live(t)
    /\ types' = [types EXCEPT ![t].accrualMethod = method,
                              ![t].annualEntitlementDays = entitlement]
    /\ switched' = IF method # types[t].accrualMethod THEN switched \cup {t} ELSE switched
    /\ UNCHANGED <<allocations, ledger, op, transactions, crashes, interrupted, overlapped>>

RemoveType(t) ==
    /\ Live(t)
    /\ types' = [types EXCEPT ![t].deleted = TRUE]
    /\ UNCHANGED <<allocations, ledger, op, transactions, crashes, history>>

-----------------------------------------------------------------------------
(* allocate.                                                               *)

\* The reads: the type, the employee, and no allocation yet.  total and the
\* accrual method are those of this moment.
Allocate(h, key, given) ==
    /\ op[h] = Idle
    /\ Live(key[2]) /\ allocations[key] = Null
    /\ LET type == types[key[2]]
       IN  Goto(h, [Idle EXCEPT !.pc = "save", !.key = key,
                                !.total = TotalOrDefault(given, type),
                                !.lump = (type.accrualMethod = "annual_lump")])
    /\ UNCHANGED <<types, allocations, ledger, transactions, crashes, history>>

\* FAULT: no unique index on employee, type and year.
AllocationSavesWithoutIndex(h) ==
    /\ op[h].pc = "save"
    /\ allocations' = [allocations EXCEPT ![op[h].key] = op[h].total]
    /\ Goto(h, IF op[h].lump /\ op[h].total > 0
               THEN [op[h] EXCEPT !.pc = "credit"] ELSE Idle)
    /\ UNCHANGED <<types, ledger, transactions, crashes, history>>

\* The insert, under the unique index; a lump is still to be credited.
AllocationSaves(h) ==
    /\ op[h].pc = "save"
    /\ allocations[op[h].key] = Null
    /\ allocations' = [allocations EXCEPT ![op[h].key] = op[h].total]
    /\ Goto(h, IF op[h].lump /\ op[h].total > 0
               THEN [op[h] EXCEPT !.pc = "credit"] ELSE Idle)
    /\ UNCHANGED <<types, ledger, transactions, crashes, history>>

AllocationFails(h) ==
    /\ op[h].pc = "save"
    /\ allocations[op[h].key] # Null
    /\ Goto(h, Idle)
    /\ UNCHANGED <<types, allocations, ledger, transactions, crashes, history>>

LumpCredits(h) ==
    /\ op[h].pc = "credit"
    /\ Credit(Entry(op[h].key, "allocation", op[h].total, Null))
    /\ Goto(h, Idle)
    /\ UNCHANGED <<types, allocations, transactions, crashes, history>>

-----------------------------------------------------------------------------
(* runMonthlyAccrual.                                                      *)

\* FAULT: the accrual method is not asked for.
RunReadsAnyType(h, month) ==
    LET typeIds == {t \in Types: Live(t)}
    IN  /\ op[h] = Idle /\ typeIds # {}
        /\ Goto(h, [Idle EXCEPT !.pc = "find", !.month = month, !.typeIds = typeIds])
        /\ UNCHANGED <<types, allocations, ledger, transactions, crashes, history>>

\* The monthly types; a run that finds none returns at once.
RunReadsTypes(h, month) ==
    LET typeIds == {t \in Types: Live(t) /\ types[t].accrualMethod = "monthly_accrual"}
    IN  /\ op[h] = Idle /\ typeIds # {}
        /\ Goto(h, [Idle EXCEPT !.pc = "find", !.month = month, !.typeIds = typeIds])
        /\ UNCHANGED <<types, allocations, ledger, transactions, crashes, history>>

RunReadsAllocations(h) ==
    /\ op[h].pc = "find"
    /\ LET found == {k \in Keys: allocations[k] # Null /\ k[2] \in op[h].typeIds}
       IN  Goto(h, [op[h] EXCEPT !.pc = "accrue", !.found = found, !.todo = found])
    /\ UNCHANGED <<types, allocations, ledger, transactions, crashes, history>>

\* FAULT: the first allocation that was credited before ends the loop.
RunStops(h) ==
    /\ op[h].pc = "accrue"
    /\ \E key \in op[h].todo:
         /\ Accrued(key, op[h].month) \/ allocations[key] = 0
         /\ Goto(h, [op[h] EXCEPT !.todo = {}])
    /\ UNCHANGED <<types, allocations, ledger, transactions, crashes, history>>

\* continue: credited before, or nothing to credit.
RunSkips(h) ==
    /\ op[h].pc = "accrue"
    /\ \E key \in op[h].todo:
         /\ Accrued(key, op[h].month) \/ allocations[key] = 0
         /\ Goto(h, [op[h] EXCEPT !.todo = @ \ {key}])
    /\ UNCHANGED <<types, allocations, ledger, transactions, crashes, history>>

\* FAULT: the ledger is not looked at.
RunChecksNothing(h) ==
    /\ op[h].pc = "accrue"
    /\ \E key \in op[h].todo:
         /\ allocations[key] > 0
         /\ Goto(h, [op[h] EXCEPT !.pc = "insert", !.key = key])
    /\ UNCHANGED <<types, allocations, ledger, transactions, crashes, history>>

\* The ledger has no credit yet.  (An overlap begins when another run has
\* seen the same and not inserted its credit.)
RunChecks(h) ==
    /\ op[h].pc = "accrue"
    /\ \E key \in op[h].todo:
         /\ ~Accrued(key, op[h].month) /\ allocations[key] > 0
         /\ Goto(h, [op[h] EXCEPT !.pc = "insert", !.key = key])
         /\ overlapped' = IF \E g \in Handlers: /\ op[g].pc = "insert"
                                                /\ op[g].key = key
                                                /\ op[g].month = op[h].month
                          THEN overlapped \cup {<<key, op[h].month>>}
                          ELSE overlapped
    /\ UNCHANGED <<types, allocations, ledger, transactions, crashes, switched, interrupted>>

\* Nothing makes referenceId unique: the insert always succeeds.
RunInserts(h) ==
    /\ op[h].pc = "insert"
    /\ \E amount \in MonthlyCredits(allocations[op[h].key]):
         Credit(Entry(op[h].key, "accrual", amount, op[h].month))
    /\ Goto(h, [op[h] EXCEPT !.pc = "accrue", !.key = Null, !.todo = @ \ {op[h].key}])
    /\ UNCHANGED <<types, allocations, transactions, crashes, history>>

RunReturns(h) ==
    /\ op[h].pc = "accrue" /\ op[h].todo = {}
    /\ Goto(h, Idle)
    /\ UNCHANGED <<types, allocations, ledger, transactions, crashes, history>>

-----------------------------------------------------------------------------
\* transact: any amount of either sign, in one insert.
Transact(key, type, amount) ==
    /\ transactions < MaxTransactions
    /\ Live(key[2])
    /\ transactions' = transactions + 1
    /\ Credit(Entry(key, type, amount, Null))
    /\ UNCHANGED <<types, allocations, op, crashes, history>>

\* The process restarts in the middle of whatever its handlers were doing.
Crash ==
    /\ crashes < MaxCrashes
    /\ crashes' = crashes + 1
    /\ op' = [h \in Handlers |-> Idle]
    /\ interrupted' = interrupted \cup
         {op[h].key: h \in {g \in Handlers: op[g].pc = "credit"}}
    /\ UNCHANGED <<types, allocations, ledger, transactions, switched, overlapped>>

Step(h) ==
    \/ AllocationSaves(h) \/ AllocationFails(h) \/ LumpCredits(h)
    \/ RunReadsAllocations(h) \/ RunSkips(h) \/ RunChecks(h) \/ RunInserts(h)
    \/ RunReturns(h)

TypeRequests ==
    \/ \E t \in Types: RemoveType(t)
    \/ \E t \in Types, method \in AccrualMethods, entitlement \in Totals:
         CreateType(t, method, entitlement) \/ UpdateType(t, method, entitlement)

CreditRequests ==
    \/ \E h \in Handlers, key \in Keys, given \in Totals \cup {Null}: Allocate(h, key, given)
    \/ \E h \in Handlers, month \in Months: RunReadsTypes(h, month)
    \/ \E key \in Keys, type \in TransactionTypes, amount \in Amounts:
         Transact(key, type, amount)

Next ==
    \/ TypeRequests
    \/ CreditRequests
    \/ \E h \in Handlers: Step(h)
    \/ Crash

Spec == Init /\ [][Next]_vars

-----------------------------------------------------------------------------
(* What must hold.                                                         *)

Accruals(key, month) ==
    {entry \in BagToSet(ledger):
        entry.entryType = "accrual" /\ entry.key = key /\ entry.month = month}

\* How many rows of the ledger are this one.
Copies(entry) == IF BagIn(entry, ledger) THEN ledger[entry] ELSE 0

CreditedOnce(key, month) ==
    /\ \A e, f \in Accruals(key, month): e = f
    /\ \A e \in Accruals(key, month): Copies(e) = 1

\* A month is credited to an allocation once, however often the run of that
\* month is started, cut short by a crash and started again, as long as two
\* of them do not overlap on it (runMonthlyAccrual, lines 209-241).
AccruedOncePerMonth ==
    \A key \in Keys, month \in Months:
        <<key, month>> \notin overlapped => CreditedOnce(key, month)

\* An annual_lump allocation is credited once and in full, a monthly one
\* not at all at its creation, whoever else allocates at the same time; left
\* aside are types whose method was changed and calls that a crash cut
\* between the two inserts (allocate, lines 115-162).
LumpCreditedOnce ==
    \A key \in Keys:
        (/\ allocations[key] # Null
         /\ key[2] \notin switched /\ key \notin interrupted
         /\ \A h \in Handlers: ~(op[h].pc = "credit" /\ op[h].key = key))
        => LET lump == Entry(key, "allocation", allocations[key], Null)
               due == /\ types[key[2]].accrualMethod = "annual_lump"
                      /\ allocations[key] > 0
           IN  \A e \in BagToSet(ledger) \cup {lump}:
                 (e.key = key /\ e.entryType = "allocation") =>
                    Copies(e) = IF e = lump /\ due THEN 1 ELSE 0

\* No allocation is credited both ways: its lump sum or its months, whatever
\* was read when (a type whose method is changed may be credited both ways).
NeverBothWays ==
    \A e, f \in BagToSet(ledger):
        (e.key = f.key /\ e.entryType = "allocation" /\ f.entryType = "accrual")
        => e.key[2] \in switched

\* A run that returns has left no allocation it found without its credit,
\* those that an earlier run, cut short, had credited already included
\* (the loop of runMonthlyAccrual, lines 233-261).
CompletedRunsCreditAll ==
    [][\A h \in Handlers:
          RunReturns(h) => \A key \in op[h].found:
              allocations[key] = 0 \/ Accrued(key, op[h].month)]_vars

\* leave.service.ts lines 211: the accrual run is "idempotent per
\* (allocation, year-month)".
AccrualIsIdempotent ==
    \A key \in Keys, month \in Months: CreditedOnce(key, month)
=============================================================================
