------------------------------ MODULE Calendar ------------------------------
(***************************************************************************)
(* ShiftsService and WorkweeksService: shifts and work week patterns, who  *)
(* works by which of them from when on, and the days on which a person's   *)
(* pattern is overridden.                                                  *)
(***************************************************************************)
EXTENDS Employees, Sequences

CONSTANTS
    Times,          \* clock times, as numbers
    Patterns,       \* BOUND: ids of work week patterns ever created
    Days,           \* dates, as numbers
    Weekdays,
    PatternUpdates, \* BOUND: the dtos of updates of patterns
    WeekdayOf       \* the weekday of a date

ASSUME CalendarAssumption ==
    /\ Times \subseteq Nat /\ Days \subseteq Nat
    /\ WeekdayOf \in [Days -> Weekdays]

VARIABLES
    shifts,         \* the row of an id, or Null
    shiftPlan,      \* shift_assignments, in the order they were saved
    patterns,       \* the row of an id, or Null
    patternPlan,    \* employee_work_week_assignments, in the order they were saved
    overrides,      \* the override of a user and a date, or Null
    asked,          \* HISTORY: the shifts whose isOvernight is what a request asked for
    blurred         \* HISTORY: shifts and patterns updated by what had changed since it was read

calendarTables ==
    <<shifts, shiftPlan, patterns, patternPlan, overrides, asked, blurred>>

ShiftRows == [start: Times, end: Times, isOvernight: BOOLEAN, removed: BOOLEAN]

\* to is Null for an open end.
ShiftPlanRows ==
    [user: Users, shift: Shifts, from: Days, to: Days \cup {Null}, removed: BOOLEAN]

PatternRows ==
    [workingDays: SUBSET Weekdays, weeklyOffDays: SUBSET Weekdays,
     defaultShift: Shifts \cup {Null}, removed: BOOLEAN]

PatternPlanRows ==
    [user: Users, pattern: Patterns, from: Days, to: Days \cup {Null}, removed: BOOLEAN]

\* A swap's linkedSwapId is a new uuid; its user and dates tell it from all
\* others, since a date is overridden at most once.
Swaps == [user: Users, working: Days, off: Days]

OverrideRows ==
    [type: {"working_day", "weekly_off"}, swap: Swaps \cup {Null}, removed: BOOLEAN]

PatternChanges ==
    [workingDays: ((SUBSET Weekdays) \ {{}}) \cup {Undefined},
     weeklyOffDays: (SUBSET Weekdays) \cup {Undefined},
     defaultShift: Shifts \cup {Undefined}]

ASSUME RowsAssumption ==
    /\ \E start, end \in Times: start # end
    /\ Weekdays # {}
    /\ Shifts \cap Patterns = {}
    /\ PatternUpdates \subseteq PatternChanges
    /\ Null \notin ShiftRows \cup PatternRows \cup OverrideRows \cup Swaps

ShiftChanges ==
    [start: Times \cup {Undefined}, end: Times \cup {Undefined},
     isOvernight: BOOLEAN \cup {Undefined}]

CalendarOps ==
    [pc: {"shift.write"}, id: Shifts, dto: ShiftChanges, read: ShiftRows]
        \cup [pc: {"assign.save", "assign.default"}, people: SUBSET Users, shift: Shifts,
              from: Days, to: Days \cup {Null}]
        \cup [pc: {"pattern.write"}, id: Patterns, dto: PatternChanges, read: PatternRows]
        \cup [pc: {"override.save"}, user: Users, day: Days, row: OverrideRows]
        \cup [pc: {"swap.save"}, swap: Swaps]

CalendarTypeOK ==
    /\ shifts \in [Shifts -> ShiftRows \cup {Null}]
    /\ shiftPlan \in Seq(ShiftPlanRows)
    /\ patterns \in [Patterns -> PatternRows \cup {Null}]
    /\ patternPlan \in Seq(PatternPlanRows)
    /\ overrides \in [Users \X Days -> OverrideRows \cup {Null}]
    /\ asked \subseteq Shifts /\ blurred \subseteq Shifts \cup Patterns

Overnight(start, end) == end <= start

Disjoint(working, off) == working \cap off = {}

\* A shift and a pattern were created before.
CalendarInit ==
    /\ LET start == CHOOSE t \in Times: TRUE
           end == CHOOSE t \in Times: t # start
       IN  shifts = FirstRow(Shifts, [start |-> start, end |-> end, removed |-> FALSE,
                                      isOvernight |-> Overnight(start, end)])
    /\ LET off == CHOOSE weekday \in Weekdays: TRUE
       IN  patterns = FirstRow(Patterns,
             [workingDays |-> Weekdays \ {off}, weeklyOffDays |-> {off},
              defaultShift |-> Null, removed |-> FALSE])
    /\ shiftPlan = <<>> /\ patternPlan = <<>>
    /\ overrides = [key \in Users \X Days |-> Null]
    /\ asked = {} /\ blurred = {}

-----------------------------------------------------------------------------
(* Shifts.                                                                 *)

HasShift(s) == shifts[s] # Null
ShiftFindable(s) == HasShift(s) /\ ~shifts[s].removed

CreateShift ==
    \E start, end \in Times, given \in BOOLEAN \cup {Undefined}:
        /\ HasFreshId(shifts)
        /\ shifts' = [shifts EXCEPT ![FreshId(shifts)] =
             [start |-> start, end |-> end, removed |-> FALSE,
              isOvernight |-> Given(given, Overnight(start, end))]]
        /\ asked' = IF given = Undefined THEN asked ELSE asked \cup {FreshId(shifts)}
        /\ Instant("calendar")
        /\ UNCHANGED <<shiftPlan, patterns, patternPlan, overrides, blurred>>

UpdateShift(h) ==
    \E s \in Shifts, dto \in ShiftChanges:
        /\ ShiftFindable(s)
        /\ Begin(h, "calendar",
                 [pc |-> "shift.write", id |-> s, dto |-> dto, read |-> shifts[s]])
        /\ UNCHANGED calendarTables

\* FAULT: the flag is worked out only for an update that gives both times.
RecomputedIfBothGiven(dto, read) ==
    IF Undefined \in {dto.start, dto.end} THEN read.isOvernight ELSE Overnight(dto.start, dto.end)

\* Any update without isOvernight works it out anew.
Recomputed(dto, read) == Overnight(Given(dto.start, read.start), Given(dto.end, read.end))

WriteShift(h) ==
    /\ At(h, "shift.write")
    /\ LET s == op[h].id
           dto == op[h].dto
           read == op[h].read
           row == shifts[s]
       IN  /\ shifts' = [shifts EXCEPT
                ![s].start = Given(dto.start, row.start),
                ![s].end = Given(dto.end, row.end),
                ![s].isOvernight = Given(dto.isOvernight, Recomputed(dto, read))]
           /\ asked' = IF dto.isOvernight = Undefined THEN asked \ {s} ELSE asked \cup {s}
           /\ blurred' = IF <<row.start, row.end>> = <<read.start, read.end>>
                         THEN blurred \ {s} ELSE blurred \cup {s}
    /\ Finish(h)
    /\ UNCHANGED <<shiftPlan, patterns, patternPlan, overrides>>

\* Whoever is assigned to it keeps the assignment.
RemoveShift ==
    \E s \in Shifts:
        /\ ShiftFindable(s)
        /\ shifts' = [shifts EXCEPT ![s].removed = TRUE]
        /\ Instant("calendar")
        /\ UNCHANGED <<shiftPlan, patterns, patternPlan, overrides, asked, blurred>>

\* assign is bulkAssign of one person.
AssignShift(h) ==
    \E s \in Shifts, people \in (SUBSET Users) \ {{}}, from \in Days, to \in Days \cup {Null}:
        /\ ShiftFindable(s)
        /\ \A u \in people: Active(u)
        /\ Begin(h, "calendar",
                 [pc |-> "assign.save", people |-> people, shift |-> s, from |-> from, to |-> to])
        /\ UNCHANGED calendarTables

\* All rows of one save, in some order.
SaveAssignments(h) ==
    /\ At(h, "assign.save")
    /\ \E rows \in [1..Cardinality(op[h].people) ->
                     [user: op[h].people, shift: {op[h].shift}, from: {op[h].from},
                      to: {op[h].to}, removed: {FALSE}]]:
         /\ {rows[i].user: i \in DOMAIN rows} = op[h].people
         /\ shiftPlan' = shiftPlan \o rows
    /\ Goto(h, [op[h] EXCEPT !.pc = "assign.default"])
    /\ UNCHANGED <<shifts, patterns, patternPlan, overrides, asked, blurred>>

\* updateDefaultShift: removed employees too.
UpdateDefaultShift(h) ==
    /\ At(h, "assign.default")
    /\ employees' = [u \in Users |-> IF u \in op[h].people
                                     THEN [employees[u] EXCEPT !.defaultShift = op[h].shift]
                                     ELSE employees[u]]
    /\ Finish(h)
    /\ UNCHANGED <<users, writer, excused, calendarTables>>

RemoveShiftAssignment ==
    \E i \in DOMAIN shiftPlan:
        /\ ~shiftPlan[i].removed
        /\ shiftPlan' = [shiftPlan EXCEPT ![i].removed = TRUE]
        /\ Instant("calendar")
        /\ UNCHANGED <<shifts, patterns, patternPlan, overrides, asked, blurred>>

-----------------------------------------------------------------------------
(* Work week patterns.                                                     *)

HasPattern(p) == patterns[p] # Null
PatternFindable(p) == HasPattern(p) /\ ~patterns[p].removed

CreatePattern ==
    \E working \in (SUBSET Weekdays) \ {{}}, off \in SUBSET Weekdays,
       shift \in Shifts \cup {Null}:
        /\ HasFreshId(patterns)
        /\ Disjoint(working, off)
        /\ patterns' = [patterns EXCEPT ![FreshId(patterns)] =
             [workingDays |-> working, weeklyOffDays |-> off, defaultShift |-> shift,
              removed |-> FALSE]]
        /\ Instant("calendar")
        /\ UNCHANGED <<shifts, shiftPlan, patternPlan, overrides, asked, blurred>>

\* FAULT: only the days that were given are compared.
GivenDaysDisjoint(dto, read) ==
    Disjoint(Given(dto.workingDays, {}), Given(dto.weeklyOffDays, {}))

\* validatePatternDays, with the row's days for those not given.
DaysValid(dto, read) ==
    Disjoint(Given(dto.workingDays, read.workingDays),
             Given(dto.weeklyOffDays, read.weeklyOffDays))

UpdatePattern(h) ==
    \E p \in Patterns, dto \in PatternUpdates:
        /\ PatternFindable(p)
        /\ DaysValid(dto, patterns[p])
        /\ Begin(h, "calendar",
                 [pc |-> "pattern.write", id |-> p, dto |-> dto, read |-> patterns[p]])
        /\ UNCHANGED calendarTables

SameDays(row, read) ==
    row.workingDays = read.workingDays /\ row.weeklyOffDays = read.weeklyOffDays

\* The days that are given; the default shift is always written.
WritePattern(h) ==
    /\ At(h, "pattern.write")
    /\ LET p == op[h].id
           dto == op[h].dto
           read == op[h].read
           row == patterns[p]
       IN  /\ patterns' = [patterns EXCEPT
                ![p].workingDays = Given(dto.workingDays, row.workingDays),
                ![p].weeklyOffDays = Given(dto.weeklyOffDays, row.weeklyOffDays),
                ![p].defaultShift = Given(dto.defaultShift, read.defaultShift)]
           /\ blurred' = IF SameDays(row, read) THEN blurred ELSE blurred \cup {p}
    /\ Finish(h)
    /\ UNCHANGED <<shifts, shiftPlan, patternPlan, overrides, asked>>

RemovePattern ==
    \E p \in Patterns:
        /\ PatternFindable(p)
        /\ patterns' = [patterns EXCEPT ![p].removed = TRUE]
        /\ Instant("calendar")
        /\ UNCHANGED <<shifts, shiftPlan, patternPlan, overrides, asked, blurred>>

AssignPattern ==
    \E p \in Patterns, u \in Users, from \in Days, to \in Days \cup {Null}:
        /\ PatternFindable(p)
        /\ Active(u)
        /\ patternPlan' = Append(patternPlan,
             [user |-> u, pattern |-> p, from |-> from, to |-> to, removed |-> FALSE])
        /\ Instant("calendar")
        /\ UNCHANGED <<shifts, shiftPlan, patterns, overrides, asked, blurred>>

RemovePatternAssignment ==
    \E i \in DOMAIN patternPlan:
        /\ ~patternPlan[i].removed
        /\ patternPlan' = [patternPlan EXCEPT ![i].removed = TRUE]
        /\ Instant("calendar")
        /\ UNCHANGED <<shifts, shiftPlan, patterns, overrides, asked, blurred>>

-----------------------------------------------------------------------------
(* Overrides and swaps.                                                    *)

\* ensureNoOverride, and the unique index: removed rows count.
Overridden(u, day) == overrides[<<u, day>>] # Null

\* A client may link an override to a swap it knows.
CreateOverride(h) ==
    \E u \in Users, day \in Days, type \in {"working_day", "weekly_off"}:
    \E swap \in {Null} \cup {overrides[key].swap:
                               key \in {k \in Users \X Days: overrides[k] # Null}}:
        /\ Active(u)
        /\ ~Overridden(u, day)
        /\ Begin(h, "calendar",
                 [pc |-> "override.save", user |-> u, day |-> day,
                  row |-> [type |-> type, swap |-> swap, removed |-> FALSE]])
        /\ UNCHANGED calendarTables

SaveOverride(h) ==
    /\ At(h, "override.save")
    /\ overrides' = IF Overridden(op[h].user, op[h].day) THEN overrides
                    ELSE [overrides EXCEPT ![<<op[h].user, op[h].day>>] = op[h].row]
    /\ Finish(h)
    /\ UNCHANGED <<shifts, shiftPlan, patterns, patternPlan, asked, blurred>>

CreateWeekdaySwap(h) ==
    \E swap \in Swaps:
        /\ swap.working # swap.off
        /\ Active(swap.user)
        /\ ~Overridden(swap.user, swap.working) /\ ~Overridden(swap.user, swap.off)
        /\ Begin(h, "calendar", [pc |-> "swap.save", swap |-> swap])
        /\ UNCHANGED calendarTables

Half(swap, type) == [type |-> type, swap |-> swap, removed |-> FALSE]

\* FAULT: the halves are saved one by one.
SwapHalves(swap) ==
    [key \in Users \X Days |->
        IF overrides[key] # Null THEN overrides[key]
        ELSE IF key = <<swap.user, swap.working>> THEN Half(swap, "working_day")
        ELSE IF key = <<swap.user, swap.off>> THEN Half(swap, "weekly_off") ELSE Null]

\* Both halves in one transaction, which the unique index may refuse.
SwapSaved(swap) ==
    IF Overridden(swap.user, swap.working) \/ Overridden(swap.user, swap.off)
    THEN overrides
    ELSE [overrides EXCEPT ![<<swap.user, swap.working>>] = Half(swap, "working_day"),
                           ![<<swap.user, swap.off>>] = Half(swap, "weekly_off")]

SaveSwap(h) ==
    /\ At(h, "swap.save")
    /\ overrides' = SwapSaved(op[h].swap)
    /\ Finish(h)
    /\ UNCHANGED <<shifts, shiftPlan, patterns, patternPlan, asked, blurred>>

\* One half of a swap, too; its date stays taken.
RemoveOverride ==
    \E key \in Users \X Days:
        /\ overrides[key] # Null /\ ~overrides[key].removed
        /\ overrides' = [overrides EXCEPT ![key].removed = TRUE]
        /\ Instant("calendar")
        /\ UNCHANGED <<shifts, shiftPlan, patterns, patternPlan, asked, blurred>>

-----------------------------------------------------------------------------
(* What applies to a person on a date.                                     *)

Covers(row, u, day) ==
    /\ row.user = u /\ ~row.removed
    /\ row.from <= day /\ (row.to = Null \/ row.to >= day)

\* Any of the rows that start last: the order of equal dates is the
\* database's.
Latest(plan, u, day) ==
    LET covering == {i \in DOMAIN plan: Covers(plan[i], u, day)}
    IN  {plan[i]: i \in {j \in covering: \A k \in covering: plan[k].from <= plan[j].from}}

PatternIfFindable(p) == IF PatternFindable(p) THEN p ELSE Null

\* resolveWorkDayForUser: the days off and patterns it may answer.
WorkDays(u, day) ==
    IF Overridden(u, day) /\ ~overrides[<<u, day>>].removed
    THEN {[isWeeklyOff |-> overrides[<<u, day>>].type = "weekly_off", pattern |-> Null]}
    ELSE IF Latest(patternPlan, u, day) = {}
    THEN {[isWeeklyOff |-> FALSE, pattern |-> Null]}
    ELSE {IF ~PatternFindable(row.pattern)
          THEN [isWeeklyOff |-> FALSE, pattern |-> Null]
          ELSE LET weekday == WeekdayOf[day]
                   pattern == patterns[row.pattern]
               IN  [isWeeklyOff |-> \/ weekday \in pattern.weeklyOffDays
                                    \/ weekday \notin pattern.workingDays,
                    pattern |-> row.pattern]:
          row \in Latest(patternPlan, u, day)}

\* FAULT: the query does not ask for an order.
AnyActivePatterns(u, day) ==
    LET rows == {i \in DOMAIN patternPlan: Covers(patternPlan[i], u, day)}
    IN  IF rows = {} THEN {Null} ELSE {PatternIfFindable(patternPlan[i].pattern): i \in rows}

\* resolveActivePatternsForUsers: the patterns it may map u to.  The rows of
\* all users come in one order of the start dates, and the first of a user
\* wins.
ActivePatterns(u, day) ==
    LET rows == {i \in DOMAIN patternPlan: Covers(patternPlan[i], u, day)}
        first == {i \in rows: ~\E j \in rows: patternPlan[j].from > patternPlan[i].from}
    IN  IF rows = {} THEN {Null}
        ELSE {PatternIfFindable(patternPlan[i].pattern): i \in first}

CalendarInstants ==
    /\ Expected("calendar")
    /\ \/ CreateShift \/ RemoveShift \/ RemoveShiftAssignment
       \/ CreatePattern \/ RemovePattern \/ AssignPattern \/ RemovePatternAssignment
       \/ RemoveOverride

CalendarRequests(h) ==
    /\ Ready(h, "calendar")
    /\ \/ UpdateShift(h) \/ AssignShift(h) \/ UpdatePattern(h)
       \/ CreateOverride(h) \/ CreateWeekdaySwap(h)

CalendarSteps(h) ==
    \/ WriteShift(h) \/ SaveAssignments(h) \/ WritePattern(h)
    \/ SaveOverride(h) \/ SaveSwap(h)

-----------------------------------------------------------------------------
\* A shift is overnight exactly if it ends no later than it starts, unless a
\* request asked for something else or two updates of its times overlapped
\* (create, update): an update of one time works the flag out with the other.
OvernightFollowsTimes ==
    \A s \in Shifts:
        (HasShift(s) /\ s \notin asked \cup blurred) =>
            (shifts[s].isOvernight <=> Overnight(shifts[s].start, shifts[s].end))

\* No weekday is both working and off, unless the days of a pattern changed
\* under an update of them (createPattern, updatePattern,
\* validatePatternDays): giving only one of the lists is checked against the
\* other list of the row.
PatternDaysDisjoint ==
    \A p \in Patterns:
        (HasPattern(p) /\ p \notin blurred) =>
            Disjoint(patterns[p].workingDays, patterns[p].weeklyOffDays)

\* A swap has both its halves or none, though its dates were checked before
\* the save and another request may have overridden one of them
\* (createWeekdaySwap, createOverride); removing a half keeps its row.
SwapsAreWhole ==
    \A key \in Users \X Days:
        (overrides[key] # Null /\ overrides[key].swap # Null) =>
            LET swap == overrides[key].swap
            IN  /\ Overridden(swap.user, swap.working) /\ Overridden(swap.user, swap.off)
                /\ overrides[<<swap.user, swap.working>>].type = "working_day"
                /\ overrides[<<swap.user, swap.off>>].type = "weekly_off"

\* The lists of employees and the attendance of a day resolve a pattern by
\* two different routines, which answer the same unless the day is overridden
\* (resolveActivePatternsForUsers, resolveWorkDayForUser).
BatchAgreesWithSingle ==
    \A u \in Users, day \in Days:
        ~(Overridden(u, day) /\ ~overrides[<<u, day>>].removed) =>
            ActivePatterns(u, day) = {answer.pattern: answer \in WorkDays(u, day)}
=============================================================================
