----------------------------- MODULE MCWorkforce -----------------------------
(* Small instance of Workforce: two requests at a time.  What a behaviour   *)
(* has of each service is bounded, so that every pair of services meets.    *)
EXTENDS Listings, TLC

Budget(directoryRequests, employeesRequests, calendarRequests, crashes) ==
    [s \in Services |-> CASE s = "directory" -> directoryRequests
                          [] s = "employees" -> employeesRequests
                          [] s = "calendar" -> calendarRequests
                          [] s = "crash" -> crashes]

MCBudgets ==
    {Budget(4, 0, 0, 0), Budget(0, 2, 0, 1), Budget(0, 3, 0, 0), Budget(1, 2, 0, 0),
     Budget(0, 1, 1, 1), Budget(0, 0, 3, 0)}

\* An enrolment gives a device, a department or neither, or cannot be stored for
\* another reason; the first email and the first code are the first person's.
MCEnrolments ==
    {dto \in EnrolDtos:
        /\ dto.email # 1 /\ dto.code \in {dto.email - 1, dto.email}
        /\ dto.first = CHOOSE name \in Names: TRUE
        /\ dto.department # 3
        /\ \/ dto.device = Null /\ dto.department = Null
           \/ dto.device = Null /\ dto.storable
           \/ dto.department = Null /\ dto.storable}

\* An update of a pattern changes its days or its default shift.
MCPatternUpdates ==
    {dto \in PatternChanges:
        \/ dto.defaultShift = Undefined
        \/ dto.workingDays = Undefined /\ dto.weeklyOffDays = Undefined}

MCWeekdayOf == [day \in {1, 2} |-> IF day = 1 THEN "sun" ELSE "mon"]

Symmetry == Permutations(Handlers)
=============================================================================
