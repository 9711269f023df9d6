--------------------------- MODULE AttendanceRules ---------------------------
(***************************************************************************)
(* The pure computations of AttendanceService: the shift window a punch    *)
(* must fall in, the debounce of close punches, the labelling of device    *)
(* punches by order, the metrics of a day and the status derived from it.  *)
(*                                                                         *)
(* An instant is an integer number of seconds after midnight of the day a  *)
(* record is about, so an instant of the following day is at least         *)
(* SecondsPerDay.  MySQL's datetime columns keep whole seconds.  A shift's *)
(* startTime and endTime ('HH:mm') and its other columns are minutes.  The *)
(* server's time zone is taken to have no daylight-saving change.          *)
(***************************************************************************)
EXTENDS Integers, FiniteSets

CONSTANT Null           \* JavaScript's null: no time, no shift, no record

MinutesPerDay == 1440
SecondsPerDay == 60 * MinutesPerDay

PunchTypes == {"in", "out"}
PunchSources == {"biometric", "web", "mobile", "manual"}
AttendanceStatuses ==
    {"present", "absent", "late", "half_day", "on_leave", "holiday", "weekly_off"}
AttendanceSources ==
    {"biometric", "web", "mobile", "manual", "regularization", "system", "import"}

\* The columns of a shift that attendance reads.
ShiftRows ==
    [startTime: Int, endTime: Int, isOvernight: BOOLEAN,
     graceInMinutes: Int, graceOutMinutes: Int, breakMinutes: Int,
     fullDayMinutes: Int, halfDayMinutes: Int]

ASSUME NullIsNoValue == Null \notin Int /\ Null \notin ShiftRows

\* Math.round(ms / 60000): halves go up, also below zero.
RoundMinutes(seconds) == (seconds + 30) \div 60

AtLeastZero(n) == IF n > 0 THEN n ELSE 0

BuildDateTime(time, nextDay) ==
    60 * (time + (IF nextDay THEN MinutesPerDay ELSE 0))

Overnight(shift) == shift.isOvernight \/ shift.endTime <= shift.startTime

ShiftStart(shift) == BuildDateTime(shift.startTime, FALSE)
ShiftEnd(shift) == BuildDateTime(shift.endTime, Overnight(shift))

-----------------------------------------------------------------------------
(* Acceptance of a punch.                                                  *)

InsideShiftWindow(at, shift) ==
    /\ at >= ShiftStart(shift) - 60 * shift.graceInMinutes
    /\ at <= ShiftEnd(shift) + 60 * shift.graceOutMinutes

\* at is an instant of the day shift belongs to; previous is the shift of
\* the day before, whose own midnight lies SecondsPerDay earlier.
PunchWithinShiftWindow(at, shift, previous) ==
    shift # Null =>
        \/ InsideShiftWindow(at, shift)
        \/ /\ previous # Null
           /\ Overnight(previous)
           /\ InsideShiftWindow(at + SecondsPerDay, previous)

-----------------------------------------------------------------------------
(* From a day's punches to its check-in and check-out.  A punch here is    *)
(* any record with a field at.                                             *)

\* MySQL leaves the order of equal instants open: CHOOSE fixes one.
Earliest(S) == CHOOSE e \in S: \A f \in S: e.at <= f.at
Latest(S) == CHOOSE e \in S: \A f \in S: f.at <= e.at

\* FAULT: compare with the previous punch, kept or not.
DedupeAgainstPrevious(S, debounce) ==
    {e \in S: \A f \in S: f.at < e.at => e.at - f.at >= debounce}

\* Keep the first of any run of punches closer than the debounce (in
\* seconds) to the last one kept, in the order of punchedAt.
DedupeClosePunches(S, debounce) ==
    LET keep[R \in SUBSET S] ==
            IF R = {} THEN {}
            ELSE LET first == Earliest(R)
                 IN  {first} \cup keep[{e \in R: e.at - first.at >= debounce}]
    IN  S \cap keep[S]

FirstPunchAt(S) == IF S = {} THEN Null ELSE Earliest(S).at
LastPunchAt(S) == IF S = {} THEN Null ELSE Latest(S).at

\* FAULT: only the last punch is a check-out.
OnlyLastIsOut(e, S) == IF e = Latest(S) /\ e # Earliest(S) THEN "out" ELSE "in"

\* FAULT: punches alternate between check-in and check-out.
AlternateLabels(e, S) ==
    IF Cardinality({f \in S: f.at < e.at}) % 2 = 0 THEN "in" ELSE "out"

\* What relabelDevicePunchesByOrder wants the type of punch e of S to be.
OrderLabel(e, S) == IF e = Earliest(S) THEN "in" ELSE "out"

MapPunchSource(source) ==
    IF source \in {"biometric", "mobile"} THEN source ELSE "web"

-----------------------------------------------------------------------------
(* Metrics and status of a day.                                            *)

WorkedMinutes(checkInAt, checkOutAt, shift) ==
    IF checkInAt = Null \/ checkOutAt = Null THEN 0
    ELSE AtLeastZero(RoundMinutes(checkOutAt - checkInAt)
                     - (IF shift = Null THEN 0 ELSE shift.breakMinutes))

LateMinutes(checkInAt, shift) ==
    IF shift = Null \/ checkInAt = Null THEN 0
    ELSE AtLeastZero(RoundMinutes(
           checkInAt - (ShiftStart(shift) + 60 * shift.graceInMinutes)))

\* FAULT: an overnight shift ends on its own day.
EarlyLeaveSameDay(checkOutAt, shift) ==
    IF shift = Null \/ checkOutAt = Null THEN 0
    ELSE AtLeastZero(RoundMinutes(
           (BuildDateTime(shift.endTime, FALSE) - 60 * shift.graceOutMinutes) - checkOutAt))

EarlyLeaveMinutes(checkOutAt, shift) ==
    IF shift = Null \/ checkOutAt = Null THEN 0
    ELSE AtLeastZero(RoundMinutes(
           (ShiftEnd(shift) - 60 * shift.graceOutMinutes) - checkOutAt))

OvertimeMinutes(worked, shift) ==
    IF shift = Null THEN 0 ELSE AtLeastZero(worked - shift.fullDayMinutes)

FullDay(shift) == IF shift = Null THEN 480 ELSE shift.fullDayMinutes
HalfDay(shift) == IF shift = Null THEN FullDay(shift) \div 2 ELSE shift.halfDayMinutes

\* FAULT: lateness is judged before the minimum of a half day.
StatusLateFirst(checkInAt, checkOutAt, shift) ==
    LET worked == WorkedMinutes(checkInAt, checkOutAt, shift)
    IN  IF checkInAt = Null /\ checkOutAt = Null THEN "absent"
        ELSE IF LateMinutes(checkInAt, shift) > 0 THEN "late"
        ELSE IF worked < HalfDay(shift) THEN "absent"
        ELSE "present"

\* The status of a day from its two instants.
BaseStatus(checkInAt, checkOutAt, shift) ==
    LET worked == WorkedMinutes(checkInAt, checkOutAt, shift)
        arrival == IF LateMinutes(checkInAt, shift) > 0 THEN "late" ELSE "present"
        both == checkInAt # Null /\ checkOutAt # Null
    IN  IF checkInAt = Null /\ checkOutAt = Null THEN "absent"
        ELSE IF both /\ worked < HalfDay(shift) THEN "absent"
        ELSE IF both /\ worked < FullDay(shift)
                     /\ EarlyLeaveMinutes(checkOutAt, shift) > 0 THEN "half_day"
        ELSE arrival

ComputeMetrics(checkInAt, checkOutAt, shift) ==
    LET worked == WorkedMinutes(checkInAt, checkOutAt, shift)
    IN  [workedMinutes |-> worked,
         overtimeMinutes |-> OvertimeMinutes(worked, shift),
         lateMinutes |-> LateMinutes(checkInAt, shift),
         earlyLeaveMinutes |-> EarlyLeaveMinutes(checkOutAt, shift),
         derivedStatus |-> BaseStatus(checkInAt, checkOutAt, shift)]

\* calendar: "holiday", "weekly_off", "on_leave" or Null, the first of them
\* that the day is for the employee.
DerivedStatusForDay(base, hasWorkEvidence, calendar) ==
    IF hasWorkEvidence \/ calendar = Null THEN base ELSE calendar
=============================================================================
