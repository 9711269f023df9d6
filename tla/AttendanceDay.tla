---------------------------- MODULE AttendanceDay ----------------------------
(***************************************************************************)
(* One employee's day at a fingerprint device.  Punches reach the server   *)
(* one by one, in any order; after each one the whole day is relabelled by *)
(* order, debounced and evaluated, as recordDevicePunches does for a batch *)
(* of one.  The module carries no control of its own: it is where the      *)
(* computations of AttendanceRules are checked against what they promise   *)
(* together.                                                               *)
(***************************************************************************)
EXTENDS AttendanceRules

CONSTANTS
    Shifts,         \* the shifts to check, a subset of ShiftRows
    PunchTimes,     \* instants of the day at which the device may report
    Instants,       \* instants a correction may give, next day included
    Debounce        \* seconds, PUNCH_DEBOUNCE_MINUTES

ASSUME DayAssumption ==
    /\ Shifts \subseteq ShiftRows
    /\ PunchTimes \subseteq 0..(SecondsPerDay - 1)
    /\ Instants \subseteq Nat
    /\ Debounce \in Nat \ {0}

VARIABLES
    shift,          \* the employee's shift, Null when none resolves
    day             \* the punches stored for the day

vars == <<shift, day>>

Init ==
    /\ shift \in Shifts \cup {Null}
    /\ day = {}

PunchArrives(at) ==
    /\ PunchWithinShiftWindow(at, shift, shift)
    /\ day' = day \cup {[at |-> at]}
    /\ UNCHANGED shift

Next == \E at \in PunchTimes: PunchArrives(at)

Spec == Init /\ [][Next]_vars

-----------------------------------------------------------------------------
(* What recomputeRecord makes of the day.                                  *)

Effective(S) == DedupeClosePunches(S, Debounce)
CheckInAt(S) == FirstPunchAt({e \in Effective(S): OrderLabel(e, S) = "in"})
CheckOutAt(S) == LastPunchAt({e \in Effective(S): OrderLabel(e, S) = "out"})
DayStatus(S) == ComputeMetrics(CheckInAt(S), CheckOutAt(S), shift).derivedStatus

\* How good a status is for the employee.
Rank == [absent |-> 0, half_day |-> 1, late |-> 2, present |-> 3]

-----------------------------------------------------------------------------
\* dedupeClosePunches keeps the first punch of every run: the punches kept
\* are at least the debounce apart, and each one dropped follows a kept one
\* within the debounce, whatever the chain of close punches looks like.
DebounceKeepsFirstOfRun ==
    LET kept == Effective(day)
    IN  /\ \A e, f \in kept: e.at < f.at => f.at - e.at >= Debounce
        /\ \A e \in day \ kept: \E k \in kept: k.at < e.at /\ e.at - k.at < Debounce

\* Relabelling runs over all stored punches and debouncing over the labelled
\* ones: together they still make the day span from its very first punch to
\* within the debounce of its very last, and never produce a check-out
\* without a check-in before it.
DeviceDaySpan ==
    day # {} =>
        LET cin == CheckInAt(day)
            cout == CheckOutAt(day)
            last == IF cout = Null THEN cin ELSE cout
        IN  /\ cin = Earliest(day).at
            /\ cout # Null => cout - cin >= Debounce
            /\ \A e \in day: e.at < last + Debounce

\* The status rule is fair: arriving earlier or leaving later, the rest
\* equal, never makes the derived status of the day worse.  (The stored
\* punches play no part: one state per shift is enough.)
LongerStayNeverWorse ==
    day = {} =>
        \A a, b, c \in Instants: a <= b =>
            /\ Rank[BaseStatus(b, c, shift)] <= Rank[BaseStatus(a, c, shift)]
            /\ Rank[BaseStatus(c, a, shift)] <= Rank[BaseStatus(c, b, shift)]

\* Once a day has a check-out, a punch after its last one, or before its
\* first one by at least the debounce, never makes its status worse.  (Any
\* other may: it can start a run that swallows the last punch.)
EndPunchNeverWorsens ==
    [][\A e \in day' \ day:
          (/\ CheckOutAt(day) # Null
           /\ \/ \A f \in day: e.at + Debounce <= f.at
              \/ \A f \in day: f.at < e.at)
          => Rank[DayStatus(day)] <= Rank[DayStatus(day')]]_vars

\* No minute is lost or counted twice: for someone who arrives after the
\* grace and leaves before it, worked, break, late and early-leave minutes
\* add up to the span the shift asks for, up to a minute of rounding; with a
\* shift that ends after midnight too.
MinutesAddUp ==
    (day = {} /\ shift # Null) =>
        LET from == ShiftStart(shift) + 60 * shift.graceInMinutes
            until == ShiftEnd(shift) - 60 * shift.graceOutMinutes
        IN  \A a, b \in Instants:
              LET m == ComputeMetrics(a, b, shift)
              IN  (from <= a /\ b <= until /\ m.workedMinutes > 0) =>
                     60 * (m.workedMinutes + shift.breakMinutes
                           + m.lateMinutes + m.earlyLeaveMinutes)
                       \in (until - from - 90)..(until - from + 90)
=============================================================================
