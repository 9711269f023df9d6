------------------------ MODULE MCAttendanceRequests -------------------------
(* Two handlers of requests over one employee's day: a departure that may   *)
(* be sent twice, a regularization of the missed check-in (and, in the     *)
(* race of reviews, an overtime claim), and the finalizer.                  *)
EXTENDS AttendanceRequests, TLC

CONSTANTS u1, x1, r1, r2, q1, q2

Clock(h, m) == 3600 * h + 60 * m

DayShift ==
    [startTime |-> 540, endTime |-> 1080, isOvernight |-> FALSE,
     graceInMinutes |-> 10, graceOutMinutes |-> 10, breakMinutes |-> 60,
     fullDayMinutes |-> 480, halfDayMinutes |-> 240]

Departure ==
    [user |-> u1, date |-> 1, at |-> Clock(18, 0), punchType |-> "out",
     source |-> "mobile", externalId |-> x1]

MCPunches == {Departure}
MCDtoBatches == {<<Departure>>}
MCDeviceBatches == {}
MCCorrections == {}
MCShiftOf == [k \in Keys |-> DayShift]
MCCalendarOf == [k \in Keys |-> Null]
NoKeys == {}

MCBodyOf ==
    [id \in RequestIds |->
        [user |-> u1, date |-> 1,
         type |-> IF id = q1 THEN "missed_check_in" ELSE "overtime",
         requestedCheckInAt |-> Clock(9, 0), requestedCheckOutAt |-> Null,
         requestedStatus |-> Null]]

HandlerSymmetry == Permutations(Requests)
=============================================================================
