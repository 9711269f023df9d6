---------------------------- MODULE MCAttendance -----------------------------
(* Small instances of Attendance: one or two employees, two days, a day     *)
(* shift, and punches chosen to be early, late, repeated, outside the       *)
(* window, unreadable or of an unknown PIN.                                 *)
EXTENDS Attendance, TLC

CONSTANTS u1, u2, x1, x2, x3, x4

Clock(h, m) == 3600 * h + 60 * m

DayShift ==
    [startTime |-> 540, endTime |-> 1080, isOvernight |-> FALSE,
     graceInMinutes |-> 10, graceOutMinutes |-> 10, breakMinutes |-> 60,
     fullDayMinutes |-> 480, halfDayMinutes |-> 240]

Punch(user, date, at, punchType, source, externalId) ==
    [user |-> user, date |-> date, at |-> at, punchType |-> punchType,
     source |-> source, externalId |-> externalId]

Arrival   == Punch(u1, 1, Clock(9, 0), "in", "biometric", x1)
Departure == Punch(u1, 1, Clock(18, 0), "in", "biometric", x2)
MobileOut == Punch(u1, 1, Clock(15, 0), "out", "mobile", x3)
Relayed   == [MobileOut EXCEPT !.at = Clock(15, 1)]  \* one externalId, another time
TooEarly  == Punch(u1, 1, Clock(5, 0), "in", "mobile", x4)
Unknown   == Punch(Null, 1, Clock(9, 0), "in", "biometric", x4)
Garbled   == Punch(u1, 1, Null, "in", "biometric", x4)

MCPunches == {Arrival, Departure, MobileOut, Relayed, TooEarly, Unknown, Garbled}
MCDtoBatches == {<<TooEarly>>, <<MobileOut>>}
MCDeviceBatches == {<<Departure>>, <<Unknown, Arrival, Departure>>, <<Garbled>>}

Correction(user, status, checkInAt, checkOutAt) ==
    [user |-> user, date |-> 1, attendanceStatus |-> status,
     checkInAt |-> checkInAt, checkOutAt |-> checkOutAt, source |-> "manual"]

\* manualCorrection nulls the times it is not given, bulkCorrection keeps them.
MCCorrections ==
    {<<Correction(u1, "half_day", Undefined, Clock(14, 0))>>}

\* Two requests at a time: one device log, one mobile punch, and a bulk
\* correction whose second item meets a deleted shift.
RaceDtoBatches == {<<MobileOut>>, <<Relayed>>}
RaceDeviceBatches == {<<Unknown, Arrival, Departure>>}
RaceCorrections ==
    {<<Correction(u1, "half_day", Undefined, Clock(14, 0)),
       Correction(u2, "present", Null, Null)>>}

MCShiftOf == [k \in Keys |-> IF k[1] = u1 THEN DayShift ELSE Null]
MCCalendarOf == [k \in Keys |-> IF k[1] = u1 THEN Null ELSE "holiday"]
NoKeys == {}
NoBatches == {}
HandlerSymmetry == Permutations(Requests)
u2Keys == {k \in Keys: k[1] = u2}
=============================================================================
