--------------------------- MODULE MCAttendanceDay ---------------------------
(* Small instance of AttendanceDay: a day shift and an overnight shift,     *)
(* punches around their grace limits and closer than the debounce.          *)
EXTENDS AttendanceDay

DayShift ==
    [startTime |-> 540, endTime |-> 1080, isOvernight |-> FALSE,
     graceInMinutes |-> 10, graceOutMinutes |-> 10, breakMinutes |-> 60,
     fullDayMinutes |-> 480, halfDayMinutes |-> 240]

NightShift ==
    [startTime |-> 1320, endTime |-> 360, isOvernight |-> FALSE,
     graceInMinutes |-> 10, graceOutMinutes |-> 5, breakMinutes |-> 30,
     fullDayMinutes |-> 450, halfDayMinutes |-> 200]

Clock(h, m, s) == 3600 * h + 60 * m + s

MCShifts == {DayShift, NightShift}

MCPunchTimes ==
    {Clock(0, 5, 0), Clock(8, 57, 0), Clock(9, 1, 30), Clock(9, 3, 0), Clock(9, 10, 31),
     Clock(13, 4, 0), Clock(17, 44, 0), Clock(17, 48, 0), Clock(17, 50, 0), Clock(17, 53, 30)}

MCInstants ==
    {Clock(8, 57, 0), Clock(9, 10, 29), Clock(9, 10, 30), Clock(9, 10, 31),
     Clock(11, 15, 20), Clock(13, 10, 29), Clock(13, 10, 31), Clock(16, 30, 45),
     Clock(17, 49, 30), Clock(17, 50, 0), Clock(18, 20, 0), Clock(22, 9, 0),
     Clock(22, 31, 17), Clock(25, 40, 50), Clock(29, 54, 29), Clock(29, 55, 0),
     Clock(30, 10, 0)}
=============================================================================
