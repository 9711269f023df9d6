----------------------------- MODULE Workforce -----------------------------
(***************************************************************************)
(* The directory, the employees and the calendar of one server: requests   *)
(* to all of their services run side by side over their shared tables.     *)
(***************************************************************************)
EXTENDS Calendar

vars == <<calls, directoryTables, employeeTables, calendarTables>>

TypeOK ==
    /\ \A h \in Handlers:
         op[h] \in {Idle} \cup DirectoryOps \cup EmployeeOps \cup CalendarOps
    /\ budget \in [Services -> Nat]
    /\ DirectoryTypeOK /\ EmployeesTypeOK /\ CalendarTypeOK

Init == CallsInit /\ DirectoryInit /\ EmployeesInit /\ CalendarInit

DirectoryNext ==
    /\ RemoveEntry \/ \E h \in Handlers: DirectoryRequests(h) \/ DirectorySteps(h)
    /\ UNCHANGED <<employeeTables, calendarTables>>

EmployeesNext ==
    /\ \/ LoginRequests \/ RecordRequests
       \/ \E h \in Handlers: EmployeeRequests(h) \/ EmployeeSteps(h)
    /\ UNCHANGED <<directoryTables, calendarTables>>

CalendarNext ==
    /\ CalendarInstants \/ \E h \in Handlers: CalendarRequests(h) \/ CalendarSteps(h)
    /\ UNCHANGED <<directoryTables, employeeTables>>

\* The calendar's one step on the employees' table.
DefaultShiftNext ==
    /\ \E h \in Handlers: UpdateDefaultShift(h)
    /\ UNCHANGED directoryTables

CrashNext ==
    /\ Crash
    /\ CutShort
    /\ UNCHANGED <<directoryTables, users, employees, writer, calendarTables>>

Next == DirectoryNext \/ EmployeesNext \/ CalendarNext \/ DefaultShiftNext \/ CrashNext

Spec == Init /\ [][Next]_vars
=============================================================================
