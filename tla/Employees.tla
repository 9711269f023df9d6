----------------------------- MODULE Employees -----------------------------
(***************************************************************************)
(* EmployeesService and UserService: logins and the employee records that  *)
(* belong to them.  An enrolment writes both, an update writes the record  *)
(* and copies what the login mirrors; neither uses a transaction.          *)
(*                                                                         *)
(* An employee's id stands for its login's: a record is created with its   *)
(* login and neither changes hands.  firstName and lastName stand for all  *)
(* parts of a name.  The phone number is left out: an update of a record   *)
(* copies it to the login too, but its owner may change it there.          *)
(***************************************************************************)
EXTENDS Directory, FiniteSets

CONSTANTS
    Users,          \* BOUND: ids of logins ever created
    Emails,
    EmployeeCodes,
    Devices,        \* attendance device ids, '' among them
    Blank,          \* '', which every check takes for not given
    Names,          \* first and last names
    Shifts,         \* BOUND: ids of shifts ever created
    Enrolments,     \* BOUND: the dtos of enrolments
    Gone            \* the id of a login that was deleted

VARIABLES
    users,      \* the row of an id, Null, or Gone
    employees,  \* the employee record of a login, or Null
    writer,     \* HISTORY: who wrote the department of a record last without mirroring it
    excused     \* HISTORY: the logins an enrolment had a reason to leave without a record

employeeTables == <<users, employees, writer, excused>>

FullNames == [first: Names, last: Names \cup {Null}]

UserRows ==
    [email: Emails, role: {"employee", "client"}, name: FullNames,
     department: Entries \cup {Null}]

\* employeeName is name.
EmployeeRows ==
    [code: EmployeeCodes, device: Devices \cup {Null},
     first: Names, last: Names \cup {Null}, name: FullNames,
     department: Entries \cup {Null}, defaultShift: Shifts \cup {Null},
     biometric: BOOLEAN, removed: BOOLEAN]

\* storable: the company, the designation, the branch and the default shift
\* exist, if given, and the columns take the values that are left out here.
EnrolDtos ==
    [email: Emails, code: EmployeeCodes \ {Blank}, device: Devices \cup {Null},
     first: Names, department: Entries \cup {Null}, storable: BOOLEAN]

ASSUME EmployeesAssumption ==
    /\ {} \notin {Users, Emails, EmployeeCodes, Names}
    /\ IsFiniteSet(Users) /\ Null \notin Users
    /\ Blank \in Devices /\ EmployeeCodes \ {Blank} # {}
    /\ Null # Gone /\ {Null, Gone} \cap UserRows = {}
    /\ Null \notin EmployeeRows
    /\ Enrolments \subseteq EnrolDtos

\* BOUND: an update changes one property, of those kept here.
EmployeeChanges ==
    [field: {"first"}, value: Names]
        \cup [field: {"last"}, value: Names \cup {Null}]
        \cup [field: {"code"}, value: EmployeeCodes]
        \cup [field: {"device"}, value: Devices \cup {Null}]
        \cup [field: {"department"}, value: Entries \cup {Null}]

\* rivalled: another request took the code or the device after the check.
EmployeeOps ==
    [pc: {"enrol.login", "enrol.save"}, user: Users \cup {Null}, dto: Enrolments,
     rivalled: BOOLEAN]
        \cup [pc: {"update.write", "update.sync"}, user: Users, dto: EmployeeChanges,
              read: EmployeeRows]

IsLogin(u) == users[u] \notin {Null, Gone}
HasRecord(u) == employees[u] # Null
Active(u) == HasRecord(u) /\ ~employees[u].removed

EmployeesTypeOK ==
    /\ users \in [Users -> UserRows \cup {Null, Gone}]
    /\ employees \in [Users -> EmployeeRows \cup {Null}]
    /\ \A u \in Users: HasRecord(u) => IsLogin(u)
    /\ writer \in [Users -> Handlers \cup {Null}]
    /\ excused \subseteq Users

NewRecord(dto) ==
    [code |-> dto.code, device |-> dto.device, first |-> dto.first, last |-> Null,
     name |-> [first |-> dto.first, last |-> Null], department |-> dto.department,
     defaultShift |-> Null, biometric |-> FALSE, removed |-> FALSE]

\* FAULT: a department that is not given stays undefined.
NewLoginAsGiven(dto) ==
    [email |-> dto.email, role |-> "employee", name |-> [first |-> dto.first, last |-> Null],
     department |-> IF dto.department = Null THEN Undefined ELSE dto.department]

NewLogin(dto) ==
    [email |-> dto.email, role |-> "employee", name |-> [first |-> dto.first, last |-> Null],
     department |-> dto.department]

\* One person was enrolled before, in the department there is.
EmployeesInit ==
    /\ LET dto == [email |-> CHOOSE email \in Emails: TRUE,
                   code |-> CHOOSE code \in EmployeeCodes \ {Blank}: TRUE,
                   device |-> Null, first |-> CHOOSE name \in Names: TRUE,
                   department |-> CHOOSE id \in Entries: TRUE, storable |-> TRUE]
       IN  /\ users = FirstRow(Users, NewLogin(dto))
           /\ employees = FirstRow(Users, NewRecord(dto))
    /\ writer = [u \in Users |-> Null]
    /\ excused = {}

-----------------------------------------------------------------------------
\* All rows count, removed ones too (withDeleted).
EmailTaken(email) == \E u \in Users: IsLogin(u) /\ users[u].email = email

\* The unique indexes.
CodeTaken(code, except) ==
    \E u \in Users \ {except}: HasRecord(u) /\ employees[u].code = code

DeviceTaken(device, except) ==
    /\ device # Null
    /\ \E u \in Users \ {except}: HasRecord(u) /\ employees[u].device = device

\* FAULT: the check overlooks removed employees.
ClashesWithActive(code, device, except) ==
    \E u \in Users \ {except}:
        /\ Active(u)
        /\ \/ code # Blank /\ employees[u].code = code
           \/ device \notin {Null, Blank} /\ employees[u].device = device

\* The checks of a new code and a new device; '' is not checked.
Clashes(code, device, except) ==
    \/ code # Blank /\ CodeTaken(code, except)
    \/ device # Blank /\ DeviceTaken(device, except)

\* Enrolments whose check of a code or a device this write invalidates.
Rivalled(h, code, device) ==
    [g \in Handlers |->
        IF g # h /\ op[g].pc \in {"enrol.login", "enrol.save"}
             /\ (op[g].dto.code = code \/ (device # Null /\ op[g].dto.device = device))
        THEN [op[g] EXCEPT !.rivalled = TRUE]
        ELSE IF g = h THEN Idle ELSE op[g]]

-----------------------------------------------------------------------------
(* Logins.                                                                 *)

\* AuthService.register.
RegisterUser ==
    \E email \in Emails, name \in Names:
        /\ HasFreshId(users) /\ ~EmailTaken(email)
        /\ users' = [users EXCEPT ![FreshId(users)] =
             [email |-> email, role |-> "client", name |-> [first |-> name, last |-> Null],
              department |-> Null]]
        /\ Instant("employees")
        /\ UNCHANGED <<employees, writer, excused>>

\* update; the department is one of protectedFields.
UpdateUser ==
    \E u \in Users, email \in Emails, name \in FullNames:
        /\ IsLogin(u)
        /\ email = users[u].email \/ (name = users[u].name /\ ~EmailTaken(email))
        /\ users' = [users EXCEPT ![u].email = email, ![u].name = name]
        /\ Instant("employees")
        /\ UNCHANGED <<employees, writer, excused>>

\* delete: refused by the foreign key of a record.
DeleteUser ==
    \E u \in Users:
        /\ IsLogin(u) /\ ~HasRecord(u)
        /\ users' = [users EXCEPT ![u] = Gone]
        /\ Instant("employees")
        /\ UNCHANGED <<employees, writer, excused>>

-----------------------------------------------------------------------------
(* enroll.                                                                 *)

Enrol(h) ==
    \E dto \in Enrolments:
        /\ ~EmailTaken(dto.email)
        /\ ~Clashes(dto.code, dto.device, Null)
        /\ Begin(h, "employees",
                 [pc |-> "enrol.login", user |-> Null, dto |-> dto, rivalled |-> FALSE])
        /\ UNCHANGED employeeTables

\* createUser; the email has a unique index, the department no foreign key.
EnrolLogin(h) ==
    /\ At(h, "enrol.login")
    /\ ~EmailTaken(op[h].dto.email)
    /\ HasFreshId(users)
    /\ users' = [users EXCEPT ![FreshId(users)] = NewLogin(op[h].dto)]
    /\ Goto(h, [op[h] EXCEPT !.pc = "enrol.save", !.user = FreshId(users)])
    /\ UNCHANGED <<employees, writer, excused>>

EnrolEmailTaken(h) ==
    /\ At(h, "enrol.login")
    /\ EmailTaken(op[h].dto.email)
    /\ Finish(h)
    /\ UNCHANGED employeeTables

\* What enroll does not check before it creates the login.
Unchecked(u, dto) ==
    \/ dto.device = Blank /\ DeviceTaken(Blank, u)
    \/ ~References(dto.department, "department")
    \/ ~dto.storable

RecordRefused(u, dto) ==
    \/ CodeTaken(dto.code, u) \/ DeviceTaken(dto.device, u)
    \/ Unchecked(u, dto)
    \/ ~IsLogin(u)

EnrolSave(h) ==
    /\ At(h, "enrol.save")
    /\ ~RecordRefused(op[h].user, op[h].dto)
    /\ employees' = [employees EXCEPT ![op[h].user] = NewRecord(op[h].dto)]
    /\ op' = Rivalled(h, op[h].dto.code, op[h].dto.device)
    /\ UNCHANGED <<budget, users, writer, excused>>

\* The login stays.
EnrolSaveFails(h) ==
    /\ At(h, "enrol.save")
    /\ RecordRefused(op[h].user, op[h].dto)
    /\ excused' = IF op[h].rivalled \/ Unchecked(op[h].user, op[h].dto)
                  THEN excused \cup {op[h].user} ELSE excused
    /\ Finish(h)
    /\ UNCHANGED <<users, employees, writer>>

-----------------------------------------------------------------------------
(* update, enrollBiometric and remove.                                     *)

Update(h) ==
    \E u \in Users, dto \in EmployeeChanges:
        /\ Active(u)
        /\ dto.field = "code" => ~Clashes(dto.value, Null, u)
        /\ dto.field = "device" => ~Clashes(employees[u].code, dto.value, u)
        /\ Begin(h, "employees",
                 [pc |-> "update.write", user |-> u, dto |-> dto, read |-> employees[u]])
        /\ UNCHANGED employeeTables

\* FAULT: only the part that was given is written, and the name.
PartAndName(row, dto, read) ==
    LET first == IF dto.field = "first" THEN dto.value ELSE read.first
        last == IF dto.field = "last" THEN dto.value ELSE read.last
    IN  CASE dto.field = "first" -> [row EXCEPT !.first = first,
                                                !.name = [first |-> first, last |-> last]]
          [] dto.field = "last" -> [row EXCEPT !.last = last,
                                               !.name = [first |-> first, last |-> last]]
          [] OTHER -> [row EXCEPT ![dto.field] = dto.value]

\* The parts of a name that are not given are those of the row read.
Changed(row, dto, read) ==
    LET first == IF dto.field = "first" THEN dto.value ELSE read.first
        last == IF dto.field = "last" THEN dto.value ELSE read.last
    IN  IF dto.field \in {"first", "last"}
        THEN [row EXCEPT !.first = first, !.last = last,
                         !.name = [first |-> first, last |-> last]]
        ELSE [row EXCEPT ![dto.field] = dto.value]

ChangeRefused(u, dto) ==
    CASE dto.field = "code" -> CodeTaken(dto.value, u)
      [] dto.field = "device" -> DeviceTaken(dto.value, u)
      [] dto.field = "department" -> ~References(dto.value, "department")
      [] OTHER -> FALSE

UpdateWrite(h) ==
    /\ At(h, "update.write")
    /\ LET u == op[h].user
           dto == op[h].dto
           row == Changed(employees[u], dto, op[h].read)
       IN  /\ ~ChangeRefused(u, dto)
           /\ employees' = [employees EXCEPT ![u] = row]
           /\ writer' = IF dto.field = "department" THEN [writer EXCEPT ![u] = h] ELSE writer
           /\ IF dto.field \in {"code", "device"}
              THEN op' = Rivalled(h, row.code, row.device)
              ELSE op' = [op EXCEPT ![h].pc = "update.sync"]
    /\ UNCHANGED <<budget, users, excused>>

UpdateRefused(h) ==
    /\ At(h, "update.write")
    /\ ChangeRefused(op[h].user, op[h].dto)
    /\ Finish(h)
    /\ UNCHANGED employeeTables

\* FAULT: a department taken away is not mirrored.
SyncIfGiven(h) ==
    /\ At(h, "update.sync")
    /\ LET u == op[h].user
           dto == op[h].dto
           name == Changed(op[h].read, dto, op[h].read).name
       IN  /\ users' = IF dto.field # "department" THEN [users EXCEPT ![u].name = name]
                       ELSE IF dto.value = Null THEN users
                       ELSE [users EXCEPT ![u].department = dto.value]
           /\ writer' = IF dto.field # "department" THEN writer
                        ELSE [writer EXCEPT ![u] = IF @ = h THEN Null ELSE h]
    /\ Finish(h)
    /\ UNCHANGED <<employees, excused>>

\* syncEmployeeMetadata.
Sync(h) ==
    /\ At(h, "update.sync")
    /\ LET u == op[h].user
           dto == op[h].dto
           name == Changed(op[h].read, dto, op[h].read).name
       IN  /\ users' = IF dto.field # "department" THEN [users EXCEPT ![u].name = name]
                       ELSE [users EXCEPT ![u].department = dto.value]
           /\ writer' = IF dto.field # "department" THEN writer
                        ELSE [writer EXCEPT ![u] = IF @ = h THEN Null ELSE h]
    /\ Finish(h)
    /\ UNCHANGED <<employees, excused>>

EnrollBiometric ==
    \E u \in Users:
        /\ Active(u)
        /\ employees' = [employees EXCEPT ![u].biometric = TRUE]
        /\ Instant("employees")
        /\ UNCHANGED <<users, writer, excused>>

\* The login stays.
RemoveEmployee ==
    \E u \in Users:
        /\ Active(u)
        /\ employees' = [employees EXCEPT ![u].removed = TRUE]
        /\ Instant("employees")
        /\ UNCHANGED <<users, writer, excused>>

\* Enrolments and updates a crash cuts short.
CutShort ==
    excused' = excused \cup {op[h].user: h \in {g \in Handlers: At(g, "enrol.save")}}

LoginRequests == Expected("employees") /\ (RegisterUser \/ UpdateUser \/ DeleteUser)
RecordRequests == Expected("employees") /\ (EnrollBiometric \/ RemoveEmployee)
EmployeeRequests(h) == Ready(h, "employees") /\ (Enrol(h) \/ Update(h))

EmployeeSteps(h) ==
    \/ EnrolLogin(h) \/ EnrolEmailTaken(h) \/ EnrolSave(h) \/ EnrolSaveFails(h)
    \/ UpdateWrite(h) \/ UpdateRefused(h) \/ Sync(h)

-----------------------------------------------------------------------------
\* The checks of an enrolment rule out the records that the unique indexes
\* refuse, removed employees included, before the login is created: a login for
\* an employee has no record only while its enrolment is under way, or after a
\* crash, a second record with the device id '', a reference or a value the
\* database does not take (these three are not checked), or another request
\* that took the code or the device in between (enroll).
EnrolmentsComplete ==
    \A u \in Users:
        (IsLogin(u) /\ users[u].role = "employee" /\ ~HasRecord(u)) =>
            u \in excused \/ \E h \in Handlers: At(h, "enrol.save") /\ op[h].user = u

\* A login mirrors the department of its record once every update of it has
\* synced in the order it wrote (update, syncEmployeeMetadata); updates that
\* overlap may leave them apart until the next one.
DepartmentMirrored ==
    \A u \in Users:
        (HasRecord(u) /\ writer[u] = Null) => users[u].department = employees[u].department

\* The name of a record is made of its own first and last name, whatever
\* updates of either were under way at the same time (update,
\* resolveEmployeeName).
NameOfParts ==
    \A u \in Users:
        HasRecord(u) =>
            employees[u].name = [first |-> employees[u].first, last |-> employees[u].last]
=============================================================================
