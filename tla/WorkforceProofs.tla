--------------------------- MODULE WorkforceProofs --------------------------
(***************************************************************************)
(* Workforce proved for any rows, names, dates and numbers of handlers and *)
(* requests.                                                               *)
(*                                                                         *)
(* A handler relies on the rows it has checked being there when it writes. *)
(* TypeInv says that they are: rows are removed softly, but for logins,    *)
(* and a login with a record stays.  On it rest four invariants, one for   *)
(* each way in which a handler relies on what it read, and CodesDiffer, on *)
(* which the list of employees relies:                                     *)
(*   NamesInv       the name it found free,                                *)
(*   RowsInv        the rows of the calendar it checked,                   *)
(*   EnrolInv       the login it made,                                     *)
(*   DepartmentInv  the department it wrote and is about to mirror.        *)
(***************************************************************************)
EXTENDS Listings, OrderLemmas, SequenceTheorems

AllOps == {Idle} \cup DirectoryOps \cup EmployeeOps \cup CalendarOps

\* The rows a handler is about to write, or to refer to, are there.
Sound(o) ==
    /\ o.pc = "entry.update" => Exists(o.id)
    /\ o.pc = "enrol.save" => o.user \in Users
    /\ o.pc \in {"update.write", "update.sync"} => HasRecord(o.user)
    /\ o.pc \in {"assign.save", "assign.default"} => \A u \in o.people: HasRecord(u)
    /\ o.pc = "shift.write" => HasShift(o.id)
    /\ o.pc = "pattern.write" => HasPattern(o.id)

TypeInv ==
    /\ TypeOK
    /\ op \in [Handlers -> AllOps]
    /\ \A h \in Handlers: Sound(op[h])

-----------------------------------------------------------------------------
(* Types.                                                                  *)

\* The pc of a handler tells its other fields.
LEMMA Shapes ==
    ASSUME NEW o \in AllOps
    PROVE  /\ o.pc = "entry.save" => o \in [pc: {"entry.save"}, row: DirectoryRows]
           /\ o.pc = "entry.update" =>
                o \in [pc: {"entry.update"}, id: Entries, row: DirectoryRows]
           /\ o.pc \in {"enrol.login", "enrol.save"} =>
                o \in [pc: {"enrol.login", "enrol.save"}, user: Users \cup {Null},
                       dto: Enrolments, rivalled: BOOLEAN]
           /\ o.pc \in {"update.write", "update.sync"} =>
                o \in [pc: {"update.write", "update.sync"}, user: Users,
                       dto: EmployeeChanges, read: EmployeeRows]
           /\ o.pc = "shift.write" =>
                o \in [pc: {"shift.write"}, id: Shifts, dto: ShiftChanges, read: ShiftRows]
           /\ o.pc \in {"assign.save", "assign.default"} =>
                o \in [pc: {"assign.save", "assign.default"}, people: SUBSET Users,
                       shift: Shifts, from: Days, to: Days \cup {Null}]
           /\ o.pc = "pattern.write" =>
                o \in [pc: {"pattern.write"}, id: Patterns, dto: PatternChanges,
                       read: PatternRows]
           /\ o.pc = "override.save" =>
                o \in [pc: {"override.save"}, user: Users, day: Days, row: OverrideRows]
           /\ o.pc = "swap.save" => o \in [pc: {"swap.save"}, swap: Swaps]
BY DEF AllOps, Idle, DirectoryOps, EmployeeOps, CalendarOps

\* An idle handler relies on nothing.
LEMMA IdleSound == Idle \in AllOps /\ Sound(Idle) /\ Idle.pc = "idle"
BY DEF AllOps, Idle, Sound

\* The rows that handlers rely on stay.
RowsStay ==
    /\ \A id \in Entries: Exists(id) => Exists(id)'
    /\ \A u \in Users: HasRecord(u) => HasRecord(u)'
    /\ \A s \in Shifts: HasShift(s) => HasShift(s)'
    /\ \A p \in Patterns: HasPattern(p) => HasPattern(p)'

\* What a handler relied on it can rely on after a step.
LEMMA SoundStays ==
    ASSUME RowsStay, NEW h \in Handlers, op[h] \in AllOps, Sound(op[h]), op'[h] = op[h]
    PROVE  Sound(op[h])'
BY Shapes DEF RowsStay, Sound

\* A step of one handler.
LEMMA OneMoves ==
    ASSUME TypeInv, RowsStay, NEW h \in Handlers, NEW state \in AllOps, Sound(state)',
           op' = [op EXCEPT ![h] = state]
    PROVE  /\ op' \in [Handlers -> AllOps]
           /\ \A g \in Handlers: Sound(op[g])'
<1>1. \A g \in Handlers: op'[g] = IF g = h THEN state ELSE op[g]
  BY DEF TypeInv
<1>2. ASSUME NEW g \in Handlers PROVE Sound(op[g])'
  <2>1. CASE g = h
    BY <1>1, <2>1 DEF Sound
  <2>2. CASE g # h
    BY <1>1, <2>2, SoundStays DEF TypeInv
  <2> QED
    BY <2>1, <2>2
<1> QED
  BY <1>1, <1>2 DEF TypeInv

\* A step of no handler.
LEMMA NoneMoves ==
    ASSUME TypeInv, RowsStay, op' = op
    PROVE  /\ op' \in [Handlers -> AllOps]
           /\ \A g \in Handlers: Sound(op[g])'
BY SoundStays DEF TypeInv

\* A request is counted.
LEMMA SpendTypes ==
    ASSUME TypeInv, NEW service \in Services, Expected(service), Spend(service)
    PROVE  budget' \in [Services -> Nat]
BY DEF TypeInv, TypeOK, Expected, Spend

\* What the tables and handlers must be after a step.
LEMMA TypeInvParts ==
    ASSUME op' \in [Handlers -> AllOps], \A h \in Handlers: Sound(op[h])',
           budget' \in [Services -> Nat],
           DirectoryTypeOK', EmployeesTypeOK', CalendarTypeOK'
    PROVE  TypeInv'
BY DEF TypeInv, TypeOK, AllOps

\* An id that is not used yet.
LEMMA FreshIds ==
    ASSUME NEW ids, NEW S, NEW table \in [ids -> S], HasFreshId(table)
    PROVE  FreshId(table) \in ids /\ table[FreshId(table)] = Null
BY DEF HasFreshId, FreshId

-----------------------------------------------------------------------------
(* The directory.                                                          *)

\* The rows of the create requests are rows.
LEMMA NewEntriesAreRows ==
    ASSUME NEW row \in NewEntries
    PROVE  row \in DirectoryRows /\ row.removed = FALSE
BY DEF NewEntries, DirectoryRows, Kinds

\* The directory's steps keep its types and rows.
LEMMA DirectoryKeepsTypes ==
    ASSUME TypeInv, DirectoryNext
    PROVE  TypeInv'
<1> USE DirectoryAssumption DEF DirectoryTypeOK
<1>0. /\ DirectoryTypeOK /\ EmployeesTypeOK /\ CalendarTypeOK
      /\ op \in [Handlers -> AllOps] /\ budget \in [Services -> Nat]
      /\ "directory" \in Services
  BY DEF TypeInv, TypeOK, Services
<1>1. EmployeesTypeOK' /\ CalendarTypeOK'
  BY <1>0 DEF DirectoryNext, employeeTables, calendarTables, EmployeesTypeOK, CalendarTypeOK,
     HasRecord, IsLogin
<1>2. ASSUME \A id \in Entries: Exists(id) => Exists(id)' PROVE RowsStay
  BY <1>2 DEF DirectoryNext, employeeTables, calendarTables, RowsStay, HasRecord, HasShift,
     HasPattern
<1>3. ASSUME NEW h \in Handlers, DirectoryRequests(h) PROVE TypeInv'
  <2>1. CASE CreateEntry(h)
    <3> PICK row \in NewEntries:
          /\ Begin(h, "directory", [pc |-> "entry.save", row |-> row])
          /\ raced' = IF Rivals(row) # {} THEN raced \cup {row.name} ELSE raced
          /\ UNCHANGED <<directory, renamed>>
      BY <2>1 DEF CreateEntry
    <3> DEFINE state == [pc |-> "entry.save", row |-> row]
    <3>1. state \in AllOps /\ Sound(state)'
      BY NewEntriesAreRows DEF AllOps, DirectoryOps, Sound
    <3>2. RowsStay
      BY <1>2 DEF Exists
    <3>3. DirectoryTypeOK'
      BY <1>0, NewEntriesAreRows DEF DirectoryRows
    <3>4. budget' \in [Services -> Nat] /\ op' = [op EXCEPT ![h] = state]
      BY <1>0, <1>3, SpendTypes DEF DirectoryRequests, Ready, Begin
    <3> HIDE DEF state
    <3> QED
      BY <1>1, <3>1, <3>2, <3>3, <3>4, OneMoves, TypeInvParts
  <2>2. CASE UpdateEntry(h)
    <3> PICK id \in Entries, row \in NewEntries:
          /\ Findable(id)
          /\ Begin(h, "directory", [pc |-> "entry.update", id |-> id, row |-> row])
          /\ UNCHANGED directoryTables
      BY <2>2 DEF UpdateEntry
    <3> DEFINE state == [pc |-> "entry.update", id |-> id, row |-> row]
    <3>1. DirectoryTypeOK' /\ directory' = directory
      BY <1>0 DEF directoryTables
    <3>2. state \in AllOps /\ Sound(state)'
      BY <3>1, NewEntriesAreRows DEF AllOps, DirectoryOps, Sound, Findable, Exists
    <3>3. RowsStay
      BY <1>2, <3>1 DEF Exists
    <3>4. budget' \in [Services -> Nat] /\ op' = [op EXCEPT ![h] = state]
      BY <1>0, <1>3, SpendTypes DEF DirectoryRequests, Ready, Begin
    <3> HIDE DEF state
    <3> QED
      BY <1>1, <3>1, <3>2, <3>3, <3>4, OneMoves, TypeInvParts
  <2> QED
    BY <1>3, <2>1, <2>2 DEF DirectoryRequests
<1>4. ASSUME NEW h \in Handlers, Finish(h), DirectoryTypeOK',
             \A id \in Entries: Exists(id) => Exists(id)'
      PROVE  TypeInv'
  <2>1. RowsStay /\ Sound(Idle)'
    BY <1>2, <1>4 DEF Sound, Idle
  <2> QED
    BY <1>0, <1>1, <1>4, <2>1, IdleSound, OneMoves, TypeInvParts DEF Finish, Goto
<1>5. ASSUME NEW h \in Handlers, SaveEntry(h) PROVE TypeInv'
  <2>1. op[h].row \in DirectoryRows
    BY <1>0, <1>5, Shapes DEF SaveEntry, At
  <2>2. CASE SaveRefused(op[h].row)
    BY <1>0, <1>4, <1>5, <2>2 DEF SaveEntry, Exists
  <2>3. CASE ~SaveRefused(op[h].row)
    <3>1. /\ FreshId(directory) \in Entries
          /\ directory' = [directory EXCEPT ![FreshId(directory)] = op[h].row]
      BY <1>0, <1>5, <2>3, FreshIds DEF SaveEntry
    <3>2. DirectoryTypeOK' /\ \A id \in Entries: Exists(id) => Exists(id)'
      BY <1>0, <1>5, <2>1, <3>1 DEF SaveEntry, Exists
    <3> QED
      BY <1>4, <1>5, <3>2 DEF SaveEntry
  <2> QED
    BY <2>2, <2>3
<1>6. ASSUME NEW h \in Handlers, RenameEntry(h) PROVE TypeInv'
  <2> DEFINE id == op[h].id
             row == [op[h].row EXCEPT !.removed = directory[id].removed]
  <2>1. id \in Entries /\ op[h].row \in DirectoryRows /\ directory[id] \in DirectoryRows
    BY <1>0, <1>6, Shapes DEF RenameEntry, At, TypeInv, Sound, Exists
  <2>2. row \in DirectoryRows
    BY <2>1 DEF DirectoryRows
  <2>3. \/ UNCHANGED <<directory, renamed>>
        \/ /\ directory' = [directory EXCEPT ![id] = row]
           /\ renamed' = renamed \cup {row.name}
    BY <1>6 DEF RenameEntry
  <2>4. row.name \in Titles
    BY <2>2 DEF DirectoryRows
  <2> HIDE DEF row, id
  <2>5. DirectoryTypeOK' /\ \A e \in Entries: Exists(e) => Exists(e)'
    BY <1>0, <1>6, <2>1, <2>2, <2>3, <2>4 DEF RenameEntry, Exists
  <2> QED
    BY <1>4, <1>6, <2>5 DEF RenameEntry
<1>7. CASE RemoveEntry
  <2> PICK id \in Entries:
        /\ Expected("directory") /\ Findable(id)
        /\ directory' = [directory EXCEPT ![id].removed = TRUE]
        /\ Instant("directory")
        /\ UNCHANGED <<renamed, raced>>
    BY <1>7 DEF RemoveEntry
  <2>1. [directory[id] EXCEPT !.removed = TRUE] \in DirectoryRows
    BY <1>0 DEF Findable, Exists, DirectoryRows
  <2>2. directory' = [directory EXCEPT ![id] = [directory[id] EXCEPT !.removed = TRUE]]
    OBVIOUS
  <2>3. DirectoryTypeOK' /\ \A e \in Entries: Exists(e) => Exists(e)'
    BY <1>0, <2>1, <2>2 DEF Exists
  <2>4. budget' \in [Services -> Nat] /\ op' = op
    BY <1>0, SpendTypes DEF Instant
  <2> QED
    BY <1>1, <1>2, <2>3, <2>4, NoneMoves, TypeInvParts
<1> QED
  BY <1>3, <1>5, <1>6, <1>7 DEF DirectoryNext, DirectorySteps

-----------------------------------------------------------------------------
(* Employees.                                                              *)

LEMMA EnrolmentsAreDtos == Enrolments \subseteq EnrolDtos
BY EmployeesAssumption

\* What an enrolment writes.
LEMMA NewRowsAreRows ==
    ASSUME NEW dto \in EnrolDtos
    PROVE  NewRecord(dto) \in EmployeeRows /\ NewLogin(dto) \in UserRows
BY DEF EnrolDtos, NewRecord, NewLogin, EmployeeRows, UserRows, FullNames

\* What the other requests write.
LEMMA ClientRows ==
    ASSUME NEW email \in Emails, NEW name \in Names
    PROVE  [email |-> email, role |-> "client", name |-> [first |-> name, last |-> Null],
            department |-> Null] \in UserRows
BY DEF UserRows, FullNames

LEMMA ChangedLogins ==
    ASSUME NEW row \in UserRows
    PROVE  /\ \A email \in Emails, name \in FullNames:
                [row EXCEPT !.email = email, !.name = name] \in UserRows
           /\ \A name \in FullNames: [row EXCEPT !.name = name] \in UserRows
           /\ \A id \in Entries \cup {Null}: [row EXCEPT !.department = id] \in UserRows
BY DEF UserRows

LEMMA ChangedRecords ==
    ASSUME NEW row \in EmployeeRows
    PROVE  /\ [row EXCEPT !.biometric = TRUE] \in EmployeeRows
           /\ [row EXCEPT !.removed = TRUE] \in EmployeeRows
           /\ \A s \in Shifts: [row EXCEPT !.defaultShift = s] \in EmployeeRows
BY DEF EmployeeRows

\* What an update makes of a row, field by field.
LEMMA ChangedRow ==
    ASSUME NEW row \in EmployeeRows, NEW read \in EmployeeRows, NEW dto \in EmployeeChanges
    PROVE  LET new == Changed(row, dto, read)
           IN  /\ new \in EmployeeRows
               /\ new.code = IF dto.field = "code" THEN dto.value ELSE row.code
               /\ new.device = IF dto.field = "device" THEN dto.value ELSE row.device
               /\ new.department = IF dto.field = "department" THEN dto.value ELSE row.department
               /\ IF dto.field \in {"first", "last"}
                  THEN new.name = [first |-> new.first, last |-> new.last]
                  ELSE new.first = row.first /\ new.last = row.last /\ new.name = row.name
<1>1. CASE dto.field \in {"first", "last"}
  BY <1>1 DEF Changed, EmployeeChanges, EmployeeRows, FullNames
<1>2. CASE dto.field = "code"
  <2>1. Changed(row, dto, read) = [row EXCEPT !.code = dto.value] /\ dto.value \in EmployeeCodes
    BY <1>2 DEF Changed, EmployeeChanges
  <2> QED
    BY <1>2, <2>1 DEF EmployeeRows
<1>3. CASE dto.field = "device"
  <2>1. /\ Changed(row, dto, read) = [row EXCEPT !.device = dto.value]
        /\ dto.value \in Devices \cup {Null}
    BY <1>3 DEF Changed, EmployeeChanges
  <2> QED
    BY <1>3, <2>1 DEF EmployeeRows
<1>4. CASE dto.field = "department"
  <2>1. /\ Changed(row, dto, read) = [row EXCEPT !.department = dto.value]
        /\ dto.value \in Entries \cup {Null}
    BY <1>4 DEF Changed, EmployeeChanges
  <2> QED
    BY <1>4, <2>1 DEF EmployeeRows
<1> QED
  BY <1>1, <1>2, <1>3, <1>4 DEF EmployeeChanges

\* An update of something else leaves code and device alone.
LEMMA ChangedElsewhere ==
    ASSUME NEW row \in EmployeeRows, NEW read \in EmployeeRows, NEW dto \in EmployeeChanges,
           dto.field \notin {"code", "device"}
    PROVE  /\ Changed(row, dto, read).code = row.code
           /\ Changed(row, dto, read).device = row.device
BY ChangedRow

\* An update sets the department it is given, or none.
LEMMA ChangedDepartment ==
    ASSUME NEW row \in EmployeeRows, NEW read \in EmployeeRows, NEW dto \in EmployeeChanges
    PROVE  Changed(row, dto, read).department =
             IF dto.field = "department" THEN dto.value ELSE row.department
BY ChangedRow

\* Only one field of a handler changes by a rival's write.
LEMMA RivalledOps ==
    ASSUME op \in [Handlers -> AllOps], NEW h \in Handlers, NEW code, NEW device
    PROVE  LET new == Rivalled(h, code, device)
           IN  /\ new \in [Handlers -> AllOps]
               /\ new[h] = Idle
               /\ \A g \in Handlers \ {h}:
                    \/ new[g] = op[g]
                    \/ /\ op[g].pc \in {"enrol.login", "enrol.save"}
                       /\ new[g].pc = op[g].pc /\ new[g].user = op[g].user
                       /\ new[g].dto = op[g].dto /\ new[g].rivalled
               /\ \A g \in Handlers \ {h}:
                    (/\ op[g].pc \in {"enrol.login", "enrol.save"}
                     /\ op[g].dto.code = code \/ (device # Null /\ op[g].dto.device = device))
                    => new[g].rivalled
<1> DEFINE new == Rivalled(h, code, device)
<1>1. ASSUME NEW g \in Handlers, op[g].pc \in {"enrol.login", "enrol.save"}
      PROVE  /\ [op[g] EXCEPT !.rivalled = TRUE] \in AllOps
             /\ [op[g] EXCEPT !.rivalled = TRUE].pc = op[g].pc
             /\ [op[g] EXCEPT !.rivalled = TRUE].user = op[g].user
             /\ [op[g] EXCEPT !.rivalled = TRUE].dto = op[g].dto
             /\ [op[g] EXCEPT !.rivalled = TRUE].rivalled
  <2>1. op[g] \in [pc: {"enrol.login", "enrol.save"}, user: Users \cup {Null},
                   dto: Enrolments, rivalled: BOOLEAN]
    BY <1>1, Shapes
  <2>2. [op[g] EXCEPT !.rivalled = TRUE] \in EmployeeOps
    BY <2>1 DEF EmployeeOps
  <2> QED
    BY <2>1, <2>2 DEF AllOps
<1>2. \A g \in Handlers: new[g] =
        IF g # h /\ op[g].pc \in {"enrol.login", "enrol.save"}
             /\ (op[g].dto.code = code \/ (device # Null /\ op[g].dto.device = device))
        THEN [op[g] EXCEPT !.rivalled = TRUE]
        ELSE IF g = h THEN Idle ELSE op[g]
  BY DEF Rivalled
<1>3. new \in [Handlers -> AllOps]
  <2>1. \A g \in Handlers: new[g] \in AllOps
    BY <1>1, <1>2, IdleSound
  <2> QED
    BY <2>1 DEF Rivalled
<1> HIDE DEF new
<1> QED
  BY <1>1, <1>2, <1>3 DEF new

\* The employees' steps keep their types and rows.
LEMMA EmployeesKeepTypes ==
    ASSUME TypeInv, EmployeesNext
    PROVE  TypeInv'
<1> USE DEF EmployeesTypeOK
<1>0. /\ DirectoryTypeOK /\ EmployeesTypeOK /\ CalendarTypeOK
      /\ op \in [Handlers -> AllOps] /\ budget \in [Services -> Nat]
      /\ "employees" \in Services
      /\ Null # Gone /\ Null \notin UserRows /\ Gone \notin UserRows
      /\ Null \notin EmployeeRows
  BY EmployeesAssumption DEF TypeInv, TypeOK, Services
<1>1. DirectoryTypeOK' /\ CalendarTypeOK'
  BY <1>0 DEF EmployeesNext, directoryTables, calendarTables, DirectoryTypeOK, CalendarTypeOK
<1>2. ASSUME \A u \in Users: HasRecord(u) => HasRecord(u)' PROVE RowsStay
  BY <1>2 DEF EmployeesNext, directoryTables, calendarTables, RowsStay, Exists, HasShift,
     HasPattern
<1>3. ASSUME NEW h \in Handlers, NEW state \in AllOps, Sound(state)',
             op' = [op EXCEPT ![h] = state], budget' \in [Services -> Nat],
             EmployeesTypeOK', \A u \in Users: HasRecord(u) => HasRecord(u)'
      PROVE  TypeInv'
  BY <1>1, <1>2, <1>3, OneMoves, TypeInvParts
<1>4. ASSUME NEW h \in Handlers, Finish(h), EmployeesTypeOK',
             \A u \in Users: HasRecord(u) => HasRecord(u)'
      PROVE  TypeInv'
  <2>1. Sound(Idle)'
    BY DEF Sound, Idle
  <2> QED
    BY <1>0, <1>3, <1>4, <2>1, IdleSound DEF Finish, Goto
<1>5. ASSUME Expected("employees"), Instant("employees"), EmployeesTypeOK',
             \A u \in Users: HasRecord(u) => HasRecord(u)'
      PROVE  TypeInv'
  <2>1. budget' \in [Services -> Nat] /\ op' = op
    BY <1>0, <1>5, SpendTypes DEF Instant
  <2> QED
    BY <1>1, <1>2, <1>5, <2>1, NoneMoves, TypeInvParts
<1>6. ASSUME NEW h \in Handlers, Expected("employees"), NEW state \in AllOps, Sound(state),
             Begin(h, "employees", state), UNCHANGED employeeTables
      PROVE  TypeInv'
  <2>1. EmployeesTypeOK' /\ \A u \in Users: HasRecord(u) => HasRecord(u)'
    BY <1>0, <1>6 DEF employeeTables, HasRecord, IsLogin
  <2>2. Sound(state)'
    BY <1>6 DEF EmployeesNext, directoryTables, employeeTables, calendarTables, Sound,
       Exists, HasRecord, HasShift, HasPattern
  <2> QED
    BY <1>0, <1>3, <1>6, <2>1, <2>2, SpendTypes DEF Begin
<1>7. CASE LoginRequests
  <2>0. Expected("employees")
    BY <1>7 DEF LoginRequests
  <2>1. CASE RegisterUser
    <3> PICK email \in Emails, name \in Names:
          /\ HasFreshId(users) /\ ~EmailTaken(email)
          /\ users' = [users EXCEPT ![FreshId(users)] =
               [email |-> email, role |-> "client", name |-> [first |-> name, last |-> Null],
                department |-> Null]]
          /\ Instant("employees")
          /\ UNCHANGED <<employees, writer, excused>>
      BY <2>1 DEF RegisterUser
    <3>1. FreshId(users) \in Users
      BY <1>0, FreshIds
    <3>2. PICK row \in UserRows: users' = [users EXCEPT ![FreshId(users)] = row]
      BY ClientRows
    <3>3. EmployeesTypeOK' /\ \A u \in Users: HasRecord(u) => HasRecord(u)'
      BY <1>0, <3>1, <3>2 DEF HasRecord, IsLogin
    <3> QED
      BY <1>5, <2>0, <3>3
  <2>2. CASE UpdateUser
    <3> PICK u \in Users, email \in Emails, name \in FullNames:
          /\ IsLogin(u)
          /\ users' = [users EXCEPT ![u].email = email, ![u].name = name]
          /\ Instant("employees")
          /\ UNCHANGED <<employees, writer, excused>>
      BY <2>2 DEF UpdateUser
    <3>1. [users[u] EXCEPT !.email = email, !.name = name] \in UserRows
      BY <1>0, ChangedLogins DEF IsLogin
    <3>2. users' = [users EXCEPT ![u] = [users[u] EXCEPT !.email = email, !.name = name]]
      BY <1>0
    <3>3. EmployeesTypeOK' /\ \A v \in Users: HasRecord(v) => HasRecord(v)'
      BY <1>0, <3>1, <3>2 DEF HasRecord, IsLogin
    <3> QED
      BY <1>5, <2>0, <3>3
  <2>3. CASE DeleteUser
    <3> PICK u \in Users:
          /\ IsLogin(u) /\ ~HasRecord(u)
          /\ users' = [users EXCEPT ![u] = Gone]
          /\ Instant("employees")
          /\ UNCHANGED <<employees, writer, excused>>
      BY <2>3 DEF DeleteUser
    <3>1. EmployeesTypeOK' /\ \A v \in Users: HasRecord(v) => HasRecord(v)'
      BY <1>0 DEF HasRecord, IsLogin
    <3> QED
      BY <1>5, <2>0, <3>1
  <2> QED
    BY <1>7, <2>1, <2>2, <2>3 DEF LoginRequests
<1>8. CASE RecordRequests
  <2>0. \E u \in Users, row \in EmployeeRows:
          /\ Active(u)
          /\ employees' = [employees EXCEPT ![u] = row]
          /\ Instant("employees")
          /\ UNCHANGED <<users, writer, excused>>
    <3>1. CASE EnrollBiometric
      <4> PICK u \in Users:
            /\ Active(u)
            /\ employees' = [employees EXCEPT ![u].biometric = TRUE]
            /\ Instant("employees")
            /\ UNCHANGED <<users, writer, excused>>
        BY <3>1 DEF EnrollBiometric
      <4>1. [employees[u] EXCEPT !.biometric = TRUE] \in EmployeeRows
        BY <1>0, ChangedRecords DEF Active, HasRecord
      <4>2. employees' = [employees EXCEPT ![u] = [employees[u] EXCEPT !.biometric = TRUE]]
        BY <1>0
      <4> QED
        BY <4>1, <4>2
    <3>2. CASE RemoveEmployee
      <4> PICK u \in Users:
            /\ Active(u)
            /\ employees' = [employees EXCEPT ![u].removed = TRUE]
            /\ Instant("employees")
            /\ UNCHANGED <<users, writer, excused>>
        BY <3>2 DEF RemoveEmployee
      <4>1. [employees[u] EXCEPT !.removed = TRUE] \in EmployeeRows
        BY <1>0, ChangedRecords DEF Active, HasRecord
      <4>2. employees' = [employees EXCEPT ![u] = [employees[u] EXCEPT !.removed = TRUE]]
        BY <1>0
      <4> QED
        BY <4>1, <4>2
    <3> QED
      BY <1>8, <3>1, <3>2 DEF RecordRequests
  <2> PICK u \in Users, row \in EmployeeRows:
        /\ Active(u)
        /\ employees' = [employees EXCEPT ![u] = row]
        /\ Instant("employees")
        /\ UNCHANGED <<users, writer, excused>>
    BY <2>0
  <2>2. EmployeesTypeOK' /\ \A v \in Users: HasRecord(v) => HasRecord(v)'
    BY <1>0 DEF HasRecord, IsLogin, Active
  <2> QED
    BY <1>5, <1>8, <2>2 DEF RecordRequests
<1>9. ASSUME NEW h \in Handlers, EmployeeRequests(h) PROVE TypeInv'
  <2>0. Expected("employees")
    BY <1>9 DEF EmployeeRequests, Ready
  <2>1. CASE Enrol(h)
    <3> PICK dto \in Enrolments:
          /\ Begin(h, "employees",
                   [pc |-> "enrol.login", user |-> Null, dto |-> dto, rivalled |-> FALSE])
          /\ UNCHANGED employeeTables
      BY <2>1 DEF Enrol
    <3>1. [pc |-> "enrol.login", user |-> Null, dto |-> dto, rivalled |-> FALSE] \in AllOps
      BY DEF AllOps, EmployeeOps
    <3>2. Sound([pc |-> "enrol.login", user |-> Null, dto |-> dto, rivalled |-> FALSE])
      BY DEF Sound
    <3> QED
      BY <1>6, <2>0, <3>1, <3>2
  <2>2. CASE Update(h)
    <3> PICK u \in Users, dto \in EmployeeChanges:
          /\ Active(u)
          /\ Begin(h, "employees",
                   [pc |-> "update.write", user |-> u, dto |-> dto, read |-> employees[u]])
          /\ UNCHANGED employeeTables
      BY <2>2 DEF Update
    <3>1. [pc |-> "update.write", user |-> u, dto |-> dto, read |-> employees[u]] \in AllOps
      BY <1>0 DEF AllOps, EmployeeOps, Active, HasRecord
    <3>2. Sound([pc |-> "update.write", user |-> u, dto |-> dto, read |-> employees[u]])
      BY DEF Sound, Active
    <3> QED
      BY <1>6, <2>0, <3>1, <3>2
  <2> QED
    BY <1>9, <2>1, <2>2 DEF EmployeeRequests
<1>10. ASSUME NEW h \in Handlers, EmployeeSteps(h) PROVE TypeInv'
  <2>0. op[h] \in AllOps /\ Sound(op[h])
    BY <1>0 DEF TypeInv
  <2>1. CASE EnrolLogin(h)
    <3> DEFINE state == [op[h] EXCEPT !.pc = "enrol.save", !.user = FreshId(users)]
    <3>1. /\ FreshId(users) \in Users
          /\ users' = [users EXCEPT ![FreshId(users)] = NewLogin(op[h].dto)]
          /\ op' = [op EXCEPT ![h] = state] /\ budget' = budget
          /\ UNCHANGED <<employees, writer, excused>>
      BY <1>0, <2>1, FreshIds DEF EnrolLogin, Goto
    <3>2. op[h] \in [pc: {"enrol.login", "enrol.save"}, user: Users \cup {Null},
                     dto: Enrolments, rivalled: BOOLEAN]
      BY <2>0, <2>1, Shapes DEF EnrolLogin, At
    <3>3. state \in EmployeeOps /\ state.pc = "enrol.save" /\ state.user \in Users
      BY <3>1, <3>2 DEF EmployeeOps
    <3>4. NewLogin(op[h].dto) \in UserRows
      BY <3>2, EnrolmentsAreDtos, NewRowsAreRows
    <3>5. EmployeesTypeOK' /\ \A u \in Users: HasRecord(u) => HasRecord(u)'
      BY <1>0, <3>1, <3>4 DEF HasRecord, IsLogin
    <3> HIDE DEF state
    <3>6. PICK new: new = state
      OBVIOUS
    <3>7. new \in AllOps /\ Sound(new)'
      BY <3>3, <3>6 DEF AllOps, Sound
    <3> QED
      BY <1>0, <1>3, <3>1, <3>5, <3>6, <3>7
  <2>2. CASE EnrolEmailTaken(h) \/ UpdateRefused(h)
    <3>1. Finish(h) /\ UNCHANGED employeeTables
      BY <2>2 DEF EnrolEmailTaken, UpdateRefused
    <3>2. EmployeesTypeOK' /\ \A u \in Users: HasRecord(u) => HasRecord(u)'
      BY <1>0, <3>1 DEF employeeTables, HasRecord, IsLogin
    <3> QED
      BY <1>4, <3>1, <3>2
  <2>3. ASSUME NEW u \in Users, NEW row \in EmployeeRows, IsLogin(u),
               employees' = [employees EXCEPT ![u] = row],
               writer' \in [Users -> Handlers \cup {Null}], UNCHANGED <<users, excused>>
        PROVE  EmployeesTypeOK' /\ \A v \in Users: HasRecord(v) => HasRecord(v)'
    BY <1>0, <2>3 DEF HasRecord, IsLogin
  <2>4. ASSUME NEW code, NEW device, op' = Rivalled(h, code, device), budget' = budget,
               EmployeesTypeOK', \A u \in Users: HasRecord(u) => HasRecord(u)'
        PROVE  TypeInv'
    <3>1. RowsStay
      BY <1>2, <2>4
    <3>2. /\ op' \in [Handlers -> AllOps] /\ op'[h] = Idle
          /\ \A g \in Handlers \ {h}:
               \/ op'[g] = op[g]
               \/ /\ op[g].pc \in {"enrol.login", "enrol.save"}
                  /\ op'[g].pc = op[g].pc /\ op'[g].user = op[g].user
      <4> HIDE DEF EmployeesTypeOK
      <4> PICK new: new = Rivalled(h, code, device)
        OBVIOUS
      <4>1. /\ new \in [Handlers -> AllOps] /\ new[h] = Idle
            /\ \A g \in Handlers \ {h}:
                 \/ new[g] = op[g]
                 \/ /\ op[g].pc \in {"enrol.login", "enrol.save"}
                    /\ new[g].pc = op[g].pc /\ new[g].user = op[g].user
        BY <1>0, RivalledOps
      <4> QED
        BY <2>4, <4>1
    <3>3. ASSUME NEW g \in Handlers PROVE Sound(op[g])'
      <4>0. \/ g = h \/ op'[g] = op[g]
            \/ /\ g # h /\ op'[g].pc = op[g].pc /\ op'[g].user = op[g].user
               /\ op[g].pc \in {"enrol.login", "enrol.save"}
        BY <3>2
      <4>1. CASE g = h
        BY <3>2, <4>1, IdleSound DEF Sound
      <4>2. CASE op'[g] = op[g]
        BY <1>0, <3>1, <4>2, SoundStays DEF TypeInv
      <4>3. CASE /\ g # h /\ op'[g].pc = op[g].pc /\ op'[g].user = op[g].user
                 /\ op[g].pc \in {"enrol.login", "enrol.save"}
        BY <1>0, <4>3 DEF Sound, TypeInv
      <4> QED
        BY <4>0, <4>1, <4>2, <4>3
    <3> QED
      BY <1>0, <1>1, <2>4, <3>2, <3>3, TypeInvParts
  <2>5. CASE EnrolSave(h)
    <3>1. op[h].user \in Users /\ op[h].dto \in Enrolments /\ IsLogin(op[h].user)
      BY <2>0, <2>5, Shapes DEF EnrolSave, At, Sound, RecordRefused
    <3>2. NewRecord(op[h].dto) \in EmployeeRows
      BY <3>1, EnrolmentsAreDtos, NewRowsAreRows
    <3>3. EmployeesTypeOK' /\ \A u \in Users: HasRecord(u) => HasRecord(u)'
      BY <1>0, <2>3, <2>5, <3>1, <3>2 DEF EnrolSave
    <3> QED
      BY <2>4, <2>5, <3>3 DEF EnrolSave
  <2>6. CASE EnrolSaveFails(h)
    <3>1. op[h].user \in Users
      BY <2>0, <2>6 DEF EnrolSaveFails, At, Sound
    <3>2. EmployeesTypeOK' /\ \A u \in Users: HasRecord(u) => HasRecord(u)'
      BY <1>0, <2>6, <3>1 DEF EnrolSaveFails, HasRecord, IsLogin
    <3> QED
      BY <1>4, <2>6, <3>2 DEF EnrolSaveFails
  <2>7. CASE UpdateWrite(h)
    <3> DEFINE u == op[h].user
               dto == op[h].dto
               row == Changed(employees[u], dto, op[h].read)
    <3>1. /\ op[h] \in [pc: {"update.write", "update.sync"}, user: Users,
                        dto: EmployeeChanges, read: EmployeeRows]
          /\ employees[u] \in EmployeeRows /\ IsLogin(u)
      BY <1>0, <2>0, <2>7, Shapes DEF UpdateWrite, At, Sound, HasRecord
    <3>2. row \in EmployeeRows
      BY <3>1, ChangedRow
    <3>3. /\ employees' = [employees EXCEPT ![u] = row]
          /\ writer' = IF dto.field = "department" THEN [writer EXCEPT ![u] = h] ELSE writer
          /\ IF dto.field \in {"code", "device"}
             THEN op' = Rivalled(h, row.code, row.device)
             ELSE op' = [op EXCEPT ![h].pc = "update.sync"]
          /\ UNCHANGED <<budget, users, excused>>
      BY <2>7 DEF UpdateWrite
    <3>4. u \in Users
      BY <3>1
    <3> HIDE DEF row, u, dto
    <3>5. EmployeesTypeOK' /\ \A v \in Users: HasRecord(v) => HasRecord(v)'
      BY <1>0, <2>3, <3>1, <3>2, <3>3, <3>4
    <3>6. CASE dto.field \in {"code", "device"}
      BY <2>4, <3>3, <3>5, <3>6
    <3>7. CASE dto.field \notin {"code", "device"}
      <4>1. op' = [op EXCEPT ![h] = [op[h] EXCEPT !.pc = "update.sync"]]
        BY <1>0, <3>3, <3>7
      <4>2. [op[h] EXCEPT !.pc = "update.sync"] \in AllOps
        BY <3>1 DEF AllOps, EmployeeOps
      <4>3. PICK new: new = [op[h] EXCEPT !.pc = "update.sync"]
        OBVIOUS
      <4>4. employees'[u] # Null /\ new.pc = "update.sync" /\ new.user = u
        BY <1>0, <3>1, <3>2, <3>3, <3>4, <4>3 DEF u
      <4>5. Sound(new)'
        BY <4>4 DEF Sound, HasRecord
      <4> QED
        BY <1>0, <1>3, <3>3, <3>5, <4>1, <4>2, <4>3, <4>5
    <3> QED
      BY <3>6, <3>7
  <2>8. CASE Sync(h)
    <3> DEFINE u == op[h].user
               dto == op[h].dto
               name == Changed(op[h].read, dto, op[h].read).name
    <3>1. /\ op[h] \in [pc: {"update.write", "update.sync"}, user: Users,
                        dto: EmployeeChanges, read: EmployeeRows]
          /\ users[u] \in UserRows /\ u \in Users
      BY <1>0, <2>0, <2>8, Shapes DEF Sync, At, Sound, IsLogin
    <3>2. name \in FullNames
      BY <3>1, ChangedRow DEF EmployeeRows
    <3>3. dto.field = "department" => dto.value \in Entries \cup {Null}
      BY <3>1 DEF EmployeeChanges
    <3>4. /\ users' = IF dto.field # "department" THEN [users EXCEPT ![u].name = name]
                      ELSE [users EXCEPT ![u].department = dto.value]
          /\ writer' = IF dto.field # "department" THEN writer
                       ELSE [writer EXCEPT ![u] = IF @ = h THEN Null ELSE h]
          /\ UNCHANGED <<employees, excused>>
      BY <2>8 DEF Sync
    <3> HIDE DEF name, u, dto
    <3>5. /\ [users[u] EXCEPT !.name = name] \in UserRows
          /\ dto.field = "department" => [users[u] EXCEPT !.department = dto.value] \in UserRows
      BY <3>1, <3>2, <3>3, ChangedLogins
    <3>6. \E new \in UserRows: users' = [users EXCEPT ![u] = new]
      BY <1>0, <3>1, <3>4, <3>5
    <3>7. writer' \in [Users -> Handlers \cup {Null}]
      BY <1>0, <3>1, <3>4
    <3>8. EmployeesTypeOK' /\ \A v \in Users: HasRecord(v) => HasRecord(v)'
      BY <1>0, <3>1, <3>4, <3>6, <3>7 DEF HasRecord, IsLogin
    <3> QED
      BY <1>4, <2>8, <3>8 DEF Sync
  <2> QED
    BY <1>10, <2>1, <2>2, <2>5, <2>6, <2>7, <2>8 DEF EmployeeSteps
<1> QED
  BY <1>7, <1>8, <1>9, <1>10 DEF EmployeesNext

-----------------------------------------------------------------------------
(* The calendar.                                                           *)

\* What an update makes of a shift.
LEMMA ChangedShift ==
    ASSUME NEW row \in ShiftRows, NEW read \in ShiftRows, NEW dto \in ShiftChanges
    PROVE  [row EXCEPT !.start = Given(dto.start, row.start), !.end = Given(dto.end, row.end),
                       !.isOvernight = Given(dto.isOvernight, Recomputed(dto, read))] \in ShiftRows
<1>1. Given(dto.start, row.start) \in Times /\ Given(dto.end, row.end) \in Times
  BY DEF ShiftRows, ShiftChanges, Given
<1>2. Recomputed(dto, read) \in BOOLEAN
  BY DEF Recomputed, Overnight
<1>3. Given(dto.isOvernight, Recomputed(dto, read)) \in BOOLEAN
  BY <1>2 DEF ShiftChanges, Given
<1> QED
  BY <1>1, <1>3 DEF ShiftRows

\* What an update makes of a pattern.
LEMMA ChangedPattern ==
    ASSUME NEW row \in PatternRows, NEW read \in PatternRows, NEW dto \in PatternChanges
    PROVE  [row EXCEPT !.workingDays = Given(dto.workingDays, row.workingDays),
                       !.weeklyOffDays = Given(dto.weeklyOffDays, row.weeklyOffDays),
                       !.defaultShift = Given(dto.defaultShift, read.defaultShift)]
             \in PatternRows
<1>1. /\ Given(dto.workingDays, row.workingDays) \in SUBSET Weekdays
      /\ Given(dto.weeklyOffDays, row.weeklyOffDays) \in SUBSET Weekdays
      /\ Given(dto.defaultShift, read.defaultShift) \in Shifts \cup {Null}
  BY DEF PatternRows, PatternChanges, Given
<1> QED
  BY <1>1 DEF PatternRows

\* Rows are marked as removed.
LEMMA RemovedRows ==
    /\ \A row \in ShiftRows: [row EXCEPT !.removed = TRUE] \in ShiftRows
    /\ \A row \in PatternRows: [row EXCEPT !.removed = TRUE] \in PatternRows
    /\ \A row \in ShiftPlanRows: [row EXCEPT !.removed = TRUE] \in ShiftPlanRows
    /\ \A row \in PatternPlanRows: [row EXCEPT !.removed = TRUE] \in PatternPlanRows
    /\ \A row \in OverrideRows: [row EXCEPT !.removed = TRUE] \in OverrideRows
BY DEF ShiftRows, PatternRows, ShiftPlanRows, PatternPlanRows, OverrideRows

\* A row of a plan is replaced.
LEMMA ReplacedInPlan ==
    ASSUME NEW S, NEW plan \in Seq(S), NEW i \in DOMAIN plan, NEW row \in S
    PROVE  [plan EXCEPT ![i] = row] \in Seq(S)
<1>1. PICK n \in Nat: plan \in [1..n -> S]
  BY SeqDef
<1>2. [plan EXCEPT ![i] = row] \in [1..n -> S]
  BY <1>1
<1> QED
  BY <1>1, <1>2, SeqDef

\* The halves of a swap are rows.
LEMMA Halves ==
    ASSUME NEW swap \in Swaps
    PROVE  /\ Half(swap, "working_day") \in OverrideRows
           /\ Half(swap, "weekly_off") \in OverrideRows
BY DEF Half, OverrideRows

\* The calendar's steps keep its types and rows.
LEMMA CalendarKeepsTypes ==
    ASSUME TypeInv, CalendarNext
    PROVE  TypeInv'
<1> USE DEF CalendarTypeOK
<1>0. /\ DirectoryTypeOK /\ EmployeesTypeOK /\ CalendarTypeOK
      /\ op \in [Handlers -> AllOps] /\ budget \in [Services -> Nat]
      /\ "calendar" \in Services
      /\ Null \notin ShiftRows /\ Null \notin PatternRows /\ Null \notin OverrideRows
  BY RowsAssumption DEF TypeInv, TypeOK, Services
<1>1. DirectoryTypeOK' /\ EmployeesTypeOK'
  BY <1>0 DEF CalendarNext, directoryTables, employeeTables, DirectoryTypeOK, EmployeesTypeOK,
     HasRecord, IsLogin
<1> DEFINE Kept == /\ CalendarTypeOK'
                   /\ \A s \in Shifts: HasShift(s) => HasShift(s)'
                   /\ \A p \in Patterns: HasPattern(p) => HasPattern(p)'
<1>2. ASSUME Kept PROVE RowsStay
  BY <1>2 DEF CalendarNext, directoryTables, employeeTables, RowsStay, Exists, HasRecord
<1>3. ASSUME NEW h \in Handlers, NEW state \in AllOps, Sound(state)',
             op' = [op EXCEPT ![h] = state], budget' \in [Services -> Nat], Kept
      PROVE  TypeInv'
  BY <1>1, <1>2, <1>3, OneMoves, TypeInvParts
<1>4. ASSUME NEW h \in Handlers, Finish(h), Kept PROVE TypeInv'
  <2>1. Sound(Idle)'
    BY DEF Sound, Idle
  <2> QED
    BY <1>0, <1>3, <1>4, <2>1, IdleSound DEF Finish, Goto
<1>5. ASSUME Expected("calendar"), Instant("calendar"), Kept PROVE TypeInv'
  <2>1. budget' \in [Services -> Nat] /\ op' = op
    BY <1>0, <1>5, SpendTypes DEF Instant
  <2> QED
    BY <1>1, <1>2, <1>5, <2>1, NoneMoves, TypeInvParts
<1>6. ASSUME NEW h \in Handlers, Expected("calendar"), NEW state \in AllOps, Sound(state),
             Begin(h, "calendar", state), UNCHANGED calendarTables
      PROVE  TypeInv'
  <2>1. Kept
    BY <1>0, <1>6 DEF calendarTables, HasShift, HasPattern
  <2>2. Sound(state)'
    BY <1>6 DEF CalendarNext, directoryTables, employeeTables, calendarTables, Sound,
       Exists, HasRecord, HasShift, HasPattern
  <2> QED
    BY <1>0, <1>3, <1>6, <2>1, <2>2, SpendTypes DEF Begin
<1>7. CASE CalendarInstants
  <2>0. Expected("calendar")
    BY <1>7 DEF CalendarInstants
  <2>1. CASE CreateShift
    <3> PICK start \in Times, end \in Times, given \in BOOLEAN \cup {Undefined}:
          /\ HasFreshId(shifts)
          /\ shifts' = [shifts EXCEPT ![FreshId(shifts)] =
               [start |-> start, end |-> end, removed |-> FALSE,
                isOvernight |-> Given(given, Overnight(start, end))]]
          /\ asked' = IF given = Undefined THEN asked ELSE asked \cup {FreshId(shifts)}
          /\ Instant("calendar")
          /\ UNCHANGED <<shiftPlan, patterns, patternPlan, overrides, blurred>>
      BY <2>1 DEF CreateShift
    <3>1. FreshId(shifts) \in Shifts
      BY <1>0, FreshIds
    <3>2. Given(given, Overnight(start, end)) \in BOOLEAN
      <4>1. Overnight(start, end) \in BOOLEAN
        BY DEF Overnight
      <4> QED
        BY <4>1 DEF Given
    <3>3. PICK row \in ShiftRows: shifts' = [shifts EXCEPT ![FreshId(shifts)] = row]
      BY <3>2 DEF ShiftRows
    <3>4. Kept
      BY <1>0, <3>1, <3>3 DEF HasShift, HasPattern
    <3> QED
      BY <1>5, <2>0, <3>4
  <2>2. CASE RemoveShift
    <3> PICK s \in Shifts:
          /\ ShiftFindable(s)
          /\ shifts' = [shifts EXCEPT ![s].removed = TRUE]
          /\ Instant("calendar")
          /\ UNCHANGED <<shiftPlan, patterns, patternPlan, overrides, asked, blurred>>
      BY <2>2 DEF RemoveShift
    <3>1. [shifts[s] EXCEPT !.removed = TRUE] \in ShiftRows
      BY <1>0, RemovedRows DEF ShiftFindable, HasShift
    <3>2. shifts' = [shifts EXCEPT ![s] = [shifts[s] EXCEPT !.removed = TRUE]]
      BY <1>0
    <3>3. Kept
      BY <1>0, <3>1, <3>2 DEF HasShift, HasPattern
    <3> QED
      BY <1>5, <2>0, <3>3
  <2>3. CASE RemoveShiftAssignment
    <3> PICK i \in DOMAIN shiftPlan:
          /\ shiftPlan' = [shiftPlan EXCEPT ![i].removed = TRUE]
          /\ Instant("calendar")
          /\ UNCHANGED <<shifts, patterns, patternPlan, overrides, asked, blurred>>
      BY <2>3 DEF RemoveShiftAssignment
    <3>1. shiftPlan[i] \in ShiftPlanRows
      BY <1>0, ElementOfSeq
    <3>2. shiftPlan' = [shiftPlan EXCEPT ![i] = [shiftPlan[i] EXCEPT !.removed = TRUE]]
      OBVIOUS
    <3>3. shiftPlan' \in Seq(ShiftPlanRows)
      BY <1>0, <3>1, <3>2, RemovedRows, ReplacedInPlan
    <3>4. Kept
      BY <1>0, <3>3 DEF HasShift, HasPattern
    <3> QED
      BY <1>5, <2>0, <3>4
  <2>4. CASE CreatePattern
    <3> PICK working \in (SUBSET Weekdays) \ {{}}, off \in SUBSET Weekdays,
             shift \in Shifts \cup {Null}:
          /\ HasFreshId(patterns)
          /\ patterns' = [patterns EXCEPT ![FreshId(patterns)] =
               [workingDays |-> working, weeklyOffDays |-> off, defaultShift |-> shift,
                removed |-> FALSE]]
          /\ Instant("calendar")
          /\ UNCHANGED <<shifts, shiftPlan, patternPlan, overrides, asked, blurred>>
      BY <2>4 DEF CreatePattern
    <3>1. FreshId(patterns) \in Patterns
      BY <1>0, FreshIds
    <3>2. PICK row \in PatternRows: patterns' = [patterns EXCEPT ![FreshId(patterns)] = row]
      BY DEF PatternRows
    <3>3. Kept
      BY <1>0, <3>1, <3>2 DEF HasShift, HasPattern
    <3> QED
      BY <1>5, <2>0, <3>3
  <2>5. CASE RemovePattern
    <3> PICK p \in Patterns:
          /\ PatternFindable(p)
          /\ patterns' = [patterns EXCEPT ![p].removed = TRUE]
          /\ Instant("calendar")
          /\ UNCHANGED <<shifts, shiftPlan, patternPlan, overrides, asked, blurred>>
      BY <2>5 DEF RemovePattern
    <3>1. [patterns[p] EXCEPT !.removed = TRUE] \in PatternRows
      BY <1>0, RemovedRows DEF PatternFindable, HasPattern
    <3>2. patterns' = [patterns EXCEPT ![p] = [patterns[p] EXCEPT !.removed = TRUE]]
      BY <1>0
    <3>3. Kept
      BY <1>0, <3>1, <3>2 DEF HasShift, HasPattern
    <3> QED
      BY <1>5, <2>0, <3>3
  <2>6. CASE AssignPattern
    <3> PICK p \in Patterns, u \in Users, from \in Days, to \in Days \cup {Null}:
          /\ patternPlan' = Append(patternPlan,
               [user |-> u, pattern |-> p, from |-> from, to |-> to, removed |-> FALSE])
          /\ Instant("calendar")
          /\ UNCHANGED <<shifts, shiftPlan, patterns, overrides, asked, blurred>>
      BY <2>6 DEF AssignPattern
    <3>1. [user |-> u, pattern |-> p, from |-> from, to |-> to, removed |-> FALSE]
            \in PatternPlanRows
      BY DEF PatternPlanRows
    <3>2. patternPlan' \in Seq(PatternPlanRows)
      BY <1>0, <3>1, AppendProperties
    <3>3. Kept
      BY <1>0, <3>2 DEF HasShift, HasPattern
    <3> QED
      BY <1>5, <2>0, <3>3
  <2>7. CASE RemovePatternAssignment
    <3> PICK i \in DOMAIN patternPlan:
          /\ patternPlan' = [patternPlan EXCEPT ![i].removed = TRUE]
          /\ Instant("calendar")
          /\ UNCHANGED <<shifts, shiftPlan, patterns, overrides, asked, blurred>>
      BY <2>7 DEF RemovePatternAssignment
    <3>1. patternPlan[i] \in PatternPlanRows
      BY <1>0, ElementOfSeq
    <3>2. patternPlan' = [patternPlan EXCEPT ![i] = [patternPlan[i] EXCEPT !.removed = TRUE]]
      OBVIOUS
    <3>3. patternPlan' \in Seq(PatternPlanRows)
      BY <1>0, <3>1, <3>2, RemovedRows, ReplacedInPlan
    <3>4. Kept
      BY <1>0, <3>3 DEF HasShift, HasPattern
    <3> QED
      BY <1>5, <2>0, <3>4
  <2>8. CASE RemoveOverride
    <3> PICK key \in Users \X Days:
          /\ overrides[key] # Null
          /\ overrides' = [overrides EXCEPT ![key].removed = TRUE]
          /\ Instant("calendar")
          /\ UNCHANGED <<shifts, shiftPlan, patterns, patternPlan, asked, blurred>>
      BY <2>8 DEF RemoveOverride
    <3>1. [overrides[key] EXCEPT !.removed = TRUE] \in OverrideRows
      BY <1>0, RemovedRows
    <3>2. overrides' = [overrides EXCEPT ![key] = [overrides[key] EXCEPT !.removed = TRUE]]
      BY <1>0
    <3>3. Kept
      BY <1>0, <3>1, <3>2 DEF HasShift, HasPattern
    <3> QED
      BY <1>5, <2>0, <3>3
  <2> QED
    BY <1>7, <2>1, <2>2, <2>3, <2>4, <2>5, <2>6, <2>7, <2>8 DEF CalendarInstants
<1>8. ASSUME NEW h \in Handlers, CalendarRequests(h) PROVE TypeInv'
  <2>0. Expected("calendar")
    BY <1>8 DEF CalendarRequests, Ready
  <2>1. ASSUME NEW state \in CalendarOps, Sound(state), Begin(h, "calendar", state),
               UNCHANGED calendarTables
        PROVE  TypeInv'
    BY <1>6, <2>0, <2>1 DEF AllOps
  <2>2. CASE UpdateShift(h)
    <3> PICK s \in Shifts, dto \in ShiftChanges:
          /\ ShiftFindable(s)
          /\ Begin(h, "calendar",
                   [pc |-> "shift.write", id |-> s, dto |-> dto, read |-> shifts[s]])
          /\ UNCHANGED calendarTables
      BY <2>2 DEF UpdateShift
    <3>1. [pc |-> "shift.write", id |-> s, dto |-> dto, read |-> shifts[s]] \in CalendarOps
      BY <1>0 DEF CalendarOps, ShiftFindable, HasShift
    <3>2. Sound([pc |-> "shift.write", id |-> s, dto |-> dto, read |-> shifts[s]])
      BY DEF Sound, ShiftFindable
    <3> QED
      BY <2>1, <3>1, <3>2
  <2>3. CASE AssignShift(h)
    <3> PICK s \in Shifts, people \in (SUBSET Users) \ {{}}, from \in Days, to \in Days \cup {Null}:
          /\ \A u \in people: Active(u)
          /\ Begin(h, "calendar",
                   [pc |-> "assign.save", people |-> people, shift |-> s, from |-> from,
                    to |-> to])
          /\ UNCHANGED calendarTables
      BY <2>3 DEF AssignShift
    <3>1. [pc |-> "assign.save", people |-> people, shift |-> s, from |-> from, to |-> to]
            \in CalendarOps
      BY DEF CalendarOps
    <3>2. Sound([pc |-> "assign.save", people |-> people, shift |-> s, from |-> from, to |-> to])
      BY DEF Sound, Active
    <3> QED
      BY <2>1, <3>1, <3>2
  <2>4. CASE UpdatePattern(h)
    <3> PICK p \in Patterns, dto \in PatternUpdates:
          /\ PatternFindable(p)
          /\ Begin(h, "calendar",
                   [pc |-> "pattern.write", id |-> p, dto |-> dto, read |-> patterns[p]])
          /\ UNCHANGED calendarTables
      BY <2>4 DEF UpdatePattern
    <3>1. [pc |-> "pattern.write", id |-> p, dto |-> dto, read |-> patterns[p]] \in CalendarOps
      BY <1>0, RowsAssumption DEF CalendarOps, PatternFindable, HasPattern
    <3>2. Sound([pc |-> "pattern.write", id |-> p, dto |-> dto, read |-> patterns[p]])
      BY DEF Sound, PatternFindable
    <3> QED
      BY <2>1, <3>1, <3>2
  <2>5. CASE CreateOverride(h)
    <3> PICK u \in Users, day \in Days, type \in {"working_day", "weekly_off"},
             swap \in {Null} \cup {overrides[key].swap:
                                     key \in {k \in Users \X Days: overrides[k] # Null}}:
          /\ Begin(h, "calendar",
                   [pc |-> "override.save", user |-> u, day |-> day,
                    row |-> [type |-> type, swap |-> swap, removed |-> FALSE]])
          /\ UNCHANGED calendarTables
      BY <2>5 DEF CreateOverride
    <3>1. swap \in Swaps \cup {Null}
      BY <1>0 DEF OverrideRows
    <3>2. [pc |-> "override.save", user |-> u, day |-> day,
           row |-> [type |-> type, swap |-> swap, removed |-> FALSE]] \in CalendarOps
      BY <3>1 DEF CalendarOps, OverrideRows
    <3>3. Sound([pc |-> "override.save", user |-> u, day |-> day,
                 row |-> [type |-> type, swap |-> swap, removed |-> FALSE]])
      BY DEF Sound
    <3> QED
      BY <2>1, <3>2, <3>3
  <2>6. CASE CreateWeekdaySwap(h)
    <3> PICK swap \in Swaps:
          /\ Begin(h, "calendar", [pc |-> "swap.save", swap |-> swap])
          /\ UNCHANGED calendarTables
      BY <2>6 DEF CreateWeekdaySwap
    <3>1. [pc |-> "swap.save", swap |-> swap] \in CalendarOps
      BY DEF CalendarOps
    <3>2. Sound([pc |-> "swap.save", swap |-> swap])
      BY DEF Sound
    <3> QED
      BY <2>1, <3>1, <3>2
  <2> QED
    BY <1>8, <2>2, <2>3, <2>4, <2>5, <2>6 DEF CalendarRequests
<1>9. ASSUME NEW h \in Handlers, CalendarSteps(h) PROVE TypeInv'
  <2>0. op[h] \in AllOps /\ Sound(op[h])
    BY <1>0 DEF TypeInv
  <2>1. CASE WriteShift(h)
    <3> DEFINE s == op[h].id
               dto == op[h].dto
               read == op[h].read
    <3>1. s \in Shifts /\ dto \in ShiftChanges /\ read \in ShiftRows /\ shifts[s] \in ShiftRows
      BY <1>0, <2>0, <2>1, Shapes DEF WriteShift, At, Sound, HasShift
    <3>2. /\ shifts' = [shifts EXCEPT
                ![s].start = Given(dto.start, shifts[s].start),
                ![s].end = Given(dto.end, shifts[s].end),
                ![s].isOvernight = Given(dto.isOvernight, Recomputed(dto, read))]
          /\ asked' \in {asked \ {s}, asked \cup {s}}
          /\ blurred' \in {blurred \ {s}, blurred \cup {s}}
          /\ UNCHANGED <<shiftPlan, patterns, patternPlan, overrides>>
      BY <2>1 DEF WriteShift
    <3> HIDE DEF s, dto, read
    <3>3. PICK row \in ShiftRows: shifts' = [shifts EXCEPT ![s] = row]
      BY <1>0, <3>1, <3>2, ChangedShift
    <3>4. Kept
      BY <1>0, <3>1, <3>2, <3>3 DEF HasShift, HasPattern
    <3> QED
      BY <1>4, <2>1, <3>4 DEF WriteShift
  <2>2. CASE SaveAssignments(h)
    <3>1. op[h] \in [pc: {"assign.save", "assign.default"}, people: SUBSET Users,
                     shift: Shifts, from: Days, to: Days \cup {Null}]
      BY <2>0, <2>2, Shapes DEF SaveAssignments, At
    <3>2. PICK rows \in [1..Cardinality(op[h].people) ->
                          [user: op[h].people, shift: {op[h].shift}, from: {op[h].from},
                           to: {op[h].to}, removed: {FALSE}]]: shiftPlan' = shiftPlan \o rows
      BY <2>2 DEF SaveAssignments
    <3>3. Cardinality(op[h].people) \in Nat
      BY <3>1, EmployeesAssumption, FS_Subset, FS_CardinalityType
    <3>4. [user: op[h].people, shift: {op[h].shift}, from: {op[h].from}, to: {op[h].to},
           removed: {FALSE}] \subseteq ShiftPlanRows
      BY <3>1 DEF ShiftPlanRows
    <3>5. rows \in Seq(ShiftPlanRows)
      <4>1. rows \in [1..Cardinality(op[h].people) -> ShiftPlanRows]
        BY <3>2, <3>4
      <4> QED
        BY <3>3, <4>1, SeqDef
    <3>6. Kept
      <4>1. shiftPlan' \in Seq(ShiftPlanRows)
        BY <1>0, <3>2, <3>5, ConcatProperties
      <4> QED
        BY <1>0, <2>2, <4>1 DEF SaveAssignments, HasShift, HasPattern
    <3>7. PICK new: new = [op[h] EXCEPT !.pc = "assign.default"]
      OBVIOUS
    <3>8. /\ new \in CalendarOps /\ new.pc = "assign.default" /\ new.people = op[h].people
          /\ \A u \in op[h].people: HasRecord(u)
      BY <2>0, <2>2, <3>1, <3>7 DEF CalendarOps, Sound, SaveAssignments, At
    <3>9. new \in AllOps /\ Sound(new)'
      BY <3>8 DEF AllOps, Sound, CalendarNext, employeeTables, HasRecord
    <3> QED
      BY <1>0, <1>3, <2>2, <3>6, <3>7, <3>9 DEF SaveAssignments, Goto
  <2>3. CASE WritePattern(h)
    <3> DEFINE p == op[h].id
               dto == op[h].dto
               read == op[h].read
    <3>1. /\ p \in Patterns /\ dto \in PatternChanges /\ read \in PatternRows
          /\ patterns[p] \in PatternRows
      BY <1>0, <2>0, <2>3, Shapes DEF WritePattern, At, Sound, HasPattern
    <3>2. /\ patterns' = [patterns EXCEPT
                ![p].workingDays = Given(dto.workingDays, patterns[p].workingDays),
                ![p].weeklyOffDays = Given(dto.weeklyOffDays, patterns[p].weeklyOffDays),
                ![p].defaultShift = Given(dto.defaultShift, read.defaultShift)]
          /\ blurred' \in {blurred, blurred \cup {p}}
          /\ UNCHANGED <<shifts, shiftPlan, patternPlan, overrides, asked>>
      BY <2>3 DEF WritePattern
    <3> HIDE DEF p, dto, read
    <3>3. PICK row \in PatternRows: patterns' = [patterns EXCEPT ![p] = row]
      BY <1>0, <3>1, <3>2, ChangedPattern
    <3>4. Kept
      BY <1>0, <3>1, <3>2, <3>3 DEF HasShift, HasPattern
    <3> QED
      BY <1>4, <2>3, <3>4 DEF WritePattern
  <2>4. CASE SaveOverride(h)
    <3>1. op[h].user \in Users /\ op[h].day \in Days /\ op[h].row \in OverrideRows
      BY <2>0, <2>4, Shapes DEF SaveOverride, At
    <3>2. overrides' \in [Users \X Days -> OverrideRows \cup {Null}]
      BY <1>0, <2>4, <3>1 DEF SaveOverride
    <3>3. Kept
      BY <1>0, <2>4, <3>2 DEF SaveOverride, HasShift, HasPattern
    <3> QED
      BY <1>4, <2>4, <3>3 DEF SaveOverride
  <2>5. CASE SaveSwap(h)
    <3>1. op[h].swap \in Swaps
      BY <2>0, <2>5, Shapes DEF SaveSwap, At
    <3>2. op[h].swap.user \in Users /\ op[h].swap.working \in Days /\ op[h].swap.off \in Days
      BY <3>1 DEF Swaps
    <3>3. overrides' \in [Users \X Days -> OverrideRows \cup {Null}]
      BY <1>0, <2>5, <3>1, <3>2, Halves DEF SaveSwap, SwapSaved
    <3>4. Kept
      BY <1>0, <2>5, <3>3 DEF SaveSwap, HasShift, HasPattern
    <3> QED
      BY <1>4, <2>5, <3>4 DEF SaveSwap
  <2> QED
    BY <1>9, <2>1, <2>2, <2>3, <2>4, <2>5 DEF CalendarSteps
<1> QED
  BY <1>7, <1>8, <1>9 DEF CalendarNext

-----------------------------------------------------------------------------
(* Both, crashes and the initial states.                                   *)

\* The step on the default shifts.
LEMMA DefaultShiftKeepsTypes ==
    ASSUME TypeInv, DefaultShiftNext
    PROVE  TypeInv'
<1>0. /\ DirectoryTypeOK /\ EmployeesTypeOK /\ CalendarTypeOK
      /\ op \in [Handlers -> AllOps] /\ budget \in [Services -> Nat]
      /\ Null \notin EmployeeRows
  BY EmployeesAssumption DEF TypeInv, TypeOK
<1> PICK h \in Handlers: UpdateDefaultShift(h)
  BY DEF DefaultShiftNext
<1>1. op[h] \in [pc: {"assign.save", "assign.default"}, people: SUBSET Users,
                 shift: Shifts, from: Days, to: Days \cup {Null}]
  BY <1>0, Shapes DEF UpdateDefaultShift, At
<1>2. \A u \in op[h].people: HasRecord(u)
  BY DEF UpdateDefaultShift, At, TypeInv, Sound
<1>3. \A u \in Users:
        /\ employees'[u] = IF u \in op[h].people
                           THEN [employees[u] EXCEPT !.defaultShift = op[h].shift]
                           ELSE employees[u]
        /\ employees'[u] \in EmployeeRows \cup {Null}
        /\ employees'[u] # Null <=> employees[u] # Null
  <2> TAKE u \in Users
  <2>1. employees[u] \in EmployeeRows \cup {Null} /\ (u \in op[h].people => employees[u] # Null)
    BY <1>0, <1>2 DEF EmployeesTypeOK, HasRecord
  <2>2. employees'[u] = IF u \in op[h].people
                        THEN [employees[u] EXCEPT !.defaultShift = op[h].shift]
                        ELSE employees[u]
    BY DEF UpdateDefaultShift
  <2>3. u \in op[h].people => [employees[u] EXCEPT !.defaultShift = op[h].shift] \in EmployeeRows
    BY <1>1, <2>1, ChangedRecords
  <2> QED
    BY <1>0, <2>1, <2>2, <2>3
<1>4. EmployeesTypeOK'
  <2>1. employees' \in [Users -> EmployeeRows \cup {Null}]
    BY <1>3 DEF UpdateDefaultShift
  <2> QED
    BY <1>0, <1>3, <2>1 DEF EmployeesTypeOK, UpdateDefaultShift, HasRecord, IsLogin
<1>5. DirectoryTypeOK' /\ CalendarTypeOK'
  BY <1>0 DEF DefaultShiftNext, UpdateDefaultShift, directoryTables, calendarTables,
     DirectoryTypeOK, CalendarTypeOK
<1>6. RowsStay
  BY <1>3 DEF DefaultShiftNext, UpdateDefaultShift, directoryTables, calendarTables, RowsStay,
     Exists, HasRecord, HasShift, HasPattern
<1>7. Sound(Idle)'
  BY DEF Sound, Idle
<1> QED
  BY <1>0, <1>4, <1>5, <1>6, <1>7, IdleSound, OneMoves, TypeInvParts
     DEF UpdateDefaultShift, Finish, Goto

\* A crash.
LEMMA CrashKeepsTypes ==
    ASSUME TypeInv, CrashNext
    PROVE  TypeInv'
<1>0. /\ DirectoryTypeOK /\ EmployeesTypeOK /\ CalendarTypeOK
      /\ op \in [Handlers -> AllOps] /\ "crash" \in Services
  BY DEF TypeInv, TypeOK, Services
<1>1. op' \in [Handlers -> AllOps] /\ \A h \in Handlers: op'[h] = Idle
  BY IdleSound DEF CrashNext, Crash
<1>2. \A h \in Handlers: Sound(op[h])'
  BY <1>1 DEF Sound, Idle
<1>3. budget' \in [Services -> Nat]
  BY <1>0, SpendTypes DEF CrashNext, Crash
<1>4. \A h \in Handlers: At(h, "enrol.save") => op[h].user \in Users
  BY DEF TypeInv, Sound, At
<1>5. EmployeesTypeOK'
  BY <1>0, <1>4 DEF CrashNext, CutShort, EmployeesTypeOK, HasRecord, IsLogin
<1>6. DirectoryTypeOK' /\ CalendarTypeOK'
  BY <1>0 DEF CrashNext, directoryTables, calendarTables, DirectoryTypeOK, CalendarTypeOK
<1> QED
  BY <1>1, <1>2, <1>3, <1>5, <1>6, TypeInvParts

\* A table with one row.
LEMMA FirstRows ==
    ASSUME NEW ids, NEW S, NEW row \in S
    PROVE  /\ FirstRow(ids, row) \in [ids -> S \cup {Null}]
           /\ \A id \in ids: FirstRow(ids, row)[id] \in {row, Null}
BY DEF FirstRow

\* The person enrolled before.
LEMMA FirstEmployee ==
    ASSUME Init
    PROVE  \E dto \in EnrolDtos:
             /\ users = FirstRow(Users, NewLogin(dto))
             /\ employees = FirstRow(Users, NewRecord(dto))
             /\ writer = [u \in Users |-> Null] /\ excused = {}
<1> DEFINE dto == [email |-> CHOOSE email \in Emails: TRUE,
                   code |-> CHOOSE code \in EmployeeCodes \ {Blank}: TRUE,
                   device |-> Null, first |-> CHOOSE name \in Names: TRUE,
                   department |-> CHOOSE id \in Entries: TRUE, storable |-> TRUE]
<1>1. /\ (CHOOSE email \in Emails: TRUE) \in Emails
      /\ (CHOOSE code \in EmployeeCodes \ {Blank}: TRUE) \in EmployeeCodes \ {Blank}
      /\ (CHOOSE name \in Names: TRUE) \in Names
      /\ (CHOOSE id \in Entries: TRUE) \in Entries
  BY DirectoryAssumption, EmployeesAssumption
<1>2. dto \in EnrolDtos
  BY <1>1 DEF EnrolDtos
<1>3. /\ users = FirstRow(Users, NewLogin(dto))
      /\ employees = FirstRow(Users, NewRecord(dto))
      /\ writer = [u \in Users |-> Null] /\ excused = {}
  BY DEF Init, EmployeesInit
<1> HIDE DEF dto
<1> QED
  BY <1>2, <1>3

\* The initial states.
LEMMA InitTypes == Init => TypeInv
<1> SUFFICES ASSUME Init PROVE TypeInv
  OBVIOUS
<1>1. op \in [Handlers -> AllOps] /\ \A h \in Handlers: op[h] = Idle
  BY IdleSound DEF Init, CallsInit
<1>2. \A h \in Handlers: Sound(op[h])
  <2> TAKE h \in Handlers
  <2>1. op[h].pc = "idle"
    BY <1>1, IdleSound
  <2> QED
    BY <2>1 DEF Sound
<1>3. budget \in [Services -> Nat]
  BY CallsAssumption DEF Init, CallsInit
<1>4. DirectoryTypeOK
  <2>1. [kind |-> "department", name |-> CHOOSE name \in Titles: TRUE, company |-> Null,
         removed |-> FALSE] \in DirectoryRows
    BY DirectoryAssumption DEF DirectoryRows, Kinds
  <2> QED
    BY <2>1, FirstRows DEF Init, DirectoryInit, DirectoryTypeOK
<1>5. EmployeesTypeOK
  <2> PICK dto \in EnrolDtos:
        /\ users = FirstRow(Users, NewLogin(dto))
        /\ employees = FirstRow(Users, NewRecord(dto))
        /\ writer = [u \in Users |-> Null] /\ excused = {}
    BY FirstEmployee
  <2>3. NewRecord(dto) \in EmployeeRows /\ NewLogin(dto) \in UserRows
    BY NewRowsAreRows
  <2>4. \A u \in Users: HasRecord(u) => IsLogin(u)
    BY <2>3, EmployeesAssumption DEF FirstRow, HasRecord, IsLogin
  <2> QED
    BY <2>3, <2>4, FirstRows DEF EmployeesTypeOK
<1>6. CalendarTypeOK
  <2> DEFINE start == CHOOSE t \in Times: TRUE
             end == CHOOSE t \in Times: t # start
             off == CHOOSE weekday \in Weekdays: TRUE
             shift == [start |-> start, end |-> end, removed |-> FALSE,
                       isOvernight |-> Overnight(start, end)]
             pattern == [workingDays |-> Weekdays \ {off}, weeklyOffDays |-> {off},
                         defaultShift |-> Null, removed |-> FALSE]
  <2>1. start \in Times /\ end \in Times /\ off \in Weekdays
    BY RowsAssumption
  <2>2. /\ shifts = FirstRow(Shifts, shift) /\ patterns = FirstRow(Patterns, pattern)
        /\ shiftPlan = <<>> /\ patternPlan = <<>>
        /\ overrides = [key \in Users \X Days |-> Null]
        /\ asked = {} /\ blurred = {}
    BY DEF Init, CalendarInit
  <2> HIDE DEF start, end, off
  <2>3. pattern \in PatternRows
    BY <2>1 DEF PatternRows
  <2>4. shift \in ShiftRows
    <3>1. Overnight(start, end) \in BOOLEAN
      BY DEF Overnight
    <3> QED
      BY <2>1, <3>1 DEF ShiftRows
  <2> HIDE DEF shift, pattern
  <2>5. <<>> \in Seq(ShiftPlanRows) /\ <<>> \in Seq(PatternPlanRows)
    BY EmptySeq
  <2> QED
    BY <2>2, <2>3, <2>4, <2>5, FirstRows DEF CalendarTypeOK
<1> QED
  BY <1>1, <1>2, <1>3, <1>4, <1>5, <1>6 DEF TypeInv, TypeOK, AllOps

\* A step keeps them.
LEMMA NextKeepsTypes ==
    ASSUME TypeInv, [Next]_vars
    PROVE  TypeInv'
<1>1. CASE UNCHANGED vars
  BY <1>1 DEF vars, calls, directoryTables, employeeTables, calendarTables, TypeInv, TypeOK,
     DirectoryTypeOK, EmployeesTypeOK, CalendarTypeOK, Sound, Exists, HasRecord, IsLogin,
     HasShift, HasPattern
<1> QED
  BY <1>1, DirectoryKeepsTypes, EmployeesKeepTypes, CalendarKeepsTypes, DefaultShiftKeepsTypes,
     CrashKeepsTypes DEF Next

\* The tables and the handlers are always what TypeOK says, and the rows a
\* handler is about to write are there.
THEOREM WorkforceTypeCorrect == Spec => []TypeOK
<1>1. TypeInv => TypeOK
  BY DEF TypeInv
<1> QED
  BY InitTypes, NextKeepsTypes, <1>1, PTL DEF Spec

-----------------------------------------------------------------------------
(* Which handlers a step moves.                                            *)

\* Handlers have moved only from one of these, or idle, to one of these, or
\* idle.
MovedTo(pcs) ==
    \A h \in Handlers:
        \/ op'[h] = op[h]
        \/ op[h].pc \in pcs \cup {"idle"} /\ op'[h].pc \in pcs \cup {"idle"}

LEMMA OneMovedTo ==
    ASSUME op \in [Handlers -> AllOps], NEW h \in Handlers, NEW state, NEW pcs,
           op' = [op EXCEPT ![h] = state],
           op[h].pc \in pcs \cup {"idle"}, state.pc \in pcs \cup {"idle"}
    PROVE  MovedTo(pcs)
BY DEF MovedTo

LEMMA BeginMovesTo ==
    ASSUME op \in [Handlers -> AllOps], NEW h \in Handlers, NEW service, NEW state, NEW pcs,
           Ready(h, service), Begin(h, service, state), state.pc \in pcs
    PROVE  MovedTo(pcs)
BY OneMovedTo DEF Begin, Ready, At

LEMMA DirectoryMoves ==
    ASSUME TypeInv, DirectoryNext
    PROVE  MovedTo({"entry.save", "entry.update"})
<1>0. op \in [Handlers -> AllOps]
  BY DEF TypeInv
<1> DEFINE pcs == {"entry.save", "entry.update"}
<1>1. CASE RemoveEntry
  BY <1>1 DEF RemoveEntry, Instant, MovedTo
<1>2. ASSUME NEW h \in Handlers, DirectoryRequests(h) PROVE MovedTo(pcs)
  <2>1. CASE CreateEntry(h)
    BY <1>0, <1>2, <2>1, BeginMovesTo DEF DirectoryRequests, CreateEntry
  <2>2. CASE UpdateEntry(h)
    BY <1>0, <1>2, <2>2, BeginMovesTo DEF DirectoryRequests, UpdateEntry
  <2> QED
    BY <1>2, <2>1, <2>2 DEF DirectoryRequests
<1>3. ASSUME NEW h \in Handlers, DirectorySteps(h) PROVE MovedTo(pcs)
  <2>1. op' = [op EXCEPT ![h] = Idle] /\ op[h].pc \in pcs
    BY <1>3 DEF DirectorySteps, SaveEntry, RenameEntry, Finish, Goto, At
  <2> QED
    BY <1>0, <2>1, IdleSound, OneMovedTo
<1> QED
  BY <1>1, <1>2, <1>3 DEF DirectoryNext

LEMMA EmployeesMove ==
    ASSUME TypeInv, EmployeesNext
    PROVE  MovedTo({"enrol.login", "enrol.save", "update.write", "update.sync"})
<1>0. op \in [Handlers -> AllOps]
  BY DEF TypeInv
<1> DEFINE pcs == {"enrol.login", "enrol.save", "update.write", "update.sync"}
<1>1. CASE LoginRequests \/ RecordRequests
  BY <1>1 DEF LoginRequests, RegisterUser, UpdateUser, DeleteUser, RecordRequests,
     EnrollBiometric, RemoveEmployee, Instant, MovedTo
<1>2. ASSUME NEW h \in Handlers, EmployeeRequests(h) PROVE MovedTo(pcs)
  <2>1. CASE Enrol(h)
    BY <1>0, <1>2, <2>1, BeginMovesTo DEF EmployeeRequests, Enrol
  <2>2. CASE Update(h)
    BY <1>0, <1>2, <2>2, BeginMovesTo DEF EmployeeRequests, Update
  <2> QED
    BY <1>2, <2>1, <2>2 DEF EmployeeRequests
<1>3. ASSUME NEW h \in Handlers, EmployeeSteps(h) PROVE MovedTo(pcs)
  <2>1. CASE EnrolLogin(h)
    <3>1. op' = [op EXCEPT ![h] = [op[h] EXCEPT !.pc = "enrol.save", !.user = FreshId(users)]]
      BY <2>1 DEF EnrolLogin, Goto
    <3>2. op[h] \in [pc: {"enrol.login", "enrol.save"}, user: Users \cup {Null},
                     dto: Enrolments, rivalled: BOOLEAN]
      BY <1>0, <2>1, Shapes DEF EnrolLogin, At
    <3>3. [op[h] EXCEPT !.pc = "enrol.save", !.user = FreshId(users)].pc = "enrol.save"
      BY <3>2
    <3> QED
      BY <1>0, <3>1, <3>2, <3>3, OneMovedTo
  <2>2. CASE EnrolEmailTaken(h) \/ EnrolSaveFails(h) \/ UpdateRefused(h) \/ Sync(h)
    <3>1. op' = [op EXCEPT ![h] = Idle] /\ op[h].pc \in pcs
      BY <2>2 DEF EnrolEmailTaken, EnrolSaveFails, UpdateRefused, Sync, Finish, Goto, At
    <3> QED
      BY <1>0, <3>1, IdleSound, OneMovedTo
  <2>3. ASSUME NEW code, NEW device, op' = Rivalled(h, code, device), op[h].pc \in pcs
        PROVE  MovedTo(pcs)
    <3> PICK new: new = Rivalled(h, code, device)
      OBVIOUS
    <3>1. /\ new[h] = Idle
          /\ \A g \in Handlers \ {h}:
               \/ new[g] = op[g]
               \/ new[g].pc = op[g].pc /\ op[g].pc \in {"enrol.login", "enrol.save"}
      BY <1>0, RivalledOps
    <3> QED
      BY <2>3, <3>1, IdleSound DEF MovedTo
  <2>4. CASE EnrolSave(h)
    BY <2>3, <2>4 DEF EnrolSave, At
  <2>5. CASE UpdateWrite(h)
    <3>1. CASE op' = [op EXCEPT ![h].pc = "update.sync"]
      <4>1. op[h] \in [pc: {"update.write", "update.sync"}, user: Users,
                       dto: EmployeeChanges, read: EmployeeRows]
        BY <1>0, <2>5, Shapes DEF UpdateWrite, At
      <4>2. op' = [op EXCEPT ![h] = [op[h] EXCEPT !.pc = "update.sync"]]
        BY <1>0, <3>1
      <4>3. [op[h] EXCEPT !.pc = "update.sync"].pc = "update.sync"
        BY <4>1
      <4> QED
        BY <1>0, <4>1, <4>2, <4>3, OneMovedTo
    <3>2. /\ op[h].pc \in pcs
          /\ \/ op' = [op EXCEPT ![h].pc = "update.sync"]
             \/ \E code, device: op' = Rivalled(h, code, device)
      BY <2>5 DEF UpdateWrite, At
    <3> QED
      BY <2>3, <3>1, <3>2
  <2> QED
    BY <1>3, <2>1, <2>2, <2>4, <2>5 DEF EmployeeSteps
<1> QED
  BY <1>1, <1>2, <1>3 DEF EmployeesNext

LEMMA CalendarMoves ==
    ASSUME TypeInv, CalendarNext \/ DefaultShiftNext
    PROVE  MovedTo({"shift.write", "assign.save", "assign.default", "pattern.write",
                    "override.save", "swap.save"})
<1>0. op \in [Handlers -> AllOps]
  BY DEF TypeInv
<1> DEFINE pcs == {"shift.write", "assign.save", "assign.default", "pattern.write",
                   "override.save", "swap.save"}
<1>1. CASE CalendarInstants
  BY <1>1 DEF CalendarInstants, CreateShift, RemoveShift, RemoveShiftAssignment, CreatePattern,
     RemovePattern, AssignPattern, RemovePatternAssignment, RemoveOverride, Instant, MovedTo
<1>2. ASSUME NEW h \in Handlers, CalendarRequests(h) PROVE MovedTo(pcs)
  <2>1. CASE UpdateShift(h)
    BY <1>0, <1>2, <2>1, BeginMovesTo DEF CalendarRequests, UpdateShift
  <2>2. CASE AssignShift(h)
    BY <1>0, <1>2, <2>2, BeginMovesTo DEF CalendarRequests, AssignShift
  <2>3. CASE UpdatePattern(h)
    BY <1>0, <1>2, <2>3, BeginMovesTo DEF CalendarRequests, UpdatePattern
  <2>4. CASE CreateOverride(h)
    BY <1>0, <1>2, <2>4, BeginMovesTo DEF CalendarRequests, CreateOverride
  <2>5. CASE CreateWeekdaySwap(h)
    BY <1>0, <1>2, <2>5, BeginMovesTo DEF CalendarRequests, CreateWeekdaySwap
  <2> QED
    BY <1>2, <2>1, <2>2, <2>3, <2>4, <2>5 DEF CalendarRequests
<1>3. ASSUME NEW h \in Handlers, CalendarSteps(h) \/ UpdateDefaultShift(h) PROVE MovedTo(pcs)
  <2>1. CASE SaveAssignments(h)
    <3>1. op[h] \in [pc: {"assign.save", "assign.default"}, people: SUBSET Users,
                     shift: Shifts, from: Days, to: Days \cup {Null}]
      BY <1>0, <2>1, Shapes DEF SaveAssignments, At
    <3>2. [op[h] EXCEPT !.pc = "assign.default"].pc = "assign.default"
      BY <3>1
    <3> QED
      BY <1>0, <2>1, <3>1, <3>2, OneMovedTo DEF SaveAssignments, Goto
  <2>2. CASE ~SaveAssignments(h)
    <3>1. op' = [op EXCEPT ![h] = Idle] /\ op[h].pc \in pcs
      BY <1>3, <2>2 DEF CalendarSteps, WriteShift, WritePattern, SaveOverride, SaveSwap,
         UpdateDefaultShift, Finish, Goto, At
    <3> QED
      BY <1>0, <3>1, IdleSound, OneMovedTo
  <2> QED
    BY <2>1, <2>2
<1> QED
  BY <1>1, <1>2, <1>3 DEF CalendarNext, DefaultShiftNext

LEMMA CrashMoves ==
    ASSUME CrashNext
    PROVE  \A h \in Handlers: op'[h] = Idle
BY DEF CrashNext, Crash

-----------------------------------------------------------------------------
(* Names.                                                                  *)

\* A handler that is about to save a row has found its name free: a row or
\* another handler that has the same name came later.
NamesInv ==
    /\ NamesNotReused
    /\ \A h \in Handlers, id \in Entries:
         (/\ At(h, "entry.save") /\ op[h].row.kind # "designation"
          /\ Exists(id) /\ SameName(directory[id], op[h].row)) =>
            op[h].row.name \in renamed \cup raced
    /\ \A h, g \in Handlers:
         (/\ h # g /\ At(h, "entry.save") /\ At(g, "entry.save")
          /\ op[h].row.kind # "designation" /\ SameName(op[g].row, op[h].row)) =>
            op[h].row.name \in raced

\* Steps of the other services.
LEMMA NamesElsewhere ==
    ASSUME NamesInv, UNCHANGED directoryTables,
           \A h \in Handlers: op'[h] = op[h] \/ op'[h].pc # "entry.save"
    PROVE  NamesInv'
BY DEF NamesInv, NamesNotReused, directoryTables, Exists, At, SameName

LEMMA DirectoryKeepsNames ==
    ASSUME TypeInv, NamesInv, DirectoryNext
    PROVE  NamesInv'
<1>0. /\ op \in [Handlers -> AllOps]
      /\ directory \in [Entries -> DirectoryRows \cup {Null}]
      /\ Null \notin DirectoryRows
  BY DirectoryAssumption DEF TypeInv, TypeOK, DirectoryTypeOK
<1>1. ASSUME NEW h \in Handlers, Ready(h, "directory"), CreateEntry(h) PROVE NamesInv'
  <2> PICK row \in NewEntries:
        /\ row.kind # "designation" => ~NameTaken(row)
        /\ Begin(h, "directory", [pc |-> "entry.save", row |-> row])
        /\ raced' = IF Rivals(row) # {} THEN raced \cup {row.name} ELSE raced
        /\ UNCHANGED <<directory, renamed>>
    BY <1>1 DEF CreateEntry
  <2>1. \A g \in Handlers: op'[g] = IF g = h THEN [pc |-> "entry.save", row |-> row] ELSE op[g]
    BY <1>0 DEF Begin
  <2>2. op'[h].pc = "entry.save" /\ op'[h].row = row
    BY <2>1
  <2>3. NamesNotReused'
    BY DEF NamesInv, NamesNotReused, Exists, SameName
  <2>4. ASSUME NEW g \in Handlers, NEW id \in Entries, op'[g].pc = "entry.save",
               op'[g].row.kind # "designation", Exists(id), SameName(directory[id], op'[g].row)
        PROVE  op'[g].row.name \in renamed' \cup raced'
    <3>1. CASE g = h
      BY <2>2, <2>4, <3>1 DEF NameTaken
    <3>2. CASE g # h
      BY <2>1, <2>4, <3>2 DEF NamesInv, At
    <3> QED
      BY <3>1, <3>2
  <2>5. ASSUME NEW g \in Handlers, NEW f \in Handlers, g # f, op'[g].pc = "entry.save",
               op'[f].pc = "entry.save", op'[g].row.kind # "designation",
               SameName(op'[f].row, op'[g].row)
        PROVE  op'[g].row.name \in raced'
    <3>1. CASE g = h
      <4>1. f \in Rivals(row)
        BY <2>1, <2>2, <2>5, <3>1 DEF Rivals, At
      <4> QED
        BY <2>2, <3>1, <4>1
    <3>2. CASE f = h
      <4>1. g \in Rivals(row)
        BY <2>1, <2>2, <2>5, <3>2 DEF Rivals, At, SameName
      <4> QED
        BY <2>2, <2>5, <3>2, <4>1 DEF SameName
    <3>3. CASE g # h /\ f # h
      BY <2>1, <2>5, <3>3 DEF NamesInv, At
    <3> QED
      BY <3>1, <3>2, <3>3
  <2> QED
    BY <2>3, <2>4, <2>5 DEF NamesInv, At, Exists, SameName
<1>2. ASSUME NEW h \in Handlers, Ready(h, "directory"), UpdateEntry(h) PROVE NamesInv'
  <2>1. \A g \in Handlers: op'[g] = op[g] \/ op'[g].pc # "entry.save"
    BY <1>0, <1>2 DEF UpdateEntry, Begin
  <2> QED
    BY <1>2, <2>1, NamesElsewhere DEF UpdateEntry
<1>3. ASSUME NEW h \in Handlers, Finish(h)
      PROVE  \A g \in Handlers: op'[g] = IF g = h THEN Idle ELSE op[g]
  BY <1>0, <1>3 DEF Finish, Goto
<1>4. ASSUME NEW h \in Handlers, SaveEntry(h) PROVE NamesInv'
  <2>1. \A g \in Handlers: op'[g] = IF g = h THEN Idle ELSE op[g]
    BY <1>3, <1>4 DEF SaveEntry
  <2>2. \A g \in Handlers: op'[g].pc = "entry.save" => g # h /\ op'[g] = op[g]
    BY <2>1, IdleSound
  <2>3. CASE SaveRefused(op[h].row)
    BY <1>4, <2>2, <2>3, NamesElsewhere DEF SaveEntry, directoryTables
  <2>4. CASE ~SaveRefused(op[h].row)
    <3> DEFINE new == FreshId(directory)
               row == op[h].row
    <3>1. /\ new \in Entries /\ ~Exists(new)
          /\ directory' = [directory EXCEPT ![new] = row]
          /\ UNCHANGED <<renamed, raced>>
          /\ At(h, "entry.save")
      BY <1>0, <1>4, <2>4, FreshIds DEF SaveEntry, Exists
    <3> HIDE DEF new
    <3>2. \A id \in Entries: directory'[id] = IF id = new THEN row ELSE directory[id]
      BY <1>0, <3>1
    <3>3. NamesNotReused'
      <4> SUFFICES ASSUME NEW id \in Entries, NEW other \in Entries, id # other,
                          directory'[id] # Null, directory'[other] # Null,
                          directory'[id].kind # "designation",
                          SameName(directory'[id], directory'[other])
                   PROVE  directory'[id].name \in renamed' \cup raced'
        BY DEF NamesNotReused, Exists, SameName
      <4>1. CASE id = new
        BY <3>1, <3>2, <4>1 DEF NamesInv, Exists, SameName
      <4>2. CASE other = new
        BY <3>1, <3>2, <4>2 DEF NamesInv, Exists, SameName
      <4>3. CASE id # new /\ other # new
        BY <3>1, <3>2, <4>3 DEF NamesInv, NamesNotReused, Exists
      <4> QED
        BY <4>1, <4>2, <4>3
    <3>4. ASSUME NEW g \in Handlers, NEW id \in Entries, op'[g].pc = "entry.save",
                 op'[g].row.kind # "designation", directory'[id] # Null,
                 SameName(directory'[id], op'[g].row)
          PROVE  op'[g].row.name \in renamed' \cup raced'
      <4>1. CASE id = new
        BY <2>2, <3>1, <3>2, <3>4, <4>1 DEF NamesInv, At
      <4>2. CASE id # new
        BY <2>2, <3>1, <3>2, <3>4, <4>2 DEF NamesInv, At, Exists
      <4> QED
        BY <4>1, <4>2
    <3>5. ASSUME NEW g \in Handlers, NEW f \in Handlers, g # f, op'[g].pc = "entry.save",
                 op'[f].pc = "entry.save", op'[g].row.kind # "designation",
                 SameName(op'[f].row, op'[g].row)
          PROVE  op'[g].row.name \in raced'
      BY <2>2, <3>1, <3>5 DEF NamesInv, At
    <3> QED
      BY <3>3, <3>4, <3>5 DEF NamesInv, At, Exists, SameName
  <2> QED
    BY <2>3, <2>4
<1>5. ASSUME NEW h \in Handlers, RenameEntry(h) PROVE NamesInv'
  <2> DEFINE id == op[h].id
             row == [op[h].row EXCEPT !.removed = directory[id].removed]
  <2>1. \A g \in Handlers: op'[g].pc = "entry.save" => g # h /\ op'[g] = op[g]
    BY <1>3, <1>5, IdleSound DEF RenameEntry
  <2>2. \/ UNCHANGED directoryTables
        \/ /\ directory' = [directory EXCEPT ![id] = row]
           /\ renamed' = renamed \cup {row.name}
           /\ raced' = raced
    BY <1>5 DEF RenameEntry, directoryTables
  <2>3. CASE UNCHANGED directoryTables
    BY <2>1, <2>3, NamesElsewhere
  <2>4. ASSUME directory' = [directory EXCEPT ![id] = row], renamed' = renamed \cup {row.name},
               raced' = raced
        PROVE  NamesInv'
    <3> HIDE DEF id, row
    <3>1. \A e \in Entries: directory'[e] = IF e = id THEN row ELSE directory[e]
      BY <1>0, <2>4
    <3>2. NamesNotReused'
      <4> SUFFICES ASSUME NEW e \in Entries, NEW other \in Entries, e # other,
                          directory'[e] # Null, directory'[other] # Null,
                          directory'[e].kind # "designation",
                          SameName(directory'[e], directory'[other])
                   PROVE  directory'[e].name \in renamed' \cup raced'
        BY DEF NamesNotReused, Exists, SameName
      <4>1. CASE e = id \/ other = id
        BY <2>4, <3>1, <4>1 DEF SameName
      <4>2. CASE e # id /\ other # id
        BY <2>4, <3>1, <4>2 DEF NamesInv, NamesNotReused, Exists
      <4> QED
        BY <4>1, <4>2
    <3>3. ASSUME NEW g \in Handlers, NEW e \in Entries, op'[g].pc = "entry.save",
                 op'[g].row.kind # "designation", directory'[e] # Null,
                 SameName(directory'[e], op'[g].row)
          PROVE  op'[g].row.name \in renamed' \cup raced'
      <4>1. CASE e = id
        BY <2>4, <3>1, <3>3, <4>1 DEF SameName
      <4>2. CASE e # id
        BY <2>1, <2>4, <3>1, <3>3, <4>2 DEF NamesInv, At, Exists
      <4> QED
        BY <4>1, <4>2
    <3>4. ASSUME NEW g \in Handlers, NEW f \in Handlers, g # f, op'[g].pc = "entry.save",
                 op'[f].pc = "entry.save", op'[g].row.kind # "designation",
                 SameName(op'[f].row, op'[g].row)
          PROVE  op'[g].row.name \in raced'
      BY <2>1, <2>4, <3>4 DEF NamesInv, At
    <3> QED
      BY <3>2, <3>3, <3>4 DEF NamesInv, At, Exists, SameName
  <2> QED
    BY <2>2, <2>3, <2>4
<1>6. CASE RemoveEntry
  <2> PICK id \in Entries:
        /\ Findable(id)
        /\ directory' = [directory EXCEPT ![id].removed = TRUE]
        /\ Instant("directory")
        /\ UNCHANGED <<renamed, raced>>
    BY <1>6 DEF RemoveEntry
  <2>1. directory[id] \in DirectoryRows
    BY <1>0 DEF Findable, Exists
  <2>2. \A e \in Entries: /\ directory'[e] # Null => directory[e] # Null
                          /\ directory'[e] # Null => /\ directory'[e].kind = directory[e].kind
                                                     /\ directory'[e].name = directory[e].name
                                                     /\ directory'[e].company = directory[e].company
    BY <1>0, <2>1 DEF DirectoryRows
  <2>3. op' = op
    BY DEF Instant
  <2> QED
    BY <2>2, <2>3 DEF NamesInv, NamesNotReused, Exists, SameName, At
<1> QED
  BY <1>1, <1>2, <1>4, <1>5, <1>6 DEF DirectoryNext, DirectoryRequests, DirectorySteps

LEMMA NextKeepsNames ==
    ASSUME TypeInv, NamesInv, [Next]_vars
    PROVE  NamesInv'
<1>1. CASE DirectoryNext
  BY <1>1, DirectoryKeepsNames
<1>2. CASE EmployeesNext
  BY <1>2, EmployeesMove, NamesElsewhere DEF EmployeesNext, MovedTo
<1>3. CASE CalendarNext \/ DefaultShiftNext
  BY <1>3, CalendarMoves, NamesElsewhere DEF CalendarNext, DefaultShiftNext, MovedTo
<1>4. CASE CrashNext
  BY <1>4, CrashMoves, IdleSound, NamesElsewhere DEF CrashNext
<1>5. CASE UNCHANGED vars
  BY <1>5, NamesElsewhere DEF vars, calls
<1> QED
  BY <1>1, <1>2, <1>3, <1>4, <1>5 DEF Next

\* A name is free for good only of what was removed: two departments,
\* companies or branches of a company share one only if an update gave it, or
\* both were created at the same time.
THEOREM NamesNotReusedTheorem == Spec => []NamesNotReused
<1>1. Init => NamesInv
  <2> SUFFICES ASSUME Init PROVE NamesInv
    OBVIOUS
  <2>1. \A h \in Handlers: op[h].pc = "idle"
    BY IdleSound DEF Init, CallsInit
  <2>2. \A id \in Entries: Exists(id) => id = CHOOSE e \in Entries: TRUE
    BY DEF Init, DirectoryInit, FirstRow, Exists
  <2> QED
    BY <2>1, <2>2 DEF NamesInv, NamesNotReused, At
<1>2. NamesInv => NamesNotReused
  BY DEF NamesInv
<1> QED
  BY InitTypes, NextKeepsTypes, <1>1, NextKeepsNames, <1>2, PTL DEF Spec

-----------------------------------------------------------------------------
(* The calendar's rows.                                                    *)

\* What has been read and checked: nothing is working and off, a swap that an
\* override refers to is whole, and one that is being saved has two dates.
Whole(swap) ==
    /\ Overridden(swap.user, swap.working) /\ Overridden(swap.user, swap.off)
    /\ overrides[<<swap.user, swap.working>>].type = "working_day"
    /\ overrides[<<swap.user, swap.off>>].type = "weekly_off"

Checked(o) ==
    /\ o.pc = "pattern.write" => DaysValid(o.dto, o.read)
    /\ o.pc = "override.save" => (o.row.swap # Null => Whole(o.row.swap))
    /\ o.pc = "swap.save" => o.swap.working # o.swap.off

RowsInv ==
    /\ OvernightFollowsTimes
    /\ PatternDaysDisjoint
    /\ SwapsAreWhole
    /\ \A h \in Handlers: Checked(op[h])

\* Steps that leave the calendar's tables alone.
LEMMA RowsElsewhere ==
    ASSUME RowsInv, UNCHANGED calendarTables,
           \A h \in Handlers:
             op'[h] = op[h] \/ op'[h].pc \notin {"pattern.write", "override.save", "swap.save"}
    PROVE  RowsInv'
<1>1. OvernightFollowsTimes' /\ PatternDaysDisjoint' /\ SwapsAreWhole'
  BY DEF RowsInv, calendarTables, OvernightFollowsTimes, PatternDaysDisjoint, SwapsAreWhole,
     HasShift, HasPattern, Overridden
<1>2. ASSUME NEW h \in Handlers PROVE Checked(op[h])'
  <2>1. CASE op'[h] = op[h]
    BY <2>1 DEF RowsInv, Checked, calendarTables, Whole, Overridden
  <2>2. CASE op'[h].pc \notin {"pattern.write", "override.save", "swap.save"}
    BY <2>2 DEF Checked
  <2> QED
    BY <2>1, <2>2
<1> QED
  BY <1>1, <1>2 DEF RowsInv

\* Overrides are never taken away and keep their types.
OverridesKept ==
    \A key \in Users \X Days:
        overrides[key] # Null =>
            overrides'[key] # Null /\ overrides'[key].type = overrides[key].type

LEMMA WholeStays ==
    ASSUME OverridesKept, NEW swap \in Swaps, Whole(swap)
    PROVE  Whole(swap)'
<1>1. <<swap.user, swap.working>> \in Users \X Days /\ <<swap.user, swap.off>> \in Users \X Days
  BY DEF Swaps
<1> QED
  BY <1>1 DEF OverridesKept, Whole, Overridden

\* Handlers that do not move keep what they have checked.
LEMMA CheckedStays ==
    ASSUME TypeInv, RowsInv, OverridesKept, NEW h \in Handlers, op'[h] = op[h]
    PROVE  Checked(op[h])'
<1>1. op[h] \in AllOps
  BY DEF TypeInv
<1>2. op[h].pc = "override.save" => op[h].row.swap \in Swaps \cup {Null}
  BY <1>1, Shapes DEF OverrideRows
<1> QED
  BY <1>2, WholeStays DEF RowsInv, Checked

\* Overrides, one step at a time: a row is added or marked.
LEMMA SwapsStayWhole ==
    ASSUME TypeInv, RowsInv, OverridesKept,
           \A key \in Users \X Days:
             overrides'[key] # Null =>
               \/ overrides[key] # Null /\ overrides'[key].swap = overrides[key].swap
               \/ overrides'[key].swap = Null
               \/ \E swap \in Swaps: overrides'[key].swap = swap /\ Whole(swap)'
    PROVE  SwapsAreWhole'
<1>1. \A key \in Users \X Days: overrides[key] # Null => overrides[key].swap \in Swaps \cup {Null}
  BY DEF TypeInv, TypeOK, CalendarTypeOK, OverrideRows
<1> SUFFICES ASSUME NEW key \in Users \X Days, overrides'[key] # Null,
                    NEW swap, swap = overrides'[key].swap, swap # Null
             PROVE  Whole(swap)'
  BY DEF SwapsAreWhole, Whole
<1>2. CASE overrides[key] # Null /\ overrides'[key].swap = overrides[key].swap
  <2>1. swap \in Swaps /\ Whole(swap)
    BY <1>1, <1>2 DEF RowsInv, SwapsAreWhole, Whole
  <2> QED
    BY <2>1, WholeStays
<1> QED
  BY <1>2

LEMMA CalendarKeepsRows ==
    ASSUME TypeInv, RowsInv, CalendarNext
    PROVE  RowsInv'
<1>0. /\ op \in [Handlers -> AllOps]
      /\ shifts \in [Shifts -> ShiftRows \cup {Null}]
      /\ patterns \in [Patterns -> PatternRows \cup {Null}]
      /\ overrides \in [Users \X Days -> OverrideRows \cup {Null}]
      /\ Null \notin ShiftRows /\ Null \notin PatternRows /\ Null \notin OverrideRows
      /\ Shifts \cap Patterns = {}
  BY RowsAssumption DEF TypeInv, TypeOK, CalendarTypeOK
<1>1. ASSUME UNCHANGED <<shifts, asked, blurred>> PROVE OvernightFollowsTimes'
  BY <1>1 DEF RowsInv, OvernightFollowsTimes, HasShift
<1>2. ASSUME UNCHANGED <<patterns, blurred>> PROVE PatternDaysDisjoint'
  BY <1>2 DEF RowsInv, PatternDaysDisjoint, HasPattern
<1>3. ASSUME UNCHANGED overrides PROVE OverridesKept /\ SwapsAreWhole'
  BY <1>3 DEF RowsInv, OverridesKept, SwapsAreWhole, Overridden
<1>4. ASSUME OverridesKept, OvernightFollowsTimes', PatternDaysDisjoint', SwapsAreWhole',
             \A h \in Handlers: op'[h] = op[h]
               \/ op'[h].pc \notin {"pattern.write", "override.save", "swap.save"}
      PROVE  RowsInv'
  <2>1. ASSUME NEW h \in Handlers PROVE Checked(op[h])'
    <3>1. CASE op'[h] = op[h]
      BY <1>4, <3>1, CheckedStays
    <3>2. CASE op'[h].pc \notin {"pattern.write", "override.save", "swap.save"}
      BY <3>2 DEF Checked
    <3> QED
      BY <1>4, <3>1, <3>2
  <2> QED
    BY <1>4, <2>1 DEF RowsInv
<1>5. CASE CalendarInstants
  <2>0. op' = op
    BY <1>5 DEF CalendarInstants, CreateShift, RemoveShift, RemoveShiftAssignment,
       CreatePattern, RemovePattern, AssignPattern, RemovePatternAssignment, RemoveOverride,
       Instant
  <2>1. CASE CreateShift
    <3> PICK start \in Times, end \in Times, given \in BOOLEAN \cup {Undefined}:
          /\ HasFreshId(shifts)
          /\ shifts' = [shifts EXCEPT ![FreshId(shifts)] =
               [start |-> start, end |-> end, removed |-> FALSE,
                isOvernight |-> Given(given, Overnight(start, end))]]
          /\ asked' = IF given = Undefined THEN asked ELSE asked \cup {FreshId(shifts)}
          /\ UNCHANGED <<patterns, overrides, blurred>>
      BY <2>1 DEF CreateShift
    <3>1. FreshId(shifts) \in Shifts
      BY <1>0, FreshIds
    <3>2. given = Undefined => Given(given, Overnight(start, end)) = Overnight(start, end)
      BY DEF Given
    <3>3. OvernightFollowsTimes'
      BY <1>0, <3>1, <3>2 DEF RowsInv, OvernightFollowsTimes, HasShift
    <3> QED
      BY <1>2, <1>3, <1>4, <2>0, <3>3
  <2>2. CASE RemoveShift
    <3> PICK s \in Shifts:
          /\ ShiftFindable(s)
          /\ shifts' = [shifts EXCEPT ![s].removed = TRUE]
          /\ UNCHANGED <<patterns, overrides, asked, blurred>>
      BY <2>2 DEF RemoveShift
    <3>1. shifts[s] \in ShiftRows
      BY <1>0 DEF ShiftFindable, HasShift
    <3>2. /\ \A t \in Shifts \ {s}: shifts'[t] = shifts[t]
          /\ shifts'[s].start = shifts[s].start /\ shifts'[s].end = shifts[s].end
          /\ shifts'[s].isOvernight = shifts[s].isOvernight
      BY <1>0, <3>1 DEF ShiftRows
    <3>3. OvernightFollowsTimes'
      BY <1>0, <3>1, <3>2 DEF RowsInv, OvernightFollowsTimes, HasShift
    <3> QED
      BY <1>2, <1>3, <1>4, <2>0, <3>3
  <2>3. CASE CreatePattern
    <3> PICK working \in (SUBSET Weekdays) \ {{}}, off \in SUBSET Weekdays,
             shift \in Shifts \cup {Null}:
          /\ HasFreshId(patterns)
          /\ Disjoint(working, off)
          /\ patterns' = [patterns EXCEPT ![FreshId(patterns)] =
               [workingDays |-> working, weeklyOffDays |-> off, defaultShift |-> shift,
                removed |-> FALSE]]
          /\ UNCHANGED <<shifts, overrides, asked, blurred>>
      BY <2>3 DEF CreatePattern
    <3>1. FreshId(patterns) \in Patterns
      BY <1>0, FreshIds
    <3>2. PatternDaysDisjoint'
      BY <1>0, <3>1 DEF RowsInv, PatternDaysDisjoint, HasPattern
    <3> QED
      BY <1>1, <1>3, <1>4, <2>0, <3>2
  <2>4. CASE RemovePattern
    <3> PICK p \in Patterns:
          /\ PatternFindable(p)
          /\ patterns' = [patterns EXCEPT ![p].removed = TRUE]
          /\ UNCHANGED <<shifts, overrides, asked, blurred>>
      BY <2>4 DEF RemovePattern
    <3>1. patterns[p] \in PatternRows
      BY <1>0 DEF PatternFindable, HasPattern
    <3>2. /\ \A q \in Patterns \ {p}: patterns'[q] = patterns[q]
          /\ patterns'[p].workingDays = patterns[p].workingDays
          /\ patterns'[p].weeklyOffDays = patterns[p].weeklyOffDays
      BY <1>0, <3>1 DEF PatternRows
    <3>3. PatternDaysDisjoint'
      BY <1>0, <3>1, <3>2 DEF RowsInv, PatternDaysDisjoint, HasPattern
    <3> QED
      BY <1>1, <1>3, <1>4, <2>0, <3>3
  <2>5. CASE RemoveOverride
    <3> PICK key \in Users \X Days:
          /\ overrides[key] # Null
          /\ overrides' = [overrides EXCEPT ![key].removed = TRUE]
          /\ UNCHANGED <<shifts, patterns, asked, blurred>>
      BY <2>5 DEF RemoveOverride
    <3>1. overrides[key] \in OverrideRows
      BY <1>0
    <3>2. [overrides[key] EXCEPT !.removed = TRUE] \in OverrideRows
      BY <3>1, RemovedRows
    <3>3. /\ \A k \in Users \X Days: k # key => overrides'[k] = overrides[k]
          /\ overrides'[key] = [overrides[key] EXCEPT !.removed = TRUE]
      BY <1>0
    <3>4. /\ overrides'[key].type = overrides[key].type
          /\ overrides'[key].swap = overrides[key].swap
      BY <3>1, <3>3 DEF OverrideRows
    <3>5. OverridesKept
      BY <1>0, <3>2, <3>3, <3>4 DEF OverridesKept
    <3>6. SwapsAreWhole'
      BY <3>1, <3>3, <3>4, <3>5, SwapsStayWhole
    <3> QED
      BY <1>1, <1>2, <1>4, <2>0, <3>5, <3>6
  <2>6. CASE RemoveShiftAssignment \/ AssignPattern \/ RemovePatternAssignment
    <3>1. UNCHANGED <<shifts, patterns, overrides, asked, blurred>>
      BY <2>6 DEF RemoveShiftAssignment, AssignPattern, RemovePatternAssignment
    <3> QED
      BY <1>1, <1>2, <1>3, <1>4, <2>0, <3>1
  <2> QED
    BY <1>5, <2>1, <2>2, <2>3, <2>4, <2>5, <2>6 DEF CalendarInstants
<1>6. ASSUME NEW h \in Handlers, NEW state, Begin(h, "calendar", state), Checked(state),
             UNCHANGED calendarTables
      PROVE  RowsInv'
  <2>1. \A g \in Handlers: op'[g] = IF g = h THEN state ELSE op[g]
    BY <1>0, <1>6 DEF Begin
  <2>2. UNCHANGED <<shifts, asked, patterns, blurred, overrides>>
    BY <1>6 DEF calendarTables
  <2>3. OvernightFollowsTimes' /\ PatternDaysDisjoint' /\ OverridesKept /\ SwapsAreWhole'
    BY <1>1, <1>2, <1>3, <2>2
  <2>4. ASSUME NEW g \in Handlers PROVE Checked(op[g])'
    <3>1. CASE g = h
      BY <1>6, <2>1, <2>2, <3>1 DEF Checked, Whole, Overridden
    <3>2. CASE g # h
      BY <2>1, <2>3, <3>2, CheckedStays
    <3> QED
      BY <3>1, <3>2
  <2> QED
    BY <2>3, <2>4 DEF RowsInv
<1>7. ASSUME NEW h \in Handlers, CalendarRequests(h) PROVE RowsInv'
  <2>1. CASE UpdateShift(h)
    <3> PICK s \in Shifts, dto \in ShiftChanges:
          /\ Begin(h, "calendar",
                   [pc |-> "shift.write", id |-> s, dto |-> dto, read |-> shifts[s]])
          /\ UNCHANGED calendarTables
      BY <2>1 DEF UpdateShift
    <3>1. Checked([pc |-> "shift.write", id |-> s, dto |-> dto, read |-> shifts[s]])
      BY DEF Checked
    <3> QED
      BY <1>6, <3>1
  <2>2. CASE AssignShift(h)
    <3> PICK s \in Shifts, people \in (SUBSET Users) \ {{}}, from \in Days, to \in Days \cup {Null}:
          /\ Begin(h, "calendar",
                   [pc |-> "assign.save", people |-> people, shift |-> s, from |-> from,
                    to |-> to])
          /\ UNCHANGED calendarTables
      BY <2>2 DEF AssignShift
    <3>1. Checked([pc |-> "assign.save", people |-> people, shift |-> s, from |-> from,
                   to |-> to])
      BY DEF Checked
    <3> QED
      BY <1>6, <3>1
  <2>3. CASE UpdatePattern(h)
    <3> PICK p \in Patterns, dto \in PatternUpdates:
          /\ DaysValid(dto, patterns[p])
          /\ Begin(h, "calendar",
                   [pc |-> "pattern.write", id |-> p, dto |-> dto, read |-> patterns[p]])
          /\ UNCHANGED calendarTables
      BY <2>3 DEF UpdatePattern
    <3>1. Checked([pc |-> "pattern.write", id |-> p, dto |-> dto, read |-> patterns[p]])
      BY DEF Checked
    <3> QED
      BY <1>6, <3>1
  <2>4. CASE CreateOverride(h)
    <3> PICK u \in Users, day \in Days, type \in {"working_day", "weekly_off"},
             swap \in {Null} \cup {overrides[key].swap:
                                     key \in {k \in Users \X Days: overrides[k] # Null}}:
          /\ Begin(h, "calendar",
                   [pc |-> "override.save", user |-> u, day |-> day,
                    row |-> [type |-> type, swap |-> swap, removed |-> FALSE]])
          /\ UNCHANGED calendarTables
      BY <2>4 DEF CreateOverride
    <3>1. swap # Null => Whole(swap)
      BY DEF RowsInv, SwapsAreWhole, Whole
    <3>2. Checked([pc |-> "override.save", user |-> u, day |-> day,
                   row |-> [type |-> type, swap |-> swap, removed |-> FALSE]])
      BY <3>1 DEF Checked
    <3> QED
      BY <1>6, <3>2
  <2>5. CASE CreateWeekdaySwap(h)
    <3> PICK swap \in Swaps:
          /\ swap.working # swap.off
          /\ Begin(h, "calendar", [pc |-> "swap.save", swap |-> swap])
          /\ UNCHANGED calendarTables
      BY <2>5 DEF CreateWeekdaySwap
    <3>1. Checked([pc |-> "swap.save", swap |-> swap])
      BY DEF Checked
    <3> QED
      BY <1>6, <3>1
  <2> QED
    BY <1>7, <2>1, <2>2, <2>3, <2>4, <2>5 DEF CalendarRequests
<1>8. ASSUME NEW h \in Handlers, CalendarSteps(h) PROVE RowsInv'
  <2>0. op[h] \in AllOps /\ Sound(op[h]) /\ Checked(op[h])
    BY <1>0 DEF TypeInv, RowsInv
  <2>1. CASE SaveAssignments(h)
    <3>1. UNCHANGED <<shifts, asked, patterns, blurred, overrides>>
      BY <2>1 DEF SaveAssignments
    <3>2. op[h] \in [pc: {"assign.save", "assign.default"}, people: SUBSET Users,
                     shift: Shifts, from: Days, to: Days \cup {Null}]
      BY <2>0, <2>1, Shapes DEF SaveAssignments, At
    <3>3. [op[h] EXCEPT !.pc = "assign.default"].pc = "assign.default"
      BY <3>2
    <3>4. \A g \in Handlers: op'[g] = op[g] \/ op'[g].pc = "assign.default"
      BY <1>0, <2>1, <3>3 DEF SaveAssignments, Goto
    <3> QED
      BY <1>1, <1>2, <1>3, <1>4, <3>1, <3>4
  <2>2. CASE ~SaveAssignments(h)
    <3>0. \A g \in Handlers: op'[g] = op[g] \/ op'[g].pc = "idle"
      BY <1>0, <1>8, <2>2, IdleSound DEF CalendarSteps, WriteShift, WritePattern, SaveOverride,
         SaveSwap, Finish, Goto
    <3>1. CASE WriteShift(h)
      <4> DEFINE s == op[h].id
                 dto == op[h].dto
                 read == op[h].read
                 row == shifts[s]
                 new == [row EXCEPT !.start = Given(dto.start, row.start),
                                    !.end = Given(dto.end, row.end),
                                    !.isOvernight = Given(dto.isOvernight, Recomputed(dto, read))]
      <4>1. s \in Shifts /\ row \in ShiftRows
        BY <1>0, <2>0, <3>1, Shapes DEF WriteShift, At, Sound, HasShift
      <4>2. /\ shifts' = [shifts EXCEPT ![s] = new]
            /\ asked' = IF dto.isOvernight = Undefined THEN asked \ {s} ELSE asked \cup {s}
            /\ blurred' = IF <<row.start, row.end>> = <<read.start, read.end>>
                          THEN blurred \ {s} ELSE blurred \cup {s}
            /\ UNCHANGED <<patterns, overrides>>
        BY <3>1, <4>1, <1>0 DEF WriteShift
      <4>3. /\ new.start = Given(dto.start, row.start) /\ new.end = Given(dto.end, row.end)
            /\ new.isOvernight = Given(dto.isOvernight, Recomputed(dto, read))
        BY <4>1 DEF ShiftRows
      <4>4. dto.isOvernight = Undefined => new.isOvernight = Recomputed(dto, read)
        BY <4>3 DEF Given
      <4>5. <<row.start, row.end>> = <<read.start, read.end>> =>
              Recomputed(dto, read) = Overnight(new.start, new.end)
        BY <4>3 DEF Recomputed
      <4> HIDE DEF s, dto, read, row, new
      <4>6. OvernightFollowsTimes'
        <5> SUFFICES ASSUME NEW t \in Shifts, shifts'[t] # Null, t \notin asked' \cup blurred'
                     PROVE  shifts'[t].isOvernight <=> Overnight(shifts'[t].start, shifts'[t].end)
          BY DEF OvernightFollowsTimes, HasShift, Overnight
        <5>1. CASE t = s
          <6>1. shifts'[t] = new
            BY <1>0, <4>1, <4>2, <5>1
          <6>2. new.isOvernight = Overnight(new.start, new.end)
            BY <4>2, <4>4, <4>5, <5>1
          <6> QED
            BY <6>1, <6>2
        <5>2. CASE t # s
          BY <1>0, <4>2, <5>2 DEF RowsInv, OvernightFollowsTimes, HasShift
        <5> QED
          BY <5>1, <5>2
      <4>7. PatternDaysDisjoint'
        BY <1>0, <4>1, <4>2 DEF RowsInv, PatternDaysDisjoint, HasPattern
      <4> QED
        BY <1>3, <1>4, <3>0, <4>2, <4>6, <4>7
    <3>2. CASE WritePattern(h)
      <4> DEFINE p == op[h].id
                 dto == op[h].dto
                 read == op[h].read
                 row == patterns[p]
                 new == [row EXCEPT
                          !.workingDays = Given(dto.workingDays, row.workingDays),
                          !.weeklyOffDays = Given(dto.weeklyOffDays, row.weeklyOffDays),
                          !.defaultShift = Given(dto.defaultShift, read.defaultShift)]
      <4>1. p \in Patterns /\ row \in PatternRows /\ DaysValid(dto, read)
        BY <1>0, <2>0, <3>2, Shapes DEF WritePattern, At, Sound, HasPattern, Checked
      <4>2. /\ patterns' = [patterns EXCEPT ![p] = new]
            /\ blurred' = IF SameDays(row, read) THEN blurred ELSE blurred \cup {p}
            /\ UNCHANGED <<shifts, overrides, asked>>
        BY <1>0, <3>2, <4>1 DEF WritePattern
      <4>3. /\ new.workingDays = Given(dto.workingDays, row.workingDays)
            /\ new.weeklyOffDays = Given(dto.weeklyOffDays, row.weeklyOffDays)
        BY <4>1 DEF PatternRows
      <4>4. SameDays(row, read) => Disjoint(new.workingDays, new.weeklyOffDays)
        BY <4>1, <4>3 DEF SameDays, DaysValid
      <4> HIDE DEF p, dto, read, row, new
      <4>5. PatternDaysDisjoint'
        <5> SUFFICES ASSUME NEW q \in Patterns, patterns'[q] # Null, q \notin blurred'
                     PROVE  Disjoint(patterns'[q].workingDays, patterns'[q].weeklyOffDays)
          BY DEF PatternDaysDisjoint, HasPattern, Disjoint
        <5>1. CASE q = p
          BY <1>0, <4>1, <4>2, <4>4, <5>1
        <5>2. CASE q # p
          BY <1>0, <4>2, <5>2 DEF RowsInv, PatternDaysDisjoint, HasPattern
        <5> QED
          BY <5>1, <5>2
      <4>6. OvernightFollowsTimes'
        BY <1>0, <4>1, <4>2 DEF RowsInv, OvernightFollowsTimes, HasShift
      <4> QED
        BY <1>3, <1>4, <3>0, <4>2, <4>5, <4>6
    <3>3. CASE SaveOverride(h)
      <4> DEFINE key == <<op[h].user, op[h].day>>
                 row == op[h].row
      <4>1. key \in Users \X Days /\ row \in OverrideRows /\ (row.swap # Null => Whole(row.swap))
        BY <2>0, <3>3, Shapes DEF SaveOverride, At, Checked
      <4>2. /\ UNCHANGED <<shifts, asked, patterns, blurred>>
            /\ \/ overrides' = overrides
               \/ overrides[key] = Null /\ overrides' = [overrides EXCEPT ![key] = row]
        BY <3>3 DEF SaveOverride, Overridden
      <4>3. row.swap \in Swaps \cup {Null}
        BY <4>1 DEF OverrideRows
      <4> HIDE DEF key, row
      <4>4. CASE overrides' = overrides
        BY <1>1, <1>2, <1>3, <1>4, <3>0, <4>2, <4>4
      <4>5. CASE overrides[key] = Null /\ overrides' = [overrides EXCEPT ![key] = row]
        <5>1. \A k \in Users \X Days: overrides'[k] = IF k = key THEN row ELSE overrides[k]
          BY <1>0, <4>5
        <5>2. OverridesKept
          BY <4>5, <5>1 DEF OverridesKept
        <5>3. PICK swap: swap = row.swap
          OBVIOUS
        <5>4. swap = Null \/ (swap \in Swaps /\ Whole(swap)')
          BY <4>1, <4>3, <5>2, <5>3, WholeStays
        <5>5. SwapsAreWhole'
          BY <5>1, <5>2, <5>3, <5>4, SwapsStayWhole
        <5> QED
          BY <1>1, <1>2, <1>4, <3>0, <4>2, <5>2, <5>5
      <4> QED
        BY <4>2, <4>4, <4>5
    <3>4. CASE SaveSwap(h)
      <4> PICK swap: swap = op[h].swap
        OBVIOUS
      <4> DEFINE working == <<swap.user, swap.working>>
                 off == <<swap.user, swap.off>>
      <4>1. swap \in Swaps /\ swap.working # swap.off
        BY <2>0, <3>4, Shapes DEF SaveSwap, At, Checked
      <4>2. working \in Users \X Days /\ off \in Users \X Days /\ working # off
        BY <4>1 DEF Swaps
      <4>3. /\ UNCHANGED <<shifts, asked, patterns, blurred>>
            /\ \/ overrides' = overrides
               \/ /\ overrides[working] = Null /\ overrides[off] = Null
                  /\ overrides' = [overrides EXCEPT ![working] = Half(swap, "working_day"),
                                                    ![off] = Half(swap, "weekly_off")]
        BY <3>4 DEF SaveSwap, SwapSaved, Overridden
      <4>4. CASE overrides' = overrides
        BY <1>1, <1>2, <1>3, <1>4, <3>0, <4>3, <4>4
      <4>5. ASSUME overrides[working] = Null, overrides[off] = Null,
                   overrides' = [overrides EXCEPT ![working] = Half(swap, "working_day"),
                                                  ![off] = Half(swap, "weekly_off")]
            PROVE  RowsInv'
        <5> HIDE DEF working, off
        <5>1. \A k \in Users \X Days:
                overrides'[k] = IF k = off THEN Half(swap, "weekly_off")
                                ELSE IF k = working THEN Half(swap, "working_day")
                                ELSE overrides[k]
          BY <1>0, <4>2, <4>5
        <5>2. OverridesKept
          BY <4>5, <5>1 DEF OverridesKept
        <5>3. /\ Half(swap, "weekly_off") # Null /\ Half(swap, "working_day") # Null
              /\ Half(swap, "weekly_off").type = "weekly_off"
              /\ Half(swap, "working_day").type = "working_day"
              /\ Half(swap, "weekly_off").swap = swap /\ Half(swap, "working_day").swap = swap
          <6>1. Half(swap, "weekly_off") # Null /\ Half(swap, "working_day") # Null
            BY <1>0, <4>1, Halves
          <6> QED
            BY <6>1 DEF Half
        <5>4. Whole(swap)'
          BY <4>2, <5>1, <5>3 DEF Whole, Overridden, working, off
        <5>5. SwapsAreWhole'
          BY <4>1, <5>1, <5>2, <5>3, <5>4, SwapsStayWhole
        <5> QED
          BY <1>1, <1>2, <1>4, <3>0, <4>3, <5>2, <5>5
      <4> QED
        BY <4>3, <4>4, <4>5
    <3> QED
      BY <1>8, <2>2, <3>1, <3>2, <3>3, <3>4 DEF CalendarSteps
  <2> QED
    BY <2>1, <2>2
<1> QED
  BY <1>5, <1>7, <1>8 DEF CalendarNext

LEMMA InitRows == Init => RowsInv
<1> SUFFICES ASSUME Init PROVE RowsInv
  OBVIOUS
<1>1. ASSUME NEW h \in Handlers PROVE Checked(op[h])
  <2>1. op[h].pc = "idle"
    BY IdleSound DEF Init, CallsInit
  <2> QED
    BY <2>1 DEF Checked
<1>2. OvernightFollowsTimes
  BY DEF Init, CalendarInit, OvernightFollowsTimes, HasShift, FirstRow
<1>3. PatternDaysDisjoint
  BY DEF Init, CalendarInit, PatternDaysDisjoint, HasPattern, FirstRow, Disjoint
<1>4. SwapsAreWhole
  BY DEF Init, CalendarInit, SwapsAreWhole
<1> QED
  BY <1>1, <1>2, <1>3, <1>4 DEF RowsInv

LEMMA NextKeepsRows ==
    ASSUME TypeInv, RowsInv, [Next]_vars
    PROVE  RowsInv'
<1>1. CASE CalendarNext
  BY <1>1, CalendarKeepsRows
<1>2. CASE DirectoryNext
  BY <1>2, DirectoryMoves, RowsElsewhere DEF DirectoryNext, MovedTo
<1>3. CASE EmployeesNext
  BY <1>3, EmployeesMove, RowsElsewhere DEF EmployeesNext, MovedTo
<1>4. CASE DefaultShiftNext
  <2> PICK h \in Handlers: UpdateDefaultShift(h)
    BY <1>4 DEF DefaultShiftNext
  <2>1. \A g \in Handlers: op'[g] = op[g] \/ op'[g].pc = "idle"
    BY IdleSound DEF UpdateDefaultShift, Finish, Goto, TypeInv
  <2> QED
    BY <2>1, RowsElsewhere DEF UpdateDefaultShift
<1>5. CASE CrashNext
  BY <1>5, CrashMoves, IdleSound, RowsElsewhere DEF CrashNext
<1>6. CASE UNCHANGED vars
  BY <1>6, RowsElsewhere DEF vars, calls
<1> QED
  BY <1>1, <1>2, <1>3, <1>4, <1>5, <1>6 DEF Next

\* A shift is overnight exactly if it ends no later than it starts, unless a
\* request asked for something else or updates of its times overlapped.
THEOREM OvernightTheorem == Spec => []OvernightFollowsTimes
<1>1. RowsInv => OvernightFollowsTimes
  BY DEF RowsInv
<1> QED
  BY InitTypes, NextKeepsTypes, InitRows, NextKeepsRows, <1>1, PTL DEF Spec

\* No weekday of a pattern is both working and off, unless its days changed
\* under an update of them.
THEOREM PatternDaysTheorem == Spec => []PatternDaysDisjoint
<1>1. RowsInv => PatternDaysDisjoint
  BY DEF RowsInv
<1> QED
  BY InitTypes, NextKeepsTypes, InitRows, NextKeepsRows, <1>1, PTL DEF Spec

\* A swap has both its halves or none, whatever overrides of its dates other
\* requests save at the same time.
THEOREM SwapsAreWholeTheorem == Spec => []SwapsAreWhole
<1>1. RowsInv => SwapsAreWhole
  BY DEF RowsInv
<1> QED
  BY InitTypes, NextKeepsTypes, InitRows, NextKeepsRows, <1>1, PTL DEF Spec

-----------------------------------------------------------------------------
(* Records and logins.                                                     *)

\* The records are there as before, and say the same.
SameRecords ==
    \A u \in Users:
        /\ employees'[u] # Null <=> employees[u] # Null
        /\ employees[u] # Null =>
             /\ employees'[u].code = employees[u].code
             /\ employees'[u].device = employees[u].device
             /\ employees'[u].first = employees[u].first
             /\ employees'[u].last = employees[u].last
             /\ employees'[u].name = employees[u].name
             /\ employees'[u].department = employees[u].department

\* A record is written by an enrolment or an update, or marked.
LEMMA RecordSteps ==
    ASSUME TypeInv, [Next]_vars
    PROVE  \/ SameRecords
           \/ EmployeesNext /\ \E h \in Handlers: EnrolSave(h) \/ UpdateWrite(h)
<1>0. /\ employees \in [Users -> EmployeeRows \cup {Null}]
      /\ Null \notin EmployeeRows
  BY EmployeesAssumption DEF TypeInv, TypeOK, EmployeesTypeOK
<1>1. employees' = employees => SameRecords
  BY DEF SameRecords
<1>2. CASE DirectoryNext \/ CalendarNext \/ CrashNext \/ UNCHANGED vars
  BY <1>1, <1>2 DEF DirectoryNext, CalendarNext, CrashNext, vars, employeeTables
<1>3. CASE DefaultShiftNext
  <2> PICK h \in Handlers: UpdateDefaultShift(h)
    BY <1>3 DEF DefaultShiftNext
  <2>1. op[h] \in AllOps /\ Sound(op[h]) /\ op[h].pc = "assign.default"
    BY DEF TypeInv, UpdateDefaultShift, At
  <2>2. op[h].shift \in Shifts
    BY <2>1, Shapes
  <2>3. ASSUME NEW u \in Users PROVE
          /\ employees'[u] # Null <=> employees[u] # Null
          /\ employees[u] # Null =>
               /\ employees'[u].code = employees[u].code
               /\ employees'[u].device = employees[u].device
               /\ employees'[u].first = employees[u].first
               /\ employees'[u].last = employees[u].last
               /\ employees'[u].name = employees[u].name
               /\ employees'[u].department = employees[u].department
    <3>1. CASE u \in op[h].people
      <4>1. employees[u] # Null
        BY <2>1, <3>1 DEF Sound, HasRecord
      <4>2. employees[u] \in EmployeeRows
        BY <1>0, <4>1
      <4>3. employees'[u] = [employees[u] EXCEPT !.defaultShift = op[h].shift]
        BY <3>1 DEF UpdateDefaultShift
      <4>4. employees'[u] \in EmployeeRows
        BY <2>2, <4>2, <4>3, ChangedRecords
      <4> QED
        BY <1>0, <4>1, <4>2, <4>3, <4>4 DEF EmployeeRows
    <3>2. CASE u \notin op[h].people
      BY <3>2 DEF UpdateDefaultShift
    <3> QED
      BY <3>1, <3>2
  <2> QED
    BY <2>3 DEF SameRecords
<1>4. CASE EmployeesNext
  <2>1. CASE LoginRequests
    BY <1>1, <2>1 DEF LoginRequests, RegisterUser, UpdateUser, DeleteUser
  <2>2. CASE RecordRequests
    <3> PICK u \in Users:
          /\ Active(u)
          /\ \/ employees' = [employees EXCEPT ![u].biometric = TRUE]
             \/ employees' = [employees EXCEPT ![u].removed = TRUE]
      BY <2>2 DEF RecordRequests, EnrollBiometric, RemoveEmployee
    <3>1. employees[u] \in EmployeeRows
      BY <1>0 DEF Active, HasRecord
    <3>2. PICK row: /\ \/ row = [employees[u] EXCEPT !.biometric = TRUE]
                       \/ row = [employees[u] EXCEPT !.removed = TRUE]
                    /\ employees' = [employees EXCEPT ![u] = row]
      BY <1>0
    <3>3. row \in EmployeeRows
      BY <3>1, <3>2, ChangedRecords
    <3>4. /\ row.code = employees[u].code /\ row.device = employees[u].device
          /\ row.first = employees[u].first /\ row.last = employees[u].last
          /\ row.name = employees[u].name /\ row.department = employees[u].department
      BY <3>1, <3>2 DEF EmployeeRows
    <3> QED
      BY <1>0, <3>1, <3>2, <3>3, <3>4 DEF SameRecords
  <2>3. ASSUME NEW h \in Handlers, EmployeeRequests(h) \/ EmployeeSteps(h)
        PROVE  EnrolSave(h) \/ UpdateWrite(h) \/ employees' = employees
    BY <2>3 DEF EmployeeRequests, Enrol, Update, EmployeeSteps, EnrolLogin, EnrolEmailTaken,
       EnrolSaveFails, UpdateRefused, Sync, employeeTables
  <2> QED
    BY <1>1, <1>4, <2>1, <2>2, <2>3 DEF EmployeesNext
<1> QED
  BY <1>2, <1>3, <1>4 DEF Next

\* What an enrolment's save writes.
LEMMA SaveWrites ==
    ASSUME TypeInv, NEW h \in Handlers, EnrolSave(h)
    PROVE  /\ op[h].user \in Users /\ op[h].dto \in Enrolments /\ IsLogin(op[h].user)
           /\ \A u \in Users:
                employees'[u] = IF u = op[h].user THEN NewRecord(op[h].dto) ELSE employees[u]
           /\ NewRecord(op[h].dto) \in EmployeeRows
           /\ UNCHANGED <<users, writer, excused>>
<1>1. op[h] \in AllOps /\ Sound(op[h]) /\ op[h].pc = "enrol.save"
  BY DEF TypeInv, EnrolSave, At
<1>2. op[h].user \in Users /\ op[h].dto \in Enrolments
  BY <1>1, Shapes DEF Sound
<1>3. \A u \in Users:
        employees'[u] = IF u = op[h].user THEN NewRecord(op[h].dto) ELSE employees[u]
  BY DEF EnrolSave, TypeInv, TypeOK, EmployeesTypeOK
<1> QED
  BY <1>2, <1>3, EnrolmentsAreDtos, NewRowsAreRows DEF EnrolSave, RecordRefused

\* What an update writes.
LEMMA UpdateWrites ==
    ASSUME TypeInv, NEW h \in Handlers, UpdateWrite(h)
    PROVE  LET u == op[h].user
               row == Changed(employees[u], op[h].dto, op[h].read)
           IN  /\ u \in Users /\ op[h].dto \in EmployeeChanges /\ op[h].read \in EmployeeRows
               /\ employees[u] \in EmployeeRows /\ row \in EmployeeRows
               /\ \A v \in Users: employees'[v] = IF v = u THEN row ELSE employees[v]
               /\ UNCHANGED <<users, excused>>
<1>1. op[h] \in AllOps /\ Sound(op[h]) /\ op[h].pc = "update.write"
  BY DEF TypeInv, UpdateWrite, At
<1>2. op[h].user \in Users /\ op[h].dto \in EmployeeChanges /\ op[h].read \in EmployeeRows
  BY <1>1, Shapes
<1>3. employees[op[h].user] \in EmployeeRows
  BY <1>1, <1>2 DEF Sound, HasRecord, TypeInv, TypeOK, EmployeesTypeOK
<1>4. Changed(employees[op[h].user], op[h].dto, op[h].read) \in EmployeeRows
  BY <1>2, <1>3, ChangedRow
<1>5. \A v \in Users:
        employees'[v] = IF v = op[h].user
                        THEN Changed(employees[op[h].user], op[h].dto, op[h].read)
                        ELSE employees[v]
  BY DEF UpdateWrite, TypeInv, TypeOK, EmployeesTypeOK
<1> QED
  BY <1>2, <1>3, <1>4, <1>5 DEF UpdateWrite

\* The name of a record is made of its own first and last name, whatever
\* updates of either were under way at the same time.
THEOREM NameOfPartsTheorem == Spec => []NameOfParts
<1>1. Init => NameOfParts
  BY FirstEmployee DEF NameOfParts, HasRecord, FirstRow, NewRecord
<1>2. ASSUME TypeInv, NameOfParts, [Next]_vars PROVE NameOfParts'
  <2>0. Null \notin EmployeeRows
    BY EmployeesAssumption
  <2>1. CASE SameRecords
    BY <1>2, <2>1 DEF NameOfParts, SameRecords, HasRecord
  <2>2. ASSUME NEW h \in Handlers, EnrolSave(h) PROVE NameOfParts'
    <3>1. /\ NewRecord(op[h].dto).name = [first |-> NewRecord(op[h].dto).first,
                                         last |-> NewRecord(op[h].dto).last]
      BY DEF NewRecord
    <3> QED
      BY <1>2, <2>2, <3>1, SaveWrites DEF NameOfParts, HasRecord
  <2>3. ASSUME NEW h \in Handlers, UpdateWrite(h) PROVE NameOfParts'
    <3> DEFINE u == op[h].user
    <3> PICK row: row = Changed(employees[u], op[h].dto, op[h].read)
      OBVIOUS
    <3>1. /\ u \in Users /\ op[h].dto \in EmployeeChanges /\ op[h].read \in EmployeeRows
          /\ employees[u] \in EmployeeRows
          /\ \A v \in Users: employees'[v] = IF v = u THEN row ELSE employees[v]
      BY <1>2, <2>3, UpdateWrites
    <3>2. employees[u].name = [first |-> employees[u].first, last |-> employees[u].last]
      BY <1>2, <2>0, <3>1 DEF NameOfParts, HasRecord
    <3>3. row.name = [first |-> row.first, last |-> row.last]
      BY <3>1, <3>2, ChangedRow
    <3> QED
      BY <1>2, <3>1, <3>3 DEF NameOfParts, HasRecord
  <2> QED
    BY <1>2, <2>1, <2>2, <2>3, RecordSteps
<1> QED
  BY InitTypes, NextKeepsTypes, <1>1, <1>2, PTL DEF Spec

-----------------------------------------------------------------------------
(* Enrolments.                                                             *)

Enrolling == {"enrol.login", "enrol.save"}

\* An enrolment that saves a record has a login of its own for it, and one
\* that nobody rivalled finds its code and its device free.
EnrolInv ==
    /\ EnrolmentsComplete
    /\ \A h \in Handlers: op[h].pc = "enrol.save" =>
         /\ users[op[h].user] # Null /\ employees[op[h].user] = Null
         /\ IsLogin(op[h].user) => users[op[h].user].department = op[h].dto.department
    /\ \A h, g \in Handlers:
         (h # g /\ op[h].pc = "enrol.save" /\ op[g].pc = "enrol.save") => op[h].user # op[g].user
    /\ \A h \in Handlers:
         (op[h].pc \in Enrolling /\ ~op[h].rivalled) =>
            ~Clashes(op[h].dto.code, op[h].dto.device, Null)

\* No login comes for an employee, and those without a record are as before.
SameLogins ==
    \A u \in Users:
        /\ users[u] # Null => users'[u] # Null
        /\ (users'[u] \notin {Null, Gone} /\ users'[u].role = "employee") =>
             users[u] \notin {Null, Gone} /\ users[u].role = "employee"
        /\ (users'[u] \notin {Null, Gone} /\ users[u] # Null /\ employees[u] = Null) =>
             users[u] \notin {Null, Gone} /\ users'[u].department = users[u].department

LEMMA SameRecordsSameClashes ==
    ASSUME SameRecords, NEW code, NEW device, ~Clashes(code, device, Null)
    PROVE  ~Clashes(code, device, Null)'
BY DEF SameRecords, Clashes, CodeTaken, DeviceTaken, HasRecord

\* Steps that save no login and no record of an enrolment.
LEMMA EnrolElsewhere ==
    ASSUME TypeInv, EnrolInv, SameRecords, SameLogins, excused \subseteq excused',
           \A g \in Handlers:
             \/ op'[g] = op[g]
             \/ op[g].pc # "enrol.save" /\ op'[g].pc \notin Enrolling
    PROVE  EnrolInv'
<1>0. \A g \in Handlers: op[g].pc = "enrol.save" => op[g].user \in Users
  BY DEF TypeInv, Sound
<1>1. \A g \in Handlers:
        /\ op[g].pc = "enrol.save" => op'[g] = op[g]
        /\ op'[g].pc \in Enrolling => op'[g] = op[g]
  BY DEF Enrolling
<1>2. EnrolmentsComplete'
  <2> SUFFICES ASSUME NEW u \in Users, users'[u] \notin {Null, Gone},
                      users'[u].role = "employee", employees'[u] = Null,
                      u \notin excused'
               PROVE  \E g \in Handlers: op'[g].pc = "enrol.save" /\ op'[g].user = u
    BY DEF EnrolmentsComplete, IsLogin, HasRecord, At
  <2>1. PICK g \in Handlers: op[g].pc = "enrol.save" /\ op[g].user = u
    BY DEF EnrolInv, EnrolmentsComplete, SameLogins, SameRecords, IsLogin, HasRecord, At
  <2> QED
    BY <1>1, <2>1
<1>3. ASSUME NEW g \in Handlers, op'[g].pc = "enrol.save"
      PROVE  /\ users'[op'[g].user] # Null /\ employees'[op'[g].user] = Null
             /\ IsLogin(op[g].user)' => users'[op'[g].user].department = op'[g].dto.department
  BY <1>0, <1>1, <1>3 DEF EnrolInv, Enrolling, SameLogins, SameRecords, IsLogin
<1>4. ASSUME NEW g \in Handlers, op'[g].pc \in Enrolling, ~op'[g].rivalled
      PROVE  ~Clashes(op[g].dto.code, op[g].dto.device, Null)'
  <2> PICK dto: dto = op[g].dto
    OBVIOUS
  <2>1. op'[g].dto = dto /\ ~Clashes(dto.code, dto.device, Null)
    BY <1>1, <1>4 DEF EnrolInv
  <2>2. ~Clashes(dto.code, dto.device, Null)'
    BY <2>1, SameRecordsSameClashes
  <2> QED
    BY <2>1, <2>2 DEF Clashes, CodeTaken, DeviceTaken, HasRecord
<1>5. \A g, f \in Handlers:
        (g # f /\ op'[g].pc = "enrol.save" /\ op'[f].pc = "enrol.save") =>
           op'[g].user # op'[f].user
  BY <1>1 DEF EnrolInv, Enrolling
<1> QED
  BY <1>2, <1>3, <1>4, <1>5 DEF EnrolInv

\* What a write of a record makes of the other enrolments.
LEMMA WritesRival ==
    ASSUME TypeInv, NEW h \in Handlers, EnrolSave(h) \/ UpdateWrite(h)
    PROVE  /\ op'[h].pc \in {"idle", "update.sync"}
           /\ \A g \in Handlers \ {h}:
                /\ op'[g].pc = op[g].pc
                /\ op[g].pc \notin Enrolling => op'[g] = op[g]
                /\ op[g].pc \in Enrolling =>
                     /\ op'[g].user = op[g].user /\ op'[g].dto = op[g].dto
                     /\ ~op'[g].rivalled => ~op[g].rivalled
                     /\ (~op'[g].rivalled /\ ~Clashes(op[g].dto.code, op[g].dto.device, Null)) =>
                          /\ op[g].dto.code # Blank =>
                               op[g].dto.code # employees'[op[h].user].code
                          /\ op[g].dto.device \notin {Null, Blank} =>
                               op[g].dto.device # employees'[op[h].user].device
<1>0. op \in [Handlers -> AllOps]
  BY DEF TypeInv
<1>1. ASSUME NEW code, NEW device, op' = Rivalled(h, code, device)
      PROVE  /\ op'[h].pc = "idle"
             /\ \A g \in Handlers \ {h}:
                  /\ op'[g].pc = op[g].pc
                  /\ op[g].pc \notin Enrolling => op'[g] = op[g]
                  /\ op[g].pc \in Enrolling =>
                       /\ op'[g].user = op[g].user /\ op'[g].dto = op[g].dto
                       /\ ~op'[g].rivalled => ~op[g].rivalled
                       /\ ~op'[g].rivalled =>
                            /\ op[g].dto.code # code
                            /\ device # Null => op[g].dto.device # device
  <2> PICK new: new = Rivalled(h, code, device)
    OBVIOUS
  <2>1. /\ new[h] = Idle
        /\ \A g \in Handlers \ {h}:
             \/ new[g] = op[g]
             \/ /\ op[g].pc \in Enrolling
                /\ new[g].pc = op[g].pc /\ new[g].user = op[g].user
                /\ new[g].dto = op[g].dto /\ new[g].rivalled
        /\ \A g \in Handlers \ {h}:
             (/\ op[g].pc \in Enrolling
              /\ op[g].dto.code = code \/ (device # Null /\ op[g].dto.device = device))
             => new[g].rivalled
    BY <1>0, RivalledOps DEF Enrolling
  <2> QED
    BY <1>1, <2>1, IdleSound
<1>2. CASE EnrolSave(h)
  <2>1. op' = Rivalled(h, op[h].dto.code, op[h].dto.device)
    BY <1>2 DEF EnrolSave
  <2>2. employees'[op[h].user] = NewRecord(op[h].dto)
    BY <1>2, SaveWrites
  <2>3. /\ employees'[op[h].user].code = op[h].dto.code
        /\ employees'[op[h].user].device = op[h].dto.device
    BY <2>2 DEF NewRecord
  <2> QED
    BY <1>1, <2>1, <2>3
<1>3. CASE UpdateWrite(h)
  <2> PICK row: row = Changed(employees[op[h].user], op[h].dto, op[h].read)
    OBVIOUS
  <2>1. /\ op[h].user \in Users /\ employees[op[h].user] \in EmployeeRows
        /\ op[h].dto \in EmployeeChanges /\ op[h].read \in EmployeeRows
        /\ employees'[op[h].user] = row
    BY <1>3, UpdateWrites
  <2>2. CASE op[h].dto.field \in {"code", "device"}
    <3>1. op' = Rivalled(h, row.code, row.device)
      BY <1>3, <2>2 DEF UpdateWrite
    <3>2. PICK code, device: /\ code = row.code /\ code = employees'[op[h].user].code
                             /\ device = row.device /\ device = employees'[op[h].user].device
      BY <2>1
    <3>3. op' = Rivalled(h, code, device)
      BY <3>1, <3>2
    <3>4. ASSUME NEW g \in Handlers \ {h}, op[g].pc \in Enrolling, ~op'[g].rivalled
          PROVE  /\ op[g].dto.code # employees'[op[h].user].code
                 /\ op[g].dto.device \notin {Null, Blank} =>
                      op[g].dto.device # employees'[op[h].user].device
      <4>1. op[g].dto.code # code /\ (device # Null => op[g].dto.device # device)
        BY <1>1, <3>3, <3>4
      <4> QED
        BY <3>2, <4>1
    <3>5. /\ op'[h].pc = "idle"
          /\ \A g \in Handlers \ {h}:
               /\ op'[g].pc = op[g].pc
               /\ op[g].pc \notin Enrolling => op'[g] = op[g]
               /\ op[g].pc \in Enrolling =>
                    /\ op'[g].user = op[g].user /\ op'[g].dto = op[g].dto
                    /\ ~op'[g].rivalled => ~op[g].rivalled
      BY <1>1, <3>3
    <3> QED
      BY <3>4, <3>5
  <2>3. CASE op[h].dto.field \notin {"code", "device"}
    <3>1. op' = [op EXCEPT ![h].pc = "update.sync"]
      BY <1>3, <2>3 DEF UpdateWrite
    <3>2. op[h] \in [pc: {"update.write", "update.sync"}, user: Users,
                     dto: EmployeeChanges, read: EmployeeRows]
      BY <1>0, <1>3, Shapes DEF UpdateWrite, At
    <3>3. op'[h].pc = "update.sync" /\ \A g \in Handlers \ {h}: op'[g] = op[g]
      BY <1>0, <3>1, <3>2
    <3>4. row.code = employees[op[h].user].code /\ row.device = employees[op[h].user].device
      BY <2>1, <2>3, ChangedElsewhere
    <3>5. op[h].user \in Users \ {Null} /\ employees[op[h].user] # Null
      BY <2>1, EmployeesAssumption
    <3> QED
      BY <2>1, <3>3, <3>4, <3>5 DEF Clashes, CodeTaken, DeviceTaken, HasRecord
  <2> QED
    BY <2>2, <2>3
<1> QED
  BY <1>2, <1>3

\* A write of a record.
LEMMA WritesKeepEnrolments ==
    ASSUME TypeInv, EnrolInv, NEW h \in Handlers, EnrolSave(h) \/ UpdateWrite(h)
    PROVE  EnrolInv'
<1> DEFINE u == op[h].user
<1>0. /\ \A g \in Handlers: op[g].pc = "enrol.save" => op[g].user \in Users
      /\ Null \notin EmployeeRows
  BY EmployeesAssumption DEF TypeInv, Sound
<1>1. /\ u \in Users /\ employees'[u] # Null
      /\ \A v \in Users \ {u}: employees'[v] = employees[v]
      /\ UNCHANGED <<users, excused>>
  <2>1. CASE EnrolSave(h)
    BY <1>0, <2>1, SaveWrites
  <2>2. CASE UpdateWrite(h)
    BY <1>0, <2>2, UpdateWrites
  <2> QED
    BY <2>1, <2>2
<1>2. /\ op'[h].pc \notin Enrolling
      /\ \A g \in Handlers \ {h}:
           /\ op'[g].pc = op[g].pc
           /\ op[g].pc \in Enrolling =>
                /\ op'[g].user = op[g].user /\ op'[g].dto = op[g].dto
                /\ ~op'[g].rivalled => ~op[g].rivalled
                /\ (~op'[g].rivalled /\ ~Clashes(op[g].dto.code, op[g].dto.device, Null)) =>
                     /\ op[g].dto.code # Blank => op[g].dto.code # employees'[u].code
                     /\ op[g].dto.device \notin {Null, Blank} =>
                          op[g].dto.device # employees'[u].device
  BY WritesRival DEF Enrolling
<1>3. \A g \in Handlers \ {h}: op[g].pc = "enrol.save" => op[g].user # u
  <2>1. CASE EnrolSave(h)
    BY <2>1 DEF EnrolInv, EnrolSave, At
  <2>2. CASE UpdateWrite(h)
    <3>1. employees[u] # Null
      BY <2>2 DEF UpdateWrite, At, TypeInv, Sound, HasRecord
    <3> QED
      BY <3>1 DEF EnrolInv
  <2> QED
    BY <2>1, <2>2
<1>4. UpdateWrite(h) => employees[u] # Null /\ op[h].pc # "enrol.save"
  BY DEF UpdateWrite, At, TypeInv, Sound, HasRecord
<1> HIDE DEF u
<1>5. EnrolmentsComplete'
  <2> SUFFICES ASSUME NEW v \in Users, users'[v] \notin {Null, Gone},
                      users'[v].role = "employee", employees'[v] = Null, v \notin excused'
               PROVE  \E g \in Handlers: op'[g].pc = "enrol.save" /\ op'[g].user = v
    BY DEF EnrolmentsComplete, IsLogin, HasRecord, At
  <2>1. PICK g \in Handlers: op[g].pc = "enrol.save" /\ op[g].user = v
    BY <1>1 DEF EnrolInv, EnrolmentsComplete, IsLogin, HasRecord, At
  <2>2. g # h
    BY <1>1, <2>1 DEF u
  <2> QED
    BY <1>2, <2>1, <2>2 DEF Enrolling
<1>6. \A g \in Handlers: op'[g].pc = "enrol.save" =>
        /\ g # h /\ op[g].pc = "enrol.save" /\ op'[g].user = op[g].user /\ op'[g].dto = op[g].dto
        /\ op[g].user \in Users \ {u}
  BY <1>0, <1>2, <1>3 DEF Enrolling
<1>7. ASSUME NEW g \in Handlers, op'[g].pc = "enrol.save"
      PROVE  /\ users'[op'[g].user] # Null /\ employees'[op'[g].user] = Null
             /\ IsLogin(op[g].user)' => users'[op'[g].user].department = op'[g].dto.department
  BY <1>1, <1>6, <1>7 DEF EnrolInv, IsLogin
<1>8. ASSUME NEW g \in Handlers, op'[g].pc \in Enrolling, ~op'[g].rivalled
      PROVE  ~Clashes(op[g].dto.code, op[g].dto.device, Null)'
  <2>1. g # h /\ op[g].pc \in Enrolling
    BY <1>2, <1>8
  <2>2. PICK dto: dto = op[g].dto
    OBVIOUS
  <2>3. op'[g].dto = dto /\ ~Clashes(dto.code, dto.device, Null)
    BY <1>2, <1>8, <2>1, <2>2 DEF EnrolInv
  <2>4. /\ dto.code # Blank => dto.code # employees'[u].code
        /\ dto.device \notin {Null, Blank} => dto.device # employees'[u].device
    BY <1>2, <1>8, <2>1, <2>2, <2>3
  <2> QED
    BY <1>1, <2>3, <2>4 DEF Clashes, CodeTaken, DeviceTaken, HasRecord
<1>9. \A g, f \in Handlers:
        (g # f /\ op'[g].pc = "enrol.save" /\ op'[f].pc = "enrol.save") =>
           op'[g].user # op'[f].user
  BY <1>6 DEF EnrolInv
<1> QED
  BY <1>5, <1>7, <1>8, <1>9 DEF EnrolInv

\* What the requests and steps make of the logins.
LEMMA LoginSteps ==
    ASSUME TypeInv, EmployeesNext
    PROVE  \/ SameLogins
           \/ \E h \in Handlers: EnrolLogin(h)
<1>0. /\ users \in [Users -> UserRows \cup {Null, Gone}]
      /\ Null # Gone /\ Null \notin UserRows /\ Gone \notin UserRows
      /\ \A u \in Users: employees[u] # Null => users[u] \notin {Null, Gone}
  BY EmployeesAssumption DEF TypeInv, TypeOK, EmployeesTypeOK, HasRecord, IsLogin
<1>1. users' = users => SameLogins
  BY DEF SameLogins
<1>2. CASE LoginRequests
  <2>1. CASE RegisterUser
    <3> PICK email \in Emails, name \in Names:
          /\ HasFreshId(users)
          /\ users' = [users EXCEPT ![FreshId(users)] =
               [email |-> email, role |-> "client", name |-> [first |-> name, last |-> Null],
                department |-> Null]]
      BY <2>1 DEF RegisterUser
    <3>1. FreshId(users) \in Users /\ users[FreshId(users)] = Null
      <4>1. PICK u \in Users: users[u] = Null
        BY <1>0 DEF HasFreshId
      <4> QED
        BY <1>0, <4>1 DEF FreshId
    <3>2. \A u \in Users: users'[u] =
            IF u = FreshId(users)
            THEN [email |-> email, role |-> "client", name |-> [first |-> name, last |-> Null],
                  department |-> Null]
            ELSE users[u]
      BY <1>0
    <3>3. ASSUME NEW u \in Users, u = FreshId(users)
          PROVE  users'[u].role = "client" /\ users[u] = Null
      BY <3>1, <3>2, <3>3
    <3>4. \A u \in Users: u # FreshId(users) => users'[u] = users[u]
      BY <3>2
    <3> QED
      BY <3>3, <3>4 DEF SameLogins
  <2>2. CASE UpdateUser
    <3> PICK u \in Users, email \in Emails, name \in FullNames:
          /\ IsLogin(u)
          /\ users' = [users EXCEPT ![u].email = email, ![u].name = name]
      BY <2>2 DEF UpdateUser
    <3>1. users[u] \in UserRows
      BY <1>0 DEF IsLogin
    <3>2. users'[u].role = users[u].role /\ users'[u].department = users[u].department
      BY <1>0, <3>1 DEF UserRows
    <3>3. users' = [users EXCEPT ![u] = [users[u] EXCEPT !.email = email, !.name = name]]
      BY <1>0
    <3>4. users'[u] \in UserRows
      <4>1. users'[u] = [users[u] EXCEPT !.email = email, !.name = name]
        BY <1>0, <3>3
      <4> QED
        BY <3>1, <4>1 DEF UserRows
    <3>5. \A v \in Users: v # u => users'[v] = users[v]
      BY <1>0, <3>3
    <3> QED
      BY <1>0, <3>1, <3>2, <3>4, <3>5 DEF SameLogins
  <2>3. CASE DeleteUser
    <3> PICK u \in Users: IsLogin(u) /\ users' = [users EXCEPT ![u] = Gone]
      BY <2>3 DEF DeleteUser
    <3>1. \A v \in Users: users'[v] = IF v = u THEN Gone ELSE users[v]
      BY <1>0
    <3> QED
      BY <1>0, <3>1 DEF SameLogins
  <2> QED
    BY <1>2, <2>1, <2>2, <2>3 DEF LoginRequests
<1>3. ASSUME NEW h \in Handlers, Sync(h) PROVE SameLogins
  <2> PICK u: u = op[h].user
    OBVIOUS
  <2>1. u \in Users /\ users[u] \in UserRows /\ employees[u] # Null
    <3>1. op[h] \in AllOps /\ Sound(op[h]) /\ op[h].pc = "update.sync"
      BY <1>3 DEF TypeInv, Sync, At
    <3>2. u \in Users /\ employees[u] # Null
      BY <3>1, Shapes DEF Sound, HasRecord
    <3> QED
      BY <1>0, <3>2
  <2>2. \E value: \/ users' = [users EXCEPT ![u].name = value]
                  \/ users' = [users EXCEPT ![u].department = value]
    BY <1>3 DEF Sync
  <2>3. PICK row: users' = [users EXCEPT ![u] = row] /\ row.role = users[u].role
    <3> PICK value: \/ users' = [users EXCEPT ![u].name = value]
                    \/ users' = [users EXCEPT ![u].department = value]
      BY <2>2
    <3>1. CASE users' = [users EXCEPT ![u].name = value]
      <4>1. users' = [users EXCEPT ![u] = [users[u] EXCEPT !.name = value]]
        BY <3>1
      <4>2. [users[u] EXCEPT !.name = value].role = users[u].role
        BY <2>1 DEF UserRows
      <4> QED
        BY <4>1, <4>2
    <3>2. CASE users' = [users EXCEPT ![u].department = value]
      <4>1. users' = [users EXCEPT ![u] = [users[u] EXCEPT !.department = value]]
        BY <3>2
      <4>2. [users[u] EXCEPT !.department = value].role = users[u].role
        BY <2>1 DEF UserRows
      <4> QED
        BY <4>1, <4>2
    <3> QED
      BY <3>1, <3>2
  <2>4. \A v \in Users: users'[v] = IF v = u THEN row ELSE users[v]
    BY <1>0, <2>3
  <2>5. users'[u] # Null
    <3>1. EmployeesTypeOK' /\ employees'[u] = employees[u]
      BY <1>3, EmployeesKeepTypes DEF TypeInv, TypeOK, Sync
    <3> QED
      BY <2>1, <3>1 DEF EmployeesTypeOK, HasRecord, IsLogin
  <2> QED
    BY <1>0, <2>1, <2>3, <2>4, <2>5 DEF SameLogins
<1>4. CASE RecordRequests
  BY <1>1, <1>4 DEF RecordRequests, EnrollBiometric, RemoveEmployee
<1>5. ASSUME NEW h \in Handlers, EmployeeRequests(h) \/ EmployeeSteps(h)
      PROVE  Sync(h) \/ EnrolLogin(h) \/ users' = users
  BY <1>5 DEF EmployeeRequests, Enrol, Update, EmployeeSteps, EnrolEmailTaken, EnrolSave,
     EnrolSaveFails, UpdateWrite, UpdateRefused, employeeTables
<1> QED
  BY <1>1, <1>2, <1>3, <1>4, <1>5 DEF EmployeesNext

\* An enrolment begins.
LEMMA EnrolBegins ==
    ASSUME TypeInv, EnrolInv, NEW h \in Handlers, Ready(h, "employees"), Enrol(h)
    PROVE  EnrolInv'
<1> PICK dto \in Enrolments:
      /\ ~Clashes(dto.code, dto.device, Null)
      /\ Begin(h, "employees",
               [pc |-> "enrol.login", user |-> Null, dto |-> dto, rivalled |-> FALSE])
      /\ UNCHANGED employeeTables
  BY DEF Enrol
<1>1. /\ op'[h].pc = "enrol.login" /\ op'[h].dto = dto
      /\ \A g \in Handlers \ {h}: op'[g] = op[g]
      /\ op[h].pc = "idle"
  BY DEF TypeInv, Begin, Ready, At
<1>2. UNCHANGED <<users, employees, excused>>
  BY DEF employeeTables
<1>3. EnrolmentsComplete'
  BY <1>1, <1>2 DEF EnrolInv, EnrolmentsComplete, IsLogin, HasRecord, At
<1>4. \A g \in Handlers: op'[g].pc = "enrol.save" => g # h /\ op'[g] = op[g]
  BY <1>1
<1>5. \A code, device: ~Clashes(code, device, Null) => ~Clashes(code, device, Null)'
  BY <1>2 DEF Clashes, CodeTaken, DeviceTaken, HasRecord
<1>6. ASSUME NEW g \in Handlers, op'[g].pc \in Enrolling, ~op'[g].rivalled
      PROVE  ~Clashes(op[g].dto.code, op[g].dto.device, Null)'
  <2> PICK given: given = op'[g].dto
    OBVIOUS
  <2>1. ~Clashes(given.code, given.device, Null)
    BY <1>1, <1>6 DEF EnrolInv
  <2>2. ~Clashes(given.code, given.device, Null)'
    BY <1>5, <2>1
  <2> QED
    BY <2>2 DEF Clashes, CodeTaken, DeviceTaken, HasRecord
<1>7. ASSUME NEW g \in Handlers, op'[g].pc = "enrol.save"
      PROVE  /\ users'[op'[g].user] # Null /\ employees'[op'[g].user] = Null
             /\ IsLogin(op[g].user)' => users'[op'[g].user].department = op'[g].dto.department
  BY <1>2, <1>4, <1>7 DEF EnrolInv, IsLogin
<1>8. \A g, f \in Handlers:
        (g # f /\ op'[g].pc = "enrol.save" /\ op'[f].pc = "enrol.save") =>
           op'[g].user # op'[f].user
  BY <1>4 DEF EnrolInv
<1> QED
  BY <1>3, <1>6, <1>7, <1>8 DEF EnrolInv

\* A login is created.
LEMMA EnrolLoginKeeps ==
    ASSUME TypeInv, EnrolInv, NEW h \in Handlers, EnrolLogin(h)
    PROVE  EnrolInv'
<1>0. /\ op \in [Handlers -> AllOps]
      /\ users \in [Users -> UserRows \cup {Null, Gone}]
      /\ Null \notin UserRows /\ Gone \notin UserRows
      /\ \A u \in Users: employees[u] # Null => users[u] \notin {Null, Gone}
  BY EmployeesAssumption DEF TypeInv, TypeOK, EmployeesTypeOK, HasRecord, IsLogin
<1> PICK new: new = FreshId(users)
  OBVIOUS
<1>1. /\ new \in Users /\ users[new] = Null
      /\ users' = [users EXCEPT ![new] = NewLogin(op[h].dto)]
      /\ op' = [op EXCEPT ![h] = [op[h] EXCEPT !.pc = "enrol.save", !.user = new]]
      /\ op[h].pc = "enrol.login"
      /\ UNCHANGED <<employees, excused>>
  <2>1. HasFreshId(users)
    BY DEF EnrolLogin
  <2>2. PICK u \in Users: users[u] = Null
    BY <1>0, <2>1 DEF HasFreshId
  <2>3. new \in Users /\ users[new] = Null
    BY <1>0, <2>2 DEF FreshId
  <2> QED
    BY <2>3 DEF EnrolLogin, Goto, At
<1>2. op[h] \in [pc: {"enrol.login", "enrol.save"}, user: Users \cup {Null},
                 dto: Enrolments, rivalled: BOOLEAN]
  BY <1>0, <1>1, Shapes
<1>3. /\ op'[h].pc = "enrol.save" /\ op'[h].user = new
      /\ op'[h].dto = op[h].dto /\ op'[h].rivalled = op[h].rivalled
      /\ \A g \in Handlers \ {h}: op'[g] = op[g]
  BY <1>0, <1>1, <1>2
<1>4. NewLogin(op[h].dto) \in UserRows
  BY <1>2, EnrolmentsAreDtos, NewRowsAreRows
<1>5. /\ users'[new] = NewLogin(op[h].dto)
      /\ \A u \in Users \ {new}: users'[u] = users[u]
  BY <1>0, <1>1
<1>6. employees[new] = Null
  BY <1>0, <1>1
<1>7. \A g \in Handlers: op[g].pc = "enrol.save" => op[g].user \in Users \ {new}
  BY <1>1 DEF EnrolInv, TypeInv, Sound
<1>8. EnrolmentsComplete'
  <2> SUFFICES ASSUME NEW u \in Users, users'[u] \notin {Null, Gone},
                      users'[u].role = "employee", employees'[u] = Null, u \notin excused'
               PROVE  \E g \in Handlers: op'[g].pc = "enrol.save" /\ op'[g].user = u
    BY DEF EnrolmentsComplete, IsLogin, HasRecord, At
  <2>1. CASE u = new
    BY <1>3, <2>1
  <2>2. CASE u # new
    <3>1. PICK g \in Handlers: op[g].pc = "enrol.save" /\ op[g].user = u
      BY <1>1, <1>5, <2>2 DEF EnrolInv, EnrolmentsComplete, IsLogin, HasRecord, At
    <3> QED
      BY <1>1, <1>3, <3>1
  <2> QED
    BY <2>1, <2>2
<1>9. ASSUME NEW g \in Handlers, op'[g].pc = "enrol.save"
      PROVE  /\ users'[op'[g].user] # Null /\ employees'[op'[g].user] = Null
             /\ IsLogin(op[g].user)' => users'[op'[g].user].department = op'[g].dto.department
  <2>1. CASE g = h
    <3>1. NewLogin(op[h].dto).department = op[h].dto.department
      BY DEF NewLogin
    <3> QED
      BY <1>0, <1>1, <1>3, <1>4, <1>5, <1>6, <2>1, <3>1
  <2>2. CASE g # h
    BY <1>1, <1>3, <1>5, <1>7, <1>9, <2>2 DEF EnrolInv, IsLogin
  <2> QED
    BY <2>1, <2>2
<1>10. \A g, f \in Handlers:
         (g # f /\ op'[g].pc = "enrol.save" /\ op'[f].pc = "enrol.save") =>
            op'[g].user # op'[f].user
  BY <1>3, <1>7 DEF EnrolInv
<1>11. ASSUME NEW g \in Handlers, op'[g].pc \in Enrolling, ~op'[g].rivalled
       PROVE  ~Clashes(op[g].dto.code, op[g].dto.device, Null)'
  <2> PICK dto: dto = op[g].dto
    OBVIOUS
  <2>1. op'[g].dto = dto /\ ~Clashes(dto.code, dto.device, Null)
    BY <1>1, <1>3, <1>11 DEF EnrolInv, Enrolling
  <2> QED
    BY <1>1, <2>1 DEF Clashes, CodeTaken, DeviceTaken, HasRecord
<1> QED
  BY <1>8, <1>9, <1>10, <1>11 DEF EnrolInv

\* A save that is refused had a rival, no login, or something that is not checked.
LEMMA EnrolSaveFailsKeeps ==
    ASSUME TypeInv, EnrolInv, NEW h \in Handlers, EnrolSaveFails(h)
    PROVE  EnrolInv'
<1>0. /\ op \in [Handlers -> AllOps]
      /\ Null \notin Users
  BY EmployeesAssumption DEF TypeInv
<1> PICK u, dto: u = op[h].user /\ dto = op[h].dto
  OBVIOUS
<1>1. /\ op[h].pc = "enrol.save" /\ RecordRefused(u, dto)
      /\ excused' = IF op[h].rivalled \/ Unchecked(u, dto)
                    THEN excused \cup {u} ELSE excused
      /\ op' = [op EXCEPT ![h] = Idle]
      /\ UNCHANGED <<users, employees>>
  BY DEF EnrolSaveFails, Finish, Goto, At
<1>2. op'[h].pc = "idle" /\ \A g \in Handlers \ {h}: op'[g] = op[g]
  BY <1>0, <1>1, IdleSound
<1>3. u \in excused' \/ ~IsLogin(u)
  <2>1. CASE op[h].rivalled \/ Unchecked(u, dto)
    BY <1>1, <2>1
  <2>2. CASE ~op[h].rivalled /\ ~Unchecked(u, dto)
    <3>1. ~Clashes(dto.code, dto.device, Null)
      BY <1>1, <2>2 DEF EnrolInv, Enrolling
    <3>2. ~CodeTaken(dto.code, u)
      <4>1. dto.code # Blank
        BY <1>0, <1>1, Shapes, EmployeesAssumption DEF EnrolDtos
      <4> QED
        BY <1>0, <3>1, <4>1 DEF Clashes, CodeTaken
    <3>3. ~DeviceTaken(dto.device, u)
      BY <1>0, <2>2, <3>1 DEF Clashes, Unchecked, DeviceTaken
    <3> QED
      BY <1>1, <2>2, <3>2, <3>3 DEF RecordRefused
  <2> QED
    BY <2>1, <2>2
<1>4. EnrolmentsComplete'
  <2> SUFFICES ASSUME NEW v \in Users, users'[v] \notin {Null, Gone},
                      users'[v].role = "employee", employees'[v] = Null, v \notin excused'
               PROVE  \E g \in Handlers: op'[g].pc = "enrol.save" /\ op'[g].user = v
    BY DEF EnrolmentsComplete, IsLogin, HasRecord, At
  <2>1. v # u /\ v \notin excused
    BY <1>1, <1>3 DEF IsLogin
  <2>2. PICK g \in Handlers: op[g].pc = "enrol.save" /\ op[g].user = v
    BY <1>1, <2>1 DEF EnrolInv, EnrolmentsComplete, IsLogin, HasRecord, At
  <2> QED
    BY <1>2, <2>1, <2>2
<1>5. \A g \in Handlers: op'[g].pc \in Enrolling => g # h /\ op'[g] = op[g]
  BY <1>2 DEF Enrolling
<1>6. ASSUME NEW g \in Handlers, op'[g].pc = "enrol.save"
      PROVE  /\ users'[op'[g].user] # Null /\ employees'[op'[g].user] = Null
             /\ IsLogin(op[g].user)' => users'[op'[g].user].department = op'[g].dto.department
  BY <1>1, <1>5, <1>6 DEF EnrolInv, IsLogin, Enrolling
<1>7. \A g, f \in Handlers:
        (g # f /\ op'[g].pc = "enrol.save" /\ op'[f].pc = "enrol.save") =>
           op'[g].user # op'[f].user
  BY <1>5 DEF EnrolInv, Enrolling
<1>8. ASSUME NEW g \in Handlers, op'[g].pc \in Enrolling, ~op'[g].rivalled
      PROVE  ~Clashes(op[g].dto.code, op[g].dto.device, Null)'
  BY <1>1, <1>5, <1>8 DEF EnrolInv, Clashes, CodeTaken, DeviceTaken, HasRecord
<1> QED
  BY <1>4, <1>6, <1>7, <1>8 DEF EnrolInv

LEMMA NextKeepsEnrolments ==
    ASSUME TypeInv, EnrolInv, [Next]_vars
    PROVE  EnrolInv'
<1>0. SameRecords \/ \E h \in Handlers: EnrolSave(h) \/ UpdateWrite(h)
  BY RecordSteps
<1>1. users' = users => SameLogins
  BY DEF SameLogins
<1>2. CASE \E h \in Handlers: EnrolSave(h) \/ UpdateWrite(h)
  BY <1>2, WritesKeepEnrolments
<1>3. CASE ~\E h \in Handlers: EnrolSave(h) \/ UpdateWrite(h)
  <2>0. SameRecords
    BY <1>0, <1>3
  <2>1. CASE DirectoryNext
    BY <1>1, <2>0, <2>1, DirectoryMoves, EnrolElsewhere
       DEF DirectoryNext, employeeTables, MovedTo, Enrolling
  <2>2. CASE CalendarNext \/ DefaultShiftNext
    <3>1. UNCHANGED <<users, excused>>
      BY <2>2 DEF CalendarNext, employeeTables, DefaultShiftNext, UpdateDefaultShift
    <3> QED
      BY <1>1, <2>0, <2>2, <3>1, CalendarMoves, EnrolElsewhere DEF MovedTo, Enrolling
  <2>3. CASE UNCHANGED vars
    BY <1>1, <2>0, <2>3, EnrolElsewhere DEF vars, calls, employeeTables
  <2>4. CASE CrashNext
    <3>1. /\ \A g \in Handlers: op'[g].pc = "idle"
          /\ UNCHANGED <<users, employees>>
          /\ excused' = excused \cup {op[h].user: h \in {g \in Handlers: At(g, "enrol.save")}}
      BY <2>4, CrashMoves, IdleSound DEF CrashNext, CutShort
    <3>2. EnrolmentsComplete'
      BY <3>1 DEF EnrolInv, EnrolmentsComplete, IsLogin, HasRecord, At
    <3> QED
      BY <3>1, <3>2 DEF EnrolInv, Enrolling
  <2>5. CASE EmployeesNext
    <3>1. ASSUME NEW h \in Handlers, EmployeeRequests(h) PROVE EnrolInv'
      <4>1. CASE Enrol(h)
        BY <3>1, <4>1, EnrolBegins DEF EmployeeRequests
      <4>2. CASE Update(h)
        <5>1. /\ \A g \in Handlers: op'[g] = op[g]
                   \/ (op[g].pc # "enrol.save" /\ op'[g].pc \notin Enrolling)
              /\ UNCHANGED <<users, excused>>
          BY <3>1, <4>2 DEF EmployeeRequests, Ready, At, Update, Begin, TypeInv, Enrolling,
             employeeTables
        <5> QED
          BY <1>1, <2>0, <5>1, EnrolElsewhere
      <4> QED
        BY <3>1, <4>1, <4>2 DEF EmployeeRequests
    <3>2. ASSUME NEW h \in Handlers, EmployeeSteps(h) PROVE EnrolInv'
      <4>1. CASE EnrolLogin(h)
        BY <4>1, EnrolLoginKeeps
      <4>2. CASE EnrolSaveFails(h)
        BY <4>2, EnrolSaveFailsKeeps
      <4>3. CASE EnrolEmailTaken(h) \/ UpdateRefused(h) \/ Sync(h)
        <5>1. /\ \A g \in Handlers: op'[g] = op[g]
                   \/ (op[g].pc # "enrol.save" /\ op'[g].pc \notin Enrolling)
              /\ excused' = excused
          BY <4>3, IdleSound DEF EnrolEmailTaken, UpdateRefused, Sync, Finish, Goto, At, TypeInv,
             Enrolling, employeeTables
        <5>2. SameLogins
          <6>1. CASE users' = users
            BY <1>1, <6>1
          <6>2. CASE Sync(h)
            <7>1. ~\E g \in Handlers: EnrolLogin(g)
              <8> SUFFICES ASSUME NEW g \in Handlers, EnrolLogin(g) PROVE FALSE
                OBVIOUS
              <8>1. op[h].pc = "update.sync" /\ op'[h] = Idle /\ op[g].pc = "enrol.login"
                BY <6>2 DEF Sync, EnrolLogin, At, Finish, Goto, TypeInv
              <8>2. op'[h] = op[h]
                BY <8>1 DEF EnrolLogin, Goto, TypeInv
              <8> QED
                BY <8>1, <8>2, IdleSound
            <7> QED
              BY <2>5, <7>1, LoginSteps
          <6> QED
            BY <4>3, <6>1, <6>2 DEF EnrolEmailTaken, UpdateRefused, employeeTables
        <5> QED
          BY <2>0, <5>1, <5>2, EnrolElsewhere
      <4> QED
        BY <1>3, <3>2, <4>1, <4>2, <4>3 DEF EmployeeSteps
    <3>3. CASE LoginRequests \/ RecordRequests
      <4>1. op' = op /\ excused' = excused
        BY <3>3 DEF LoginRequests, RegisterUser, UpdateUser, DeleteUser, RecordRequests,
           EnrollBiometric, RemoveEmployee, Instant
      <4>2. ASSUME NEW g \in Handlers, EnrolLogin(g) PROVE FALSE
        <5>1. op[g] \in [pc: {"enrol.login", "enrol.save"}, user: Users \cup {Null},
                         dto: Enrolments, rivalled: BOOLEAN]
          BY <4>2, Shapes DEF EnrolLogin, At, TypeInv
        <5>2. op'[g] = [op[g] EXCEPT !.pc = "enrol.save", !.user = FreshId(users)]
          BY <4>2 DEF EnrolLogin, Goto, TypeInv
        <5>3. op'[g].pc = "enrol.save"
          BY <5>1, <5>2
        <5> QED
          BY <4>1, <4>2, <5>3 DEF EnrolLogin, At
      <4>3. SameLogins
        BY <2>5, <4>2, LoginSteps
      <4> QED
        BY <2>0, <4>1, <4>3, EnrolElsewhere
    <3> QED
      BY <2>5, <3>1, <3>2, <3>3 DEF EmployeesNext
  <2> QED
    BY <2>1, <2>2, <2>3, <2>4, <2>5 DEF Next
<1> QED
  BY <1>2, <1>3

LEMMA InitEnrolments == Init => EnrolInv
<1> SUFFICES ASSUME Init PROVE EnrolInv
  OBVIOUS
<1>1. \A h \in Handlers: op[h].pc = "idle"
  BY IdleSound DEF Init, CallsInit
<1>2. EnrolmentsComplete
  <2> PICK dto \in EnrolDtos: /\ users = FirstRow(Users, NewLogin(dto))
                               /\ employees = FirstRow(Users, NewRecord(dto))
    BY FirstEmployee
  <2>1. NewRecord(dto) # Null
    BY NewRowsAreRows, EmployeesAssumption
  <2> QED
    BY <2>1 DEF EnrolmentsComplete, IsLogin, HasRecord, FirstRow
<1> QED
  BY <1>1, <1>2 DEF EnrolInv, Enrolling

\* An enrolment is all or nothing, though it uses no transaction, but for
\* crashes, departments that do not exist and rivals.
THEOREM EnrolmentsCompleteTheorem == Spec => []EnrolmentsComplete
<1>1. EnrolInv => EnrolmentsComplete
  BY DEF EnrolInv
<1> QED
  BY InitTypes, NextKeepsTypes, InitEnrolments, NextKeepsEnrolments, <1>1, PTL DEF Spec

-----------------------------------------------------------------------------
(* Departments.                                                            *)

\* The update that wrote a department last mirrors what it wrote.
DepartmentInv ==
    /\ DepartmentMirrored
    /\ \A h \in Handlers:
         (/\ op[h].pc = "update.sync" /\ op[h].dto.field = "department"
          /\ writer[op[h].user] = h) =>
            employees[op[h].user].department = op[h].dto.value

\* Steps that mirror no department.
LEMMA DepartmentsElsewhere ==
    ASSUME TypeInv, DepartmentInv, SameRecords, writer' = writer,
           \A u \in Users: employees[u] # Null => users'[u].department = users[u].department,
           \A h \in Handlers: op'[h] = op[h] \/ op'[h].pc # "update.sync"
    PROVE  DepartmentInv'
<1>1. DepartmentMirrored'
  BY DEF DepartmentInv, DepartmentMirrored, SameRecords, HasRecord
<1>2. ASSUME NEW h \in Handlers, op'[h].pc = "update.sync", op'[h].dto.field = "department",
             writer'[op'[h].user] = h
      PROVE  employees'[op'[h].user].department = op'[h].dto.value
  <2>1. op'[h] = op[h] /\ op[h] \in AllOps /\ Sound(op[h])
    BY <1>2 DEF TypeInv
  <2>2. op[h].user \in Users /\ employees[op[h].user] # Null
    BY <1>2, <2>1, Shapes DEF Sound, HasRecord
  <2> QED
    BY <1>2, <2>1, <2>2 DEF DepartmentInv, SameRecords
<1> QED
  BY <1>1, <1>2 DEF DepartmentInv

\* A department is mirrored, or a name.
LEMMA SyncMirrors ==
    ASSUME TypeInv, DepartmentInv, NEW h \in Handlers, Sync(h)
    PROVE  DepartmentInv'
<1>0. /\ op \in [Handlers -> AllOps]
      /\ users \in [Users -> UserRows \cup {Null, Gone}]
      /\ writer \in [Users -> Handlers \cup {Null}]
      /\ \A v \in Users: employees[v] # Null => users[v] \notin {Null, Gone}
      /\ Null \notin Handlers
  BY CallsAssumption DEF TypeInv, TypeOK, EmployeesTypeOK, HasRecord, IsLogin
<1> PICK u, dto, name: /\ u = op[h].user /\ dto = op[h].dto
                       /\ name = Changed(op[h].read, dto, op[h].read).name
  OBVIOUS
<1>1. /\ op[h].pc = "update.sync" /\ op' = [op EXCEPT ![h] = Idle]
      /\ users' = IF dto.field # "department" THEN [users EXCEPT ![u].name = name]
                  ELSE [users EXCEPT ![u].department = dto.value]
      /\ writer' = IF dto.field # "department" THEN writer
                   ELSE [writer EXCEPT ![u] = IF @ = h THEN Null ELSE h]
      /\ employees' = employees
  BY DEF Sync, Finish, Goto, At
<1>2. u \in Users /\ users[u] \in UserRows
  BY <1>0, <1>1, Shapes DEF TypeInv, Sound, HasRecord
<1>3. \A g \in Handlers: op'[g].pc = "update.sync" => g # h /\ op'[g] = op[g]
  BY <1>0, <1>1, IdleSound
<1>4. CASE dto.field # "department"
  <2>1. users' = [users EXCEPT ![u] = [users[u] EXCEPT !.name = name]]
    BY <1>1, <1>4
  <2>2. [users[u] EXCEPT !.name = name].department = users[u].department
    BY <1>2 DEF UserRows
  <2>3. \A v \in Users: users'[v].department = users[v].department
    BY <1>0, <2>1, <2>2
  <2>4. SameRecords /\ writer' = writer
    BY <1>1, <1>4 DEF SameRecords
  <2> QED
    BY <1>3, <2>3, <2>4, DepartmentsElsewhere
<1>5. CASE dto.field = "department"
  <2>1. users' = [users EXCEPT ![u] = [users[u] EXCEPT !.department = dto.value]]
    BY <1>1, <1>5
  <2>2. [users[u] EXCEPT !.department = dto.value].department = dto.value
    BY <1>2 DEF UserRows
  <2>3. /\ users'[u].department = dto.value
        /\ \A v \in Users \ {u}: users'[v] = users[v]
        /\ writer'[u] = IF writer[u] = h THEN Null ELSE h
        /\ \A v \in Users \ {u}: writer'[v] = writer[v]
    BY <1>0, <1>1, <1>2, <1>5, <2>1, <2>2
  <2>4. DepartmentMirrored'
    <3> SUFFICES ASSUME NEW v \in Users, employees'[v] # Null, writer'[v] = Null
                 PROVE  users'[v].department = employees'[v].department
      BY DEF DepartmentMirrored, HasRecord
    <3>1. CASE v = u
      <4>1. writer[u] = h
        BY <1>0, <2>3, <3>1
      <4> QED
        BY <1>1, <1>5, <2>3, <3>1, <4>1 DEF DepartmentInv
    <3>2. CASE v # u
      BY <1>1, <2>3, <3>2 DEF DepartmentInv, DepartmentMirrored, HasRecord
    <3> QED
      BY <3>1, <3>2
  <2>5. ASSUME NEW g \in Handlers, op'[g].pc = "update.sync", op'[g].dto.field = "department",
               writer'[op'[g].user] = g
        PROVE  employees'[op'[g].user].department = op'[g].dto.value
    <3>1. g # h /\ op'[g] = op[g] /\ op[g].user \in Users
      BY <1>0, <1>3, <2>5, Shapes
    <3>2. writer[op[g].user] = g
      BY <1>0, <2>3, <2>5, <3>1
    <3> QED
      BY <1>1, <2>5, <3>1, <3>2 DEF DepartmentInv
  <2> QED
    BY <2>4, <2>5 DEF DepartmentInv
<1> QED
  BY <1>4, <1>5

\* A record is written: by an enrolment with its login's department, or by an
\* update that has yet to mirror it.
LEMMA WritesKeepDepartments ==
    ASSUME TypeInv, EnrolInv, DepartmentInv, NEW h \in Handlers, EnrolSave(h) \/ UpdateWrite(h)
    PROVE  DepartmentInv'
<1>0. /\ op \in [Handlers -> AllOps]
      /\ writer \in [Users -> Handlers \cup {Null}]
      /\ Null \notin Handlers /\ Null \notin EmployeeRows
  BY CallsAssumption, EmployeesAssumption DEF TypeInv, TypeOK, EmployeesTypeOK
<1> PICK u, dto: u = op[h].user /\ dto = op[h].dto
  OBVIOUS
<1>1. \A g \in Handlers \ {h}: op'[g].pc = "update.sync" => op'[g] = op[g]
  BY WritesRival DEF Enrolling
<1>2. \A g \in Handlers: op[g].pc = "update.sync" =>
        op[g].user \in Users /\ employees[op[g].user] # Null
  BY <1>0, Shapes DEF TypeInv, Sound, HasRecord
<1>3. CASE EnrolSave(h)
  <2>1. /\ u \in Users /\ IsLogin(u) /\ op[h].pc = "enrol.save"
        /\ \A v \in Users: employees'[v] = IF v = u THEN NewRecord(dto) ELSE employees[v]
        /\ users' = users /\ writer' = writer
    BY <1>3, SaveWrites DEF EnrolSave, At
  <2>2. employees[u] = Null /\ users[u].department = dto.department
    BY <2>1 DEF EnrolInv
  <2>3. NewRecord(dto).department = dto.department
    BY DEF NewRecord
  <2>4. DepartmentMirrored'
    BY <2>1, <2>2, <2>3 DEF DepartmentInv, DepartmentMirrored, HasRecord
  <2>5. op'[h].pc # "update.sync"
    BY <1>0, <1>3, RivalledOps, IdleSound DEF EnrolSave
  <2>6. ASSUME NEW g \in Handlers, op'[g].pc = "update.sync", op'[g].dto.field = "department",
               writer'[op'[g].user] = g
        PROVE  employees'[op'[g].user].department = op'[g].dto.value
    <3>1. op'[g] = op[g] /\ op[g].user \in Users \ {u}
      BY <1>1, <1>2, <2>2, <2>5, <2>6
    <3> QED
      BY <2>1, <2>6, <3>1 DEF DepartmentInv
  <2> QED
    BY <2>4, <2>6 DEF DepartmentInv
<1>4. CASE UpdateWrite(h)
  <2> PICK row: row = Changed(employees[u], dto, op[h].read)
    OBVIOUS
  <2>1. /\ u \in Users /\ dto \in EmployeeChanges /\ op[h].read \in EmployeeRows
        /\ employees[u] \in EmployeeRows
        /\ \A v \in Users: employees'[v] = IF v = u THEN row ELSE employees[v]
        /\ users' = users
    BY <1>4, UpdateWrites
  <2>2. row.department = IF dto.field = "department" THEN dto.value ELSE employees[u].department
    BY <2>1, ChangedDepartment
  <2>3. writer' = IF dto.field = "department" THEN [writer EXCEPT ![u] = h] ELSE writer
    BY <1>4 DEF UpdateWrite
  <2>4. DepartmentMirrored'
    <3> SUFFICES ASSUME NEW v \in Users, employees'[v] # Null, writer'[v] = Null
                 PROVE  users'[v].department = employees'[v].department
      BY DEF DepartmentMirrored, HasRecord
    <3>1. CASE v = u
      <4>1. dto.field # "department" /\ writer[u] = Null
        BY <1>0, <2>1, <2>3, <3>1
      <4>2. users[u].department = employees[u].department
        BY <1>0, <2>1, <4>1 DEF DepartmentInv, DepartmentMirrored, HasRecord
      <4> QED
        BY <2>1, <2>2, <3>1, <4>1, <4>2
    <3>2. CASE v # u
      <4>1. writer[v] = Null
        BY <1>0, <2>3, <3>2
      <4> QED
        BY <2>1, <3>2, <4>1 DEF DepartmentInv, DepartmentMirrored, HasRecord
    <3> QED
      BY <3>1, <3>2
  <2>5. op'[h].pc = "update.sync" =>
          op'[h].user = u /\ op'[h].dto = dto /\ dto.field \notin {"code", "device"}
    <3>1. CASE dto.field \in {"code", "device"}
      <4>1. op' = Rivalled(h, row.code, row.device)
        BY <1>4, <3>1 DEF UpdateWrite
      <4> QED
        BY <1>0, <4>1, RivalledOps, IdleSound
    <3>2. CASE dto.field \notin {"code", "device"}
      <4>1. op' = [op EXCEPT ![h].pc = "update.sync"]
        BY <1>4, <3>2 DEF UpdateWrite
      <4>2. op[h] \in [pc: {"update.write", "update.sync"}, user: Users,
                       dto: EmployeeChanges, read: EmployeeRows]
        BY <1>0, <1>4, Shapes DEF UpdateWrite, At
      <4> QED
        BY <1>0, <3>2, <4>1, <4>2
    <3> QED
      BY <3>1, <3>2
  <2>6. ASSUME NEW g \in Handlers, op'[g].pc = "update.sync", op'[g].dto.field = "department",
               writer'[op'[g].user] = g
        PROVE  employees'[op'[g].user].department = op'[g].dto.value
    <3>1. CASE g = h
      BY <2>1, <2>2, <2>5, <2>6, <3>1
    <3>2. CASE g # h
      <4>1. op'[g] = op[g] /\ op[g].user \in Users
        BY <1>1, <1>2, <2>6, <3>2
      <4>2. CASE op[g].user = u
        <5>1. dto.field # "department" /\ writer[u] = g
          BY <1>0, <2>1, <2>3, <2>6, <3>2, <4>1, <4>2
        <5> QED
          BY <2>1, <2>2, <2>6, <4>1, <4>2, <5>1 DEF DepartmentInv
      <4>3. CASE op[g].user # u
        <5>1. writer[op[g].user] = g
          BY <1>0, <2>3, <2>6, <4>1, <4>3
        <5> QED
          BY <2>1, <2>6, <4>1, <4>3, <5>1 DEF DepartmentInv
      <4> QED
        BY <4>2, <4>3
    <3> QED
      BY <3>1, <3>2
  <2> QED
    BY <2>4, <2>6 DEF DepartmentInv
<1> QED
  BY <1>3, <1>4

\* Steps on logins, but for the mirror.
LEMMA LoginsKeepDepartments ==
    ASSUME TypeInv, EmployeesNext, ~\E h \in Handlers: Sync(h)
    PROVE  \A u \in Users: employees[u] # Null => users'[u].department = users[u].department
<1>0. /\ users \in [Users -> UserRows \cup {Null, Gone}]
      /\ \A u \in Users: employees[u] # Null => users[u] \notin {Null, Gone}
  BY DEF TypeInv, TypeOK, EmployeesTypeOK, HasRecord, IsLogin
<1>1. CASE LoginRequests
  <2>1. CASE RegisterUser
    <3>1. PICK row: HasFreshId(users) /\ users' = [users EXCEPT ![FreshId(users)] = row]
      BY <2>1 DEF RegisterUser
    <3>2. PICK u \in Users: users[u] = Null
      BY <1>0, <3>1 DEF HasFreshId
    <3>3. users[FreshId(users)] = Null /\ FreshId(users) \in Users
      BY <1>0, <3>2 DEF FreshId
    <3> QED
      BY <1>0, <3>1, <3>3
  <2>2. CASE UpdateUser
    <3> PICK u \in Users, email \in Emails, name \in FullNames:
          /\ IsLogin(u)
          /\ users' = [users EXCEPT ![u].email = email, ![u].name = name]
      BY <2>2 DEF UpdateUser
    <3>1. users[u] \in UserRows
      BY <1>0 DEF IsLogin
    <3>2. users'[u].department = users[u].department
      BY <1>0, <3>1 DEF UserRows
    <3>3. \A v \in Users: v # u => users'[v] = users[v]
      BY <1>0
    <3> QED
      BY <3>2, <3>3
  <2>3. CASE DeleteUser
    <3> PICK u \in Users: employees[u] = Null /\ users' = [users EXCEPT ![u] = Gone]
      BY <2>3 DEF DeleteUser, HasRecord
    <3> QED
      BY <1>0
  <2> QED
    BY <1>1, <2>1, <2>2, <2>3 DEF LoginRequests
<1>2. CASE \E h \in Handlers: EnrolLogin(h)
  <2>1. PICK row: HasFreshId(users) /\ users' = [users EXCEPT ![FreshId(users)] = row]
    BY <1>2 DEF EnrolLogin
  <2>2. PICK u \in Users: users[u] = Null
    BY <1>0, <2>1 DEF HasFreshId
  <2>3. users[FreshId(users)] = Null /\ FreshId(users) \in Users
    BY <1>0, <2>2 DEF FreshId
  <2> QED
    BY <1>0, <2>1, <2>3
<1>3. CASE RecordRequests
  BY <1>3 DEF RecordRequests, EnrollBiometric, RemoveEmployee
<1>4. ASSUME NEW h \in Handlers, EmployeeRequests(h) \/ EmployeeSteps(h)
      PROVE  EnrolLogin(h) \/ users' = users
  BY <1>4 DEF EmployeeRequests, Enrol, Update, EmployeeSteps, EnrolEmailTaken, EnrolSave,
     EnrolSaveFails, UpdateWrite, UpdateRefused, employeeTables
<1> QED
  BY <1>1, <1>2, <1>3, <1>4 DEF EmployeesNext

LEMMA NextKeepsDepartments ==
    ASSUME TypeInv, EnrolInv, DepartmentInv, [Next]_vars
    PROVE  DepartmentInv'
<1>1. CASE \E h \in Handlers: EnrolSave(h) \/ UpdateWrite(h)
  BY <1>1, WritesKeepDepartments
<1>2. CASE \E h \in Handlers: Sync(h)
  BY <1>2, SyncMirrors
<1>3. CASE /\ ~\E h \in Handlers: EnrolSave(h) \/ UpdateWrite(h)
           /\ ~\E h \in Handlers: Sync(h)
  <2>0. SameRecords
    BY <1>3, RecordSteps
  <2>1. CASE DirectoryNext
    BY <2>0, <2>1, DirectoryMoves, DepartmentsElsewhere
       DEF DirectoryNext, employeeTables, MovedTo
  <2>2. CASE CalendarNext \/ DefaultShiftNext
    <3>1. UNCHANGED <<users, writer>>
      BY <2>2 DEF CalendarNext, employeeTables, DefaultShiftNext, UpdateDefaultShift
    <3> QED
      BY <2>0, <2>2, <3>1, CalendarMoves, DepartmentsElsewhere DEF MovedTo
  <2>3. CASE UNCHANGED vars
    BY <2>0, <2>3, DepartmentsElsewhere DEF vars, calls, employeeTables
  <2>4. CASE CrashNext
    BY <2>0, <2>4, CrashMoves, IdleSound, DepartmentsElsewhere DEF CrashNext
  <2>5. CASE EmployeesNext
    <3>1. writer' = writer
      BY <1>3, <2>5 DEF EmployeesNext, LoginRequests, RegisterUser, UpdateUser, DeleteUser,
         RecordRequests, EnrollBiometric, RemoveEmployee, EmployeeRequests, Enrol, Update,
         EmployeeSteps, EnrolLogin, EnrolEmailTaken, EnrolSaveFails, UpdateRefused,
         employeeTables
    <3>2. \A h \in Handlers: op'[h] = op[h] \/ op'[h].pc # "update.sync"
      <4>1. CASE LoginRequests \/ RecordRequests
        BY <4>1 DEF LoginRequests, RegisterUser, UpdateUser, DeleteUser, RecordRequests,
           EnrollBiometric, RemoveEmployee, Instant
      <4>2. ASSUME NEW h \in Handlers, EmployeeRequests(h)
            PROVE  \A g \in Handlers: op'[g] = op[g] \/ op'[g].pc # "update.sync"
        BY <4>2 DEF EmployeeRequests, Enrol, Update, Begin, TypeInv
      <4>3. ASSUME NEW h \in Handlers, EmployeeSteps(h)
            PROVE  \A g \in Handlers: op'[g] = op[g] \/ op'[g].pc # "update.sync"
        <5>1. CASE EnrolLogin(h)
          <6>1. op[h] \in [pc: {"enrol.login", "enrol.save"}, user: Users \cup {Null},
                           dto: Enrolments, rivalled: BOOLEAN]
            BY <5>1, Shapes DEF EnrolLogin, At, TypeInv
          <6>2. [op[h] EXCEPT !.pc = "enrol.save", !.user = FreshId(users)].pc = "enrol.save"
            BY <6>1
          <6> QED
            BY <5>1, <6>2 DEF EnrolLogin, Goto, TypeInv
        <5>2. CASE EnrolEmailTaken(h) \/ EnrolSaveFails(h) \/ UpdateRefused(h)
          BY <5>2, IdleSound DEF EnrolEmailTaken, EnrolSaveFails, UpdateRefused, Finish, Goto,
             TypeInv
        <5> QED
          BY <1>3, <4>3, <5>1, <5>2 DEF EmployeeSteps
      <4> QED
        BY <2>5, <4>1, <4>2, <4>3 DEF EmployeesNext
    <3> QED
      BY <1>3, <2>0, <2>5, <3>1, <3>2, LoginsKeepDepartments, DepartmentsElsewhere
  <2> QED
    BY <2>1, <2>2, <2>3, <2>4, <2>5 DEF Next
<1> QED
  BY <1>1, <1>2, <1>3

\* A login has the department of its record once every update of it has
\* synced in the order it wrote.
THEOREM DepartmentMirroredTheorem == Spec => []DepartmentMirrored
<1>1. Init => DepartmentInv
  <2> SUFFICES ASSUME Init PROVE DepartmentInv
    OBVIOUS
  <2>1. \A h \in Handlers: op[h].pc = "idle"
    BY IdleSound DEF Init, CallsInit
  <2>2. DepartmentMirrored
    BY FirstEmployee DEF DepartmentMirrored, HasRecord, FirstRow, NewRecord, NewLogin
  <2> QED
    BY <2>1, <2>2 DEF DepartmentInv
<1>2. DepartmentInv => DepartmentMirrored
  BY DEF DepartmentInv
<1> QED
  BY InitTypes, NextKeepsTypes, InitEnrolments, NextKeepsEnrolments, <1>1,
     NextKeepsDepartments, <1>2, PTL DEF Spec

-----------------------------------------------------------------------------
(* Patterns.                                                               *)

\* Of the rows that cover a day, some start last, and those are the ones that
\* none starts after.
LEMMA RowsThatStartLast ==
    ASSUME NEW plan \in Seq(PatternPlanRows), NEW rows \in SUBSET DOMAIN plan
    PROVE  LET last == {i \in rows: \A k \in rows: plan[k].from <= plan[i].from}
           IN  /\ last = {i \in rows: ~\E j \in rows: plan[j].from > plan[i].from}
               /\ rows # {} => last # {}
<1>0. Len(plan) \in Nat /\ rows \in SUBSET (1..Len(plan))
      /\ \A i \in 1..Len(plan): plan[i] \in PatternPlanRows
  OBVIOUS
<1>1. \A i \in rows: plan[i].from \in Nat
  <2>1. \A row \in PatternPlanRows: row.from \in Nat
    BY CalendarAssumption DEF PatternPlanRows
  <2> QED
    BY <1>0, <2>1
<1>2. \A i, k \in rows: plan[k].from <= plan[i].from <=> ~(plan[k].from > plan[i].from)
  BY <1>1
<1>3. ASSUME rows # {}
      PROVE  \E i \in rows: \A k \in rows: plan[k].from <= plan[i].from
  <2> DEFINE f == [i \in rows |-> plan[i].from]
  <2>1. IsFiniteSet(rows)
    <3>1. IsFiniteSet(1..Len(plan))
      BY <1>0, FS_Interval
    <3> QED
      BY <1>0, <3>1, FS_Subset
  <2>2. \A i \in rows: f[i] \in Nat
    BY <1>1
  <2>3. \E i \in rows: \A k \in rows: f[k] <= f[i]
    <3> HIDE DEF f
    <3> QED
      BY <1>3, <2>1, <2>2, FiniteHasGreatest
  <2> QED
    BY <2>3
<1> QED
  BY <1>2, <1>3

\* The two routines that resolve the work week of a person on a date agree.
LEMMA RoutinesAgree ==
    ASSUME patternPlan \in Seq(PatternPlanRows), NEW u \in Users, NEW day \in Days,
           ~(Overridden(u, day) /\ ~overrides[<<u, day>>].removed)
    PROVE  ActivePatterns(u, day) = {answer.pattern: answer \in WorkDays(u, day)}
<1> DEFINE rows == {i \in DOMAIN patternPlan: Covers(patternPlan[i], u, day)}
           last == {i \in rows: \A k \in rows: patternPlan[k].from <= patternPlan[i].from}
           first == {i \in rows: ~\E j \in rows: patternPlan[j].from > patternPlan[i].from}
           Answer(row) == IF ~PatternFindable(row.pattern)
                          THEN [isWeeklyOff |-> FALSE, pattern |-> Null]
                          ELSE LET weekday == WeekdayOf[day]
                                   pattern == patterns[row.pattern]
                               IN  [isWeeklyOff |-> \/ weekday \in pattern.weeklyOffDays
                                                    \/ weekday \notin pattern.workingDays,
                                    pattern |-> row.pattern]
<1>1. last = first /\ (rows # {} => last # {}) /\ last \subseteq rows
  BY RowsThatStartLast
<1>2. Latest(patternPlan, u, day) = {patternPlan[i]: i \in last}
  BY DEF Latest
<1>3. ActivePatterns(u, day) = IF rows = {} THEN {Null}
                               ELSE {PatternIfFindable(patternPlan[i].pattern): i \in first}
  BY DEF ActivePatterns
<1>4. WorkDays(u, day) = IF Latest(patternPlan, u, day) = {}
                         THEN {[isWeeklyOff |-> FALSE, pattern |-> Null]}
                         ELSE {Answer(row): row \in Latest(patternPlan, u, day)}
  BY DEF WorkDays
<1>5. \A row: Answer(row).pattern = PatternIfFindable(row.pattern)
  BY DEF PatternIfFindable
<1> HIDE DEF rows, last, first, Answer
<1>6. CASE rows = {}
  <2>1. last = {}
    BY <1>1, <1>6
  <2>2. WorkDays(u, day) = {[isWeeklyOff |-> FALSE, pattern |-> Null]}
    BY <1>2, <1>4, <2>1
  <2> QED
    BY <1>3, <1>6, <2>2
<1>7. CASE rows # {}
  <2>1. Latest(patternPlan, u, day) # {}
    BY <1>1, <1>2, <1>7
  <2>2. {answer.pattern: answer \in WorkDays(u, day)}
          = {PatternIfFindable(row.pattern): row \in Latest(patternPlan, u, day)}
    BY <1>4, <1>5, <2>1
  <2>3. {PatternIfFindable(row.pattern): row \in Latest(patternPlan, u, day)}
          = {PatternIfFindable(patternPlan[i].pattern): i \in first}
    BY <1>1, <1>2
  <2> QED
    BY <1>3, <1>7, <2>2, <2>3
<1> QED
  BY <1>6, <1>7

\* The list of employees and the attendance of a day resolve a person's work
\* week alike, for any assignments that start and end in any order, on every
\* day that is not overridden: BatchAgreesWithSingle.
THEOREM BatchAgreesTheorem == Spec => []BatchAgreesWithSingle
<1>1. TypeOK => BatchAgreesWithSingle
  BY RoutinesAgree DEF TypeOK, CalendarTypeOK, BatchAgreesWithSingle
<1> QED
  BY <1>1, WorkforceTypeCorrect, PTL

-----------------------------------------------------------------------------
(* Pages.                                                                  *)

\* Multiplying keeps the order.
LEMMA ProductsKeepOrder ==
    ASSUME NEW a \in Nat, NEW b \in Nat, NEW limit \in Nat, a <= b
    PROVE  a * limit \in Nat /\ b * limit \in Nat /\ a * limit <= b * limit
<1>1. PICK d \in Nat: b = a + d
  <2>1. b - a \in Nat /\ b = a + (b - a)
    OBVIOUS
  <2> QED
    BY <2>1
<1>2. a * limit \in Nat /\ d * limit \in Nat
  OBVIOUS
<1>3. b * limit = a * limit + d * limit
  BY <1>1
<1> QED
  BY <1>2, <1>3

\* The quotient, by its remainder.
LEMMA Quotient ==
    ASSUME NEW n \in Nat, NEW limit \in Nat \ {0}
    PROVE  LET q == n \div limit
           IN  q \in Nat /\ q * limit <= n /\ n < q * limit + limit
OBVIOUS

\* The last page holds the last row.
LEMMA TotalPagesCover ==
    ASSUME NEW total \in Nat, NEW limit \in Nat \ {0}
    PROVE  LET q == TotalPages(limit, total)
           IN  /\ q \in Nat /\ q <= total
               /\ total <= q * limit
               /\ q > 0 => (q - 1) * limit < total
<1> DEFINE q == TotalPages(limit, total)
<1>1. q \in Nat /\ q * limit <= total + limit - 1 /\ total + limit - 1 < q * limit + limit
  <2>1. total + limit - 1 \in Nat
    OBVIOUS
  <2> QED
    BY <2>1, Quotient DEF TotalPages
<1> HIDE DEF q
<1>2. q * limit \in Nat /\ total <= q * limit
  BY <1>1
<1>3. ASSUME q > 0 PROVE (q - 1) * limit < total /\ q <= total
  <2>1. (q - 1) * limit = q * limit - limit
    BY <1>1
  <2>2. q - 1 \in Nat /\ q - 1 <= (q - 1) * limit
    <3>1. q - 1 \in Nat
      BY <1>1, <1>3
    <3>2. PICK l \in Nat: limit = l + 1
      <4>1. limit - 1 \in Nat /\ limit = (limit - 1) + 1
        OBVIOUS
      <4> QED
        BY <4>1
    <3>3. (q - 1) * limit = (q - 1) * l + (q - 1)
      BY <3>1, <3>2
    <3>4. (q - 1) * l \in Nat
      BY <3>1
    <3> QED
      BY <3>1, <3>3, <3>4
  <2> QED
    BY <1>1, <1>2, <2>1, <2>2
<1>4. q <= total
  BY <1>1, <1>3
<1> QED
  BY <1>1, <1>2, <1>3, <1>4 DEF q

\* Following nextPage leads from the first page to the last.
LEMMA FollowedPages ==
    ASSUME NEW total \in Nat, NEW limit \in Nat \ {0}
    PROVE  Followed(limit, total) =
             {page \in 1..total + 1: page = 1 \/ page <= TotalPages(limit, total)}
<1> DEFINE q == TotalPages(limit, total)
<1>1. q \in Nat
  BY TotalPagesCover
<1>2. ASSUME NEW page \in Nat
      PROVE  NextPage(limit, page, total) = page + 1 <=> page < q
  <2>1. NextPage(limit, page, total) = IF page < q THEN page + 1 ELSE Null
    BY DEF NextPage
  <2>2. page + 1 \in Nat /\ Null # page + 1
    BY ListingsAssumption
  <2> HIDE DEF q
  <2> QED
    BY <2>1, <2>2
<1> HIDE DEF q
<1>3. ASSUME NEW page \in 1..total + 1
      PROVE  (\A earlier \in 1..page - 1: NextPage(limit, earlier, total) = earlier + 1)
               <=> (page = 1 \/ page <= q)
  <2>1. CASE page = 1
    BY <2>1
  <2>2. CASE page # 1
    <3>1. page - 1 \in 1..page - 1 /\ 1..page - 1 \subseteq Nat
      BY <2>2
    <3> QED
      BY <1>1, <1>2, <2>2, <3>1
  <2> QED
    BY <2>1, <2>2
<1>4. TotalPages(limit, total) = q
  BY DEF q
<1>5. Followed(limit, total) = {page \in 1..total + 1: page = 1 \/ page <= q}
  BY <1>3, Zenon DEF Followed
<1> QED
  BY <1>4, <1>5

\* The rows before a page.
Skipped(limit, page) == (page - 1) * limit

\* Pages skip more the further on they are.
LEMMA SkippedRows ==
    ASSUME NEW limit \in Nat \ {0}, NEW page \in Nat \ {0}
    PROVE  /\ Skipped(limit, page) \in Nat
           /\ page * limit = Skipped(limit, page) + limit
           /\ Skipped(limit, page + 1) = Skipped(limit, page) + limit
           /\ \A next \in Nat \ {0}: page <= next => Skipped(limit, page) <= Skipped(limit, next)
<1>1. PICK p \in Nat: page = p + 1
  <2>1. page - 1 \in Nat /\ page = (page - 1) + 1
    OBVIOUS
  <2> QED
    BY <2>1
<1>2. Skipped(limit, page) = p * limit /\ Skipped(limit, page + 1) = page * limit
  <2>1. page - 1 = p /\ (page + 1) - 1 = page
    BY <1>1
  <2> QED
    BY <2>1 DEF Skipped
<1>3. p * limit \in Nat /\ page * limit = p * limit + limit
  BY <1>1
<1>4. ASSUME NEW next \in Nat \ {0}, page <= next
      PROVE  Skipped(limit, page) <= Skipped(limit, next)
  <2>1. page - 1 \in Nat /\ next - 1 \in Nat /\ page - 1 <= next - 1
    BY <1>4
  <2> QED
    BY <2>1, ProductsKeepOrder DEF Skipped
<1> QED
  BY <1>2, <1>3, <1>4

\* A page shows the rows that skip and take leave.
LEMMA PageRows ==
    ASSUME NEW S, NEW rows \in Seq(S), NEW limit \in Nat \ {0}, NEW page \in Nat \ {0},
           Skipped(limit, page) <= Len(rows)
    PROVE  /\ Skipped(limit, page) \in Nat
           /\ \A u: u \in Shown(rows, limit, page)
                <=> \E j \in 1..Len(rows):
                       /\ Skipped(limit, page) < j /\ j <= Skipped(limit, page) + limit
                       /\ rows[j] = u
           /\ Skipped(limit, page) < Len(rows) => Shown(rows, limit, page) # {}
<1> DEFINE k == (page - 1) * limit
           end == IF page * limit < Len(rows) THEN page * limit ELSE Len(rows)
           P == SubSeq(rows, k + 1, end)
<1>1. k \in Nat /\ page * limit = k + limit
  BY SkippedRows DEF Skipped
<1>2. Page(rows, limit, page) = P
  BY DEF Page
<1>3. Len(rows) \in Nat /\ (\A i \in 1..Len(rows): rows[i] \in S) /\ k <= Len(rows)
  BY DEF Skipped
<1> HIDE DEF k
<1>4. /\ end \in Nat /\ k <= end /\ end <= Len(rows) /\ end <= k + limit
      /\ k < Len(rows) => k < end
      /\ \A j \in 1..Len(rows): j <= k + limit => j <= end
  BY <1>1, <1>3
<1> HIDE DEF end
<1>5. /\ P \in Seq(S) /\ Len(P) = end - k
      /\ \A i \in 1..end - k: P[i] = rows[k + i]
  <2>1. \A i \in k + 1..end: rows[i] \in S
    BY <1>1, <1>3, <1>4
  <2>2. /\ P \in Seq(S)
        /\ Len(P) = IF k + 1 <= end THEN end - (k + 1) + 1 ELSE 0
        /\ \A i \in 1..end - (k + 1) + 1: P[i] = rows[(k + 1) + i - 1]
    BY <1>1, <1>4, <2>1, SubSeqProperties
  <2> HIDE DEF P
  <2>3. end - (k + 1) + 1 = end - k /\ \A i \in Nat: (k + 1) + i - 1 = k + i
    BY <1>1, <1>4
  <2> QED
    BY <1>1, <1>4, <2>2, <2>3
<1> HIDE DEF P
<1>6. DOMAIN P = 1..end - k
  BY <1>5
<1>7. ASSUME NEW u, NEW i \in DOMAIN P, P[i] = u
      PROVE  \E j \in 1..Len(rows): k < j /\ j <= k + limit /\ rows[j] = u
  <2>1. k + i \in 1..Len(rows) /\ k < k + i /\ k + i <= k + limit /\ rows[k + i] = u
    BY <1>1, <1>3, <1>4, <1>5, <1>6, <1>7
  <2> QED
    BY <2>1
<1>8. ASSUME NEW u, NEW j \in 1..Len(rows), k < j, j <= k + limit, rows[j] = u
      PROVE  \E i \in DOMAIN P: P[i] = u
  <2>1. j - k \in 1..end - k /\ k + (j - k) = j
    BY <1>1, <1>3, <1>4, <1>8
  <2> QED
    BY <1>5, <1>6, <1>8, <2>1
<1>9. Shown(rows, limit, page) = {P[i]: i \in DOMAIN P}
  BY <1>2 DEF Shown, Range
<1>10. ASSUME k < Len(rows) PROVE Shown(rows, limit, page) # {}
  <2>1. 1 \in DOMAIN P
    BY <1>1, <1>4, <1>6, <1>10
  <2> QED
    BY <1>9, <2>1
<1>11. Skipped(limit, page) = k
  BY DEF Skipped, k
<1>12. \A u: u \in Shown(rows, limit, page) <=> \E i \in DOMAIN P: P[i] = u
  BY <1>9
<1> QED
  BY <1>1, <1>7, <1>8, <1>10, <1>11, <1>12

\* The pages that are followed begin within the list, all but the first before
\* its end.
LEMMA FollowedSkip ==
    ASSUME NEW total \in Nat, NEW limit \in Nat \ {0}, NEW page \in Followed(limit, total)
    PROVE  /\ page \in Nat \ {0} /\ Skipped(limit, page) <= total
           /\ page # 1 => Skipped(limit, page) < total
<1> DEFINE q == TotalPages(limit, total)
<1>1. q \in Nat /\ (q > 0 => (q - 1) * limit < total)
  BY TotalPagesCover
<1>2. page \in 1..total + 1 /\ (page = 1 \/ page <= q)
  BY FollowedPages
<1> HIDE DEF q
<1>3. CASE page = 1
  <2>1. Skipped(limit, 1) = 0
    BY DEF Skipped
  <2> QED
    BY <1>3, <2>1
<1>4. CASE page # 1
  <2>1. q \in Nat \ {0} /\ page \in Nat \ {0} /\ page <= q
    BY <1>1, <1>2, <1>4
  <2>2. /\ Skipped(limit, page) \in Nat /\ Skipped(limit, q) \in Nat
        /\ Skipped(limit, page) <= Skipped(limit, q)
    BY <2>1, SkippedRows, Zenon
  <2>3. Skipped(limit, q) < total
    BY <1>1, <2>1 DEF Skipped
  <2> QED
    BY <1>4, <2>1, <2>2, <2>3
<1> QED
  BY <1>3, <1>4

\* Every place in a list is on one of the pages that are followed.
LEMMA OnePlaceOnePage ==
    ASSUME NEW total \in Nat, NEW limit \in Nat \ {0}, NEW i \in 1..total
    PROVE  \E at \in Followed(limit, total): \A page \in Followed(limit, total):
              (Skipped(limit, page) < i /\ i <= Skipped(limit, page) + limit) <=> page = at
<1> DEFINE q == TotalPages(limit, total)
           pages == Followed(limit, total)
           at == (i - 1) \div limit
<1>1. q \in Nat /\ q <= total /\ total <= q * limit
  BY TotalPagesCover
<1>2. pages = {page \in 1..total + 1: page = 1 \/ page <= q}
  BY FollowedPages
<1> HIDE DEF q
<1>3. at \in Nat /\ at * limit <= i - 1 /\ i - 1 < at * limit + limit
  <2>1. i - 1 \in Nat
    OBVIOUS
  <2> QED
    BY <2>1, Quotient
<1> HIDE DEF at
<1>4. at * limit \in Nat /\ Skipped(limit, at + 1) = at * limit /\ at + 1 \in Nat \ {0}
  <2>1. (at + 1) - 1 = at
    BY <1>3
  <2> QED
    BY <1>3, <2>1 DEF Skipped
<1>5. at < q
  <2> SUFFICES ASSUME q <= at PROVE FALSE
    BY <1>1, <1>3
  <2>1. q * limit \in Nat /\ q * limit <= at * limit
    <3>1. limit \in Nat
      OBVIOUS
    <3> QED
      BY <1>1, <1>3, <3>1, ProductsKeepOrder, Zenon
  <2>2. PICK a \in Nat: a = at * limit
    BY <1>4
  <2>3. PICK b \in Nat: b = q * limit
    BY <2>1
  <2>4. b <= a /\ total <= b /\ a <= i - 1
    BY <1>1, <1>3, <2>1, <2>2, <2>3, Zenon
  <2> QED
    BY <2>4
<1>6. at + 1 \in pages
  <2> HIDE DEF pages
  <2> QED
    BY <1>1, <1>2, <1>3, <1>5
<1>7. Skipped(limit, at + 1) < i /\ i <= Skipped(limit, at + 1) + limit
  BY <1>3, <1>4
<1>8. ASSUME NEW page \in pages,
             Skipped(limit, page) < i, i <= Skipped(limit, page) + limit
      PROVE  page = at + 1
  <2>1. page \in Nat \ {0}
    BY FollowedSkip
  <2>2. Skipped(limit, page) \in Nat
    BY <2>1, SkippedRows
  <2>3. CASE page + 1 <= at + 1
    <3>1. page + 1 \in Nat \ {0}
      BY <2>1
    <3>2. /\ Skipped(limit, page + 1) <= Skipped(limit, at + 1)
          /\ Skipped(limit, page + 1) = Skipped(limit, page) + limit
      BY <1>4, <2>1, <2>3, <3>1, SkippedRows
    <3> QED
      BY <1>3, <1>4, <1>8, <2>2, <3>2
  <2>4. CASE (at + 1) + 1 <= page
    <3>1. (at + 1) + 1 \in Nat \ {0}
      BY <1>3
    <3>2. /\ Skipped(limit, (at + 1) + 1) <= Skipped(limit, page)
          /\ Skipped(limit, (at + 1) + 1) = Skipped(limit, at + 1) + limit
      BY <1>4, <2>1, <2>4, <3>1, SkippedRows
    <3> QED
      BY <1>3, <1>4, <1>8, <2>2, <3>2
  <2> QED
    BY <1>3, <2>1, <2>3, <2>4
<1> QED
  BY <1>6, <1>7, <1>8

-----------------------------------------------------------------------------
(* The list of employees.                                                  *)

\* No two records have the same code, removed ones included.
CodesDiffer ==
    \A u, v \in Users:
        (HasRecord(u) /\ HasRecord(v) /\ employees[u].code = employees[v].code) => u = v

\* A record gets a new code only where the unique index lets it.
LEMMA NextKeepsCodes ==
    ASSUME TypeInv, CodesDiffer, [Next]_vars
    PROVE  CodesDiffer'
<1>1. CASE SameRecords
  BY <1>1 DEF CodesDiffer, SameRecords, HasRecord
<1>2. ASSUME NEW u \in Users, NEW row,
             \A v \in Users: employees'[v] = IF v = u THEN row ELSE employees[v],
             \/ ~CodeTaken(row.code, u)
             \/ HasRecord(u) /\ row.code = employees[u].code
      PROVE  CodesDiffer'
  <2>1. ASSUME NEW v \in Users \ {u}, HasRecord(v) PROVE employees[v].code # row.code
    BY <1>2, <2>1 DEF CodeTaken, CodesDiffer
  <2> QED
    BY <1>2, <2>1 DEF CodesDiffer, HasRecord
<1>3. ASSUME NEW h \in Handlers, EnrolSave(h) PROVE CodesDiffer'
  <2> PICK row: row = NewRecord(op[h].dto)
    OBVIOUS
  <2>1. /\ op[h].user \in Users
        /\ \A v \in Users: employees'[v] = IF v = op[h].user THEN row ELSE employees[v]
    BY <1>3, SaveWrites
  <2>2. row.code = op[h].dto.code
    BY DEF NewRecord
  <2>3. ~CodeTaken(op[h].dto.code, op[h].user)
    BY <1>3 DEF EnrolSave, RecordRefused
  <2> QED
    BY <1>2, <2>1, <2>2, <2>3
<1>4. ASSUME NEW h \in Handlers, UpdateWrite(h) PROVE CodesDiffer'
  <2> DEFINE u == op[h].user
  <2> PICK row: row = Changed(employees[u], op[h].dto, op[h].read)
    OBVIOUS
  <2>1. /\ u \in Users /\ op[h].dto \in EmployeeChanges /\ op[h].read \in EmployeeRows
        /\ employees[u] \in EmployeeRows
        /\ \A v \in Users: employees'[v] = IF v = u THEN row ELSE employees[v]
    BY <1>4, UpdateWrites
  <2>2. row.code = IF op[h].dto.field = "code" THEN op[h].dto.value ELSE employees[u].code
    BY <2>1, ChangedRow
  <2>3. HasRecord(u)
    BY <2>1, EmployeesAssumption DEF HasRecord
  <2>4. op[h].dto.field = "code" => ~CodeTaken(op[h].dto.value, u)
    BY <1>4 DEF UpdateWrite, ChangeRefused
  <2> QED
    BY <1>2, <2>1, <2>2, <2>3, <2>4
<1> QED
  BY <1>1, <1>3, <1>4, RecordSteps

LEMMA InitCodes == Init => CodesDiffer
BY FirstEmployee DEF CodesDiffer, HasRecord, FirstRow

\* In every list sorted by a column, who has a value of its own is at the place
\* that the number of those with smaller values gives.
LEMMA PlaceOfItsOwn ==
    ASSUME NEW S, IsFiniteSet(S), NEW column, \A v \in S: column[v] \in Int,
           NEW u \in S, \A v \in S \ {u}: column[v] # column[u],
           NEW rows \in Sorted(S, column),
           NEW at, at = Cardinality({v \in S: column[v] < column[u]}) + 1
    PROVE  at \in 1..Cardinality(S) /\ \A j \in 1..Cardinality(S): rows[j] = u <=> j = at
<1> DEFINE n == Cardinality(S)
           B == {v \in S: column[v] < column[u]}
<1>1. n \in Nat
  BY FS_CardinalityType
<1>2. /\ rows \in [1..n -> S]
      /\ \A i, j \in 1..n: rows[i] = rows[j] => i = j
      /\ \A i, j \in 1..n: i < j => column[rows[i]] <= column[rows[j]]
  BY DEF Sorted, Injection, IsInjective
<1>3. PICK i \in 1..n: rows[i] = u
  <2>1. rows \in Injection(1..n, S) /\ IsFiniteSet(1..n) /\ Cardinality(1..n) = n
    BY <1>1, FS_Interval DEF Sorted
  <2> HIDE DEF n
  <2>2. rows \in Surjection(1..n, S)
    BY <2>1, FS_Injection DEF n
  <2> QED
    BY <2>2 DEF Surjection
<1> HIDE DEF n
<1>4. ASSUME NEW j \in 1..n PROVE rows[j] \in B <=> j < i
  <2>1. rows[j] \in S /\ column[rows[j]] \in Int /\ column[u] \in Int
    BY <1>2
  <2>2. CASE j < i
    <3>1. column[rows[j]] <= column[u] /\ rows[j] # u
      BY <1>1, <1>2, <1>3, <2>2
    <3> QED
      BY <2>1, <2>2, <3>1
  <2>3. CASE i <= j
    <3>1. column[u] <= column[rows[j]]
      BY <1>1, <1>2, <1>3, <2>1, <2>3
    <3> QED
      BY <1>1, <2>1, <2>3, <3>1
  <2> QED
    BY <1>1, <2>2, <2>3
<1> DEFINE f == [j \in 1..i - 1 |-> rows[j]]
<1>5. f \in Bijection(1..i - 1, B)
  <2>1. 1..i - 1 \subseteq 1..n /\ \A j \in 1..i - 1: j < i
    BY <1>1
  <2>2. f \in [1..i - 1 -> B]
    BY <1>4, <2>1
  <2>3. \A j, k \in 1..i - 1: f[j] = f[k] => j = k
    BY <1>2, <2>1
  <2>4. ASSUME NEW v \in B PROVE \E j \in 1..i - 1: f[j] = v
    <3>1. PICK j \in 1..n: rows[j] = v
      <4>1. rows \in Injection(1..n, S) /\ IsFiniteSet(1..n) /\ Cardinality(1..n) = n
        BY <1>1, FS_Interval DEF Sorted, n
      <4>2. rows \in Surjection(1..n, S)
        BY <4>1, FS_Injection DEF n
      <4> QED
        BY <4>2 DEF Surjection
    <3>2. j \in 1..i - 1
      BY <1>1, <1>4, <3>1
    <3> QED
      BY <3>1, <3>2
  <2> HIDE DEF f, B
  <2> QED
    BY <2>2, <2>3, <2>4 DEF Bijection, Injection, Surjection, IsInjective
<1>6. Cardinality(B) = i - 1
  <2>1. IsFiniteSet(1..i - 1) /\ Cardinality(1..i - 1) = i - 1
    BY <1>1, FS_Interval
  <2> HIDE DEF f, B
  <2> QED
    BY <1>5, <2>1, FS_Bijection DEF ExistsBijection
<1>7. Cardinality(B) + 1 = i
  BY <1>1, <1>6
<1>8. \A j \in 1..n: rows[j] = u <=> j = i
  BY <1>2, <1>3
<1> QED
  BY <1>7, <1>8 DEF n

\* The values of a column.
LEMMA ColumnValues ==
    ASSUME TypeInv, CodesDiffer, NEW department, NEW S, S = ListedEmployees(department),
           NEW column \in SortColumns(S)
    PROVE  /\ IsFiniteSet(S)
           /\ \A u \in S: column[u] \in Int
           /\ column \in ByCode(S) => \A u \in S: \A v \in S \ {u}: column[v] # column[u]
<1>1. S \subseteq Users /\ \A u \in S: HasRecord(u)
  BY DEF ListedEmployees, Active
<1>2. IsFiniteSet(S)
  BY <1>1, EmployeesAssumption, FS_Subset
<1>3. ASSUME NEW u \in S PROVE employees[u].code \in Nat
  <2>1. employees[u] \in EmployeeRows
    BY <1>1 DEF TypeInv, TypeOK, EmployeesTypeOK, HasRecord
  <2>2. employees[u].code \in EmployeeCodes
    BY <2>1 DEF EmployeeRows
  <2> QED
    BY <2>2, ListingsAssumption
<1>4. ASSUME column \in ByCode(S)
      PROVE  \A u \in S: /\ column[u] \in Int
                         /\ \A v \in S \ {u}: column[v] # column[u]
  <2>1. \A u, v \in S: employees[u].code = employees[v].code => u = v
    BY <1>1 DEF CodesDiffer
  <2>2. CASE column = [u \in S |-> employees[u].code]
    BY <1>3, <2>1, <2>2
  <2>3. CASE column = [u \in S |-> -employees[u].code]
    <3>1. ASSUME NEW u \in S, NEW v \in S, -employees[u].code = -employees[v].code
          PROVE  employees[u].code = employees[v].code
      <4>1. employees[u].code \in Nat /\ employees[v].code \in Nat
        BY <1>3
      <4> QED
        BY <3>1, <4>1
    <3> QED
      BY <1>3, <2>1, <2>3, <3>1
  <2> QED
    BY <1>4, <2>2, <2>3 DEF ByCode
<1>5. CASE column \in [S -> Places] /\ column \notin ByCode(S)
  <2>1. \A u \in S: column[u] \in Places
    BY <1>5
  <2> QED
    BY <1>2, <1>5, <2>1, ListingsAssumption
<1> QED
  BY <1>2, <1>4, <1>5 DEF SortColumns

\* Who follows nextPage sees everyone whose value of the sorted column no other
\* has exactly once, however ties are answered, all of them when sorted by
\* code, and no empty page but the first, for any number of employees and any
\* page size: the property ShownOnce.
THEOREM ShownOnceTheorem == Spec => []ShownOnce
<1>1. ASSUME TypeInv, CodesDiffer PROVE ShownOnce
  <2> SUFFICES ASSUME NEW department \in Entries \cup {Undefined},
                      NEW S, S = ListedEmployees(department),
                      NEW column \in SortColumns(S), NEW limit \in Limits
               PROVE  LET pages == Followed(limit, Cardinality(S))
                          answers == Answers(S, column, limit)
                          alone == {u \in S: \A v \in S \ {u}: column[v] # column[u]}
                          certain == IF column \in ByCode(S) THEN S ELSE alone
                      IN  /\ \A shown \in answers, page \in pages \ {1}: shown[page] # {}
                          /\ \A u \in certain: \E page \in pages:
                               \A shown \in answers, other \in pages:
                                   u \in shown[other] <=> other = page
    BY DEF ShownOnce
  <2> DEFINE n == Cardinality(S)
             pages == Followed(limit, n)
             lists == Sorted(S, column)
             certain == IF column \in ByCode(S) THEN S
                        ELSE {u \in S: \A v \in S \ {u}: column[v] # column[u]}
  <2>1. /\ IsFiniteSet(S) /\ n \in Nat /\ limit \in Nat \ {0}
        /\ \A u \in S: column[u] \in Int
        /\ \A u \in certain: u \in S /\ \A v \in S \ {u}: column[v] # column[u]
    BY <1>1, ColumnValues, FS_CardinalityType, ListingsAssumption
  <2> HIDE DEF n, certain
  <2>2. ASSUME NEW rows \in lists
        PROVE  rows \in Seq(S) /\ Len(rows) = n
    BY <2>1 DEF Sorted, Injection, n
  <2>3. ASSUME NEW page \in pages
        PROVE  /\ page \in Nat \ {0} /\ Skipped(limit, page) <= n
               /\ page # 1 => Skipped(limit, page) < n
    BY <2>1, FollowedSkip
  <2>4. ASSUME NEW page \in pages \ {1}, NEW rows \in lists
        PROVE  Shown(rows, limit, page) # {}
    BY <2>1, <2>2, <2>3, PageRows
  <2>5. ASSUME NEW u \in certain
        PROVE  \E page \in pages: \A rows \in lists, other \in pages:
                  u \in Shown(rows, limit, other) <=> other = page
    <3>4. PICK i: i = Cardinality({v \in S: column[v] < column[u]}) + 1
      OBVIOUS
    <3>1. CASE lists = {}
      <4>1. 1 \in pages
        BY <2>1, FollowedPages
      <4> QED
        BY <3>1, <4>1
    <3>2. CASE lists # {}
      <4>1. ASSUME NEW rows \in lists
            PROVE  i \in 1..n /\ \A j \in 1..n: rows[j] = u <=> j = i
        <5>1. rows \in Sorted(S, column) /\ u \in S
          BY <2>1
        <5> HIDE DEF lists
        <5>2. \A v \in S \ {u}: column[v] # column[u]
          BY <2>1
        <5> QED
          BY <2>1, <3>4, <5>1, <5>2, PlaceOfItsOwn DEF n
      <4>2. i \in 1..n
        BY <3>2, <4>1
      <4>3. PICK at \in pages: \A page \in pages:
              (Skipped(limit, page) < i /\ i <= Skipped(limit, page) + limit) <=> page = at
        BY <2>1, <4>2, OnePlaceOnePage
      <4>4. ASSUME NEW rows \in lists, NEW page \in pages
            PROVE  u \in Shown(rows, limit, page) <=> page = at
        <5>1. u \in Shown(rows, limit, page)
                <=> \E j \in 1..n: /\ Skipped(limit, page) < j
                                   /\ j <= Skipped(limit, page) + limit
                                   /\ rows[j] = u
          BY <2>1, <2>2, <2>3, PageRows
        <5> QED
          BY <4>1, <4>2, <4>3, <5>1
      <4> QED
        BY <4>3, <4>4
    <3> QED
      BY <3>1, <3>2
  <2>6. Answers(S, column, limit) = {[page \in pages |-> Shown(rows, limit, page)]: rows \in lists}
    BY DEF Answers, n
  <2> QED
    BY <2>4, <2>5, <2>6 DEF n, certain
<1> QED
  BY InitTypes, NextKeepsTypes, InitCodes, NextKeepsCodes, <1>1, PTL DEF Spec

=============================================================================
