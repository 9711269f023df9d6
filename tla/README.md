# Verification of the attendance and HR backend

The repository is a NestJS server (TypeScript, TypeORM over MySQL) for HR:
employees and their logins, shifts, work weeks and holidays, attendance from
fingerprint devices and from the web, regularization requests, and leave.
This directory holds TLA+ models of its core, the TLC configurations that check
them on small instances, and proofs that TLAPS checks for every instance.

What makes this code hard is one thing in many places: **no service method runs
in a transaction**. A handler is a sequence of awaits on repositories, each of
them one atomic database statement, and Node interleaves the handlers of all
requests and of the cron job between any two of them. Checks are made on rows
that may have changed by the time they are relied on; only unique indexes hold
unconditionally. A crash keeps the tables and forgets the handlers.

## The system's parts

| Part | State | Operations | Talks to |
|---|---|---|---|
| Attendance (`attendance.service.ts`) | `attendance_punches` (unique `externalId`), `attendance_records` (unique user and date), the in-memory flag `finalizing` | `recordPunch`, `recordBatchPunches`, `recordDevicePunches`, `manualCorrection`, `bulkCorrection`, `applyRecord`, hourly `finalizeRecentAttendance` | reads shifts, work weeks, holidays, the leave ledger, employees |
| Regularization requests (`attendance-request.service.ts`) | `attendance_requests` | `create`, `cancel`, `review` | calls `applyRecord` |
| Webhook (`webhook/`) | none | parses device lines | calls `recordDevicePunches` |
| Leave (`leave.service.ts`) | `leave_types`, `leave_allocations` (unique employee, type, year), `leave_ledger_entries` | types CRUD, `allocate`, `runMonthlyAccrual`, `transact` | reads employees; attendance reads its usage entries |
| Shifts (`shifts/`) | `shifts`, `shift_assignments`, `employees.defaultShiftId` | create, update, remove, assign, bulkAssign, removeAssignment, resolution for a user and date | writes employees; read by attendance |
| Work weeks (`workweeks/`) | patterns, their assignments, overrides (unique user and date) | patterns CRUD, assign, overrides, weekday swaps, resolution for one and for many people | read by attendance and by the list of employees |
| Holidays (`holidays/`) | `holidays` | CRUD, comparison of dates | read by attendance |
| Authentication (`auth/`) | the password, verification and state of `users`; one row of one-time code per user (`otps`); `refresh_tokens` | register, login, verifyOtp, refreshToken, logout, logoutAll, forgotPassword, resetPassword | email queue |
| Employees (`employees/`) | `employees` (unique user, code and device) | enroll (login, then record), update and its mirror in the login, enrollBiometric, remove, paged list | users, shifts, work weeks, departments |
| Users (`users/`) | `users` (unique email) | update, delete, metadata synced from an employee | employees |
| Departments, designations, branches, companies | four tables of named rows, removed softly | create, update, remove | employees refer to departments, branches to companies |
| Settings, seed, Redis, S3, queue, mail, guards | outside, or no state | - | - |

What would make each of them correct, and where it is hard:

* **Attendance**: a day's record is a function of the day's punches, whatever
  the order, repetition and batching in which they arrived; administrators'
  decisions are not undone by later punches; every past day of an active
  employee ends up with a record; an external id is counted once. Hard because
  of the finalizer and corrections that interleave with recomputation, devices
  that report late and again, and crashes between storing and recomputing.
* **Requests**: a request is decided once, an approval reaches the record, a
  rejection does not. Hard because `cancel` and `review` check and save apart.
* **Leave**: each entitlement is credited once, one way. Hard because a run of
  the accrual can be repeated, overlap with another or be cut short.
* **Calendar** (shifts, work weeks): what is derived of a row follows the row; a
  swap is whole; the two routines that resolve a pattern agree. Hard because an
  update works out derived columns from a row it read an await earlier.
* **Authentication**: a refresh token has one successor; revocation ends all
  sessions; a code is accepted once, within its attempts and its time. Hard
  because a refresh stores its new token before it consumes the old one, and
  because a revocation, a login or another refresh may come in between.
* **Employees**: a login and an employee exist together or not at all, and the
  login mirrors its employee. Hard because each is two writes.
* **Directory** (departments, companies, branches, designations): a name is used
  once. Hard because each service checks names its own way, and none checks
  again at updates.

`PROJECT.json` lists the hazards one by one, at their lines.

## Modules

| Module | Models |
|---|---|
| `AttendanceRules` | the pure computations of the attendance service, as operators: shift window, debounce, labels by order, metrics, status |
| `AttendanceDay` | one day at a device: punches arrive in any order, the rules are checked against what they promise together |
| `Attendance` | the attendance service: every writing operation, await by await, plus the passing of days and crashes |
| `AttendanceRequests` | extends `Attendance` with the regularization requests; an approval goes on as an `applyRecord` of the same handler |
| `LeaveLedger` | leave types, allocations, the ledger and the accrual run |
| `RefreshChains` | abstract: what refresh-token rotation promises, without handlers, tables or awaits |
| `Sessions` | the authentication service over one account, await by await, with expiry and crashes; implements `RefreshChains` |
| `ServiceCalls` | how handlers of the services below run, interleave and crash, and how many there are |
| `Directory` | departments, companies, branches and designations |
| `Employees` | extends `Directory` with logins and employee records |
| `Calendar` | extends `Employees` with shifts, work weeks, assignments, overrides, swaps and their resolution |
| `Workforce` | the composition of the three: one server, shared tables |
| `Listings` | the paged lists, over the states of `Workforce` |
| `OrderLemmas` | least and greatest elements, smallest sets of a family: lemmas the proof modules share |
| `AttendanceDayProofs` | theorems on `AttendanceDay`: the status rule, the minutes, the debounce |
| `AttendanceProofs` | theorems on `Attendance`: types, the finalizer's flag, external ids, decisions |
| `RecordProofs` | extends it: records and labels agree with the punches |
| `RequestsProofs` | theorems on `AttendanceRequests`; cites both for the steps of `Attendance` |
| `LedgerProofs` | theorems on `LeaveLedger` |
| `SessionsProofs` | theorems on `Sessions`: types, one-time codes, ended sessions, the refinement, resets |
| `WorkforceProofs` | theorems on `Workforce` and `Listings`, so on `Directory`, `Employees` and `Calendar` together |
| `MCAttendance`, `MCAttendanceDay`, `MCAttendanceRequests`, `MCLeaveLedger`, `MCSessions`, `MCWorkforce` | small instances for TLC |

### How the state corresponds to the code

`Attendance.punches` says for every punch that may be reported whether it is
stored, and under which type; `records` is the table of records, by its unique
index. Only the columns that decide something are kept: the four minute columns
are functions of the two instants and the shift, and their rules are checked in
`AttendanceDay`. `op[h]` is the local state of handler `h`: `pc` names the await
it stands at, `todo` the items of its batch still to come, `seen`, `affected`,
`key`, `data` are the variables of the method, `rows` the updates of the
relabelling still to be made, `days` the days left to the finalizer. A handler
that is idle takes a new request at any time, so a request may be repeated.

The order in which a method works off a set (affected days, employees without a
record) is left open: it is that of a `Set`'s insertions or of a query without
ORDER BY. Reads of tables that no action of the module changes (shifts,
calendar, employees) are folded into the step that uses them and given as
constants: `ShiftOf` is the answer of `resolveShiftForAttendance`,
`ShiftLookupFails` says where it throws (the pattern's default shift is
deleted), `CalendarOf` is the first of holiday, weekly off and leave.

Instants are seconds from the midnight of the day in question: MySQL's
`datetime` keeps whole seconds. `Math.round` on minutes rounds halves up, below
zero as well (`RoundMinutes`). The server's time zone is taken to have no
daylight-saving change, and bridge and server to share it, as
`parseDeviceTime`'s comment assumes.

`LeaveLedger` counts days in hundredths, as the decimal columns do; `toFixed(2)`
of half a hundredth depends on the binary fraction and is a choice between the
two neighbours. The ledger is a bag of rows. A race whose loser only gets an
error (two updates of one type, two creations of one code) is one atomic step.

`Sessions` is one user: every table of the component is keyed by the user, so no
step for one user touches another's rows. `tokens` is `refresh_tokens` by token
hash, `otp` the user's row of `otps`, `delivered` what a client has in hands: a
refresh token is used by whoever got it, whether it is revoked is up to the
table. Hashes are what they hash; `gives` is what the answer will carry. The
JWTs that allow one step (verification of an address, of a reset, the reset
itself) never expire in the model, which allows a client more than the code
does. Access tokens are tied to no session, in the code as well. `Enrol` stands
for the account `EmployeesService.enroll` or the seed creates; `RemoveAccount`
for a user who is deleted, deactivated or suspended. `save()` of a row is one
step: TypeORM wraps its SELECT and its UPDATE in a transaction.

`RefreshChains` knows tokens, the session each belongs to, and which are live.
`Sessions` maps `live` to the tokens that were opened and are unrevoked, and
`session` to the first token of `opened[t]`. A refresh opens its token only when
it has consumed the old one, since until then no client can get the new one.

`Directory`, `Employees` and `Calendar` hold one table per variable, each row a
record of the columns that decide something, `Null` where there is none; ids are
given in order, as new uuids are all alike. A removal is soft (`removed`) where
the code's is. A request whose checks nothing can invalidate before its only
write is one step (`Instant`), every other one keeps what it read in `op[h]`
until it writes. `shiftPlan` and `patternPlan` are sequences because the same
row may be saved twice. Of assignments that start on the same date the database
may return either, so `WorkDays` and `ActivePatterns` are the sets of answers
that the two routines may give. Resolving a shift is not part of `Calendar`: its
answer is an input of `Attendance`. Of what a login shows of its record the
department is kept; the phone number, which an update copies too but the login's
owner may change by `PATCH /users/me`, is not.

History variables (`disturbed`, `contended`, `interrupted`, `overlapped`,
`switched`; in `Sessions` also `opened`, `ended`, `cutShort`, `guesses`, `used`;
in `Workforce` `renamed`, `raced`, `writer`, `excused`, `asked`, `blurred`)
record interference. They guard no action; the properties use them to
say *when* the code keeps its promise. What they leave out is not promised: the
violation runs show the lost decision, the overwritten record, the doubly decided
request and the doubly credited month; the others (`raced`, `writer`, `blurred`,
...) stand for overlapping requests that the code does not guard against.

## Runs

Passing runs:

* `attendance_day`: all sets of ten punch times, around the grace limits of a day
  and of an overnight shift and closer than the debounce. The debounce keeps the
  first punch of every run and no other (`DebounceKeepsFirstOfRun`); the day
  spans its first to its last punch though labels are given before debouncing
  (`DeviceDaySpan`); arriving earlier or leaving later never worsens a status
  (`LongerStayNeverWorse`), nor does a punch after the last of a complete day, or
  the debounce or more before its first (`EndPunchNeverWorsens`); worked, break,
  late and early-leave minutes add up (`MinutesAddUp`). Any other punch may worsen
  a day: it can start a run that swallows the last one. One shortly before the
  first needs a chain of close punches through the day for that, as with punches
  at 09:11, 09:15 and 09:19, a debounce of five minutes and another punch at 09:07:
  the check-out moves from 09:19 to 09:15.
* `attendance`: one employee, two days, one request at a time, two cron
  invocations, one crash; punches that are early, late, repeated, unreadable or
  of an unknown PIN. Records of settled days are what the punches say
  (`RecordsMatchPunches`), labels are those of the whole day
  (`DevicePunchesLabelledByOrder`), the flag `finalizing` is exact
  (`FinalizerFlagIsExact`), corrections stick (`DecisionsStick`), and past days
  are finalized whatever run failed before (`EventuallyFinalized`).
* `attendance_races`: two requests at a time, which may be the same log twice or
  two punches under one external id, a bulk correction whose second item fails,
  and a finalizer that meets an employee whose shift cannot be resolved.
* `attendance_requests`: two handlers review and cancel a request while a punch
  arrives, the finalizer runs and the server crashes. A request is decided once
  (`DecidedOnce`), an approval is what the day shows (`ApprovedIsApplied`), and
  nothing but an approval is (`OnlyApprovedIsApplied`).
* `leave_ledger`: two handlers, two employees, one type, an entitlement of 14
  days or none, one month, one manual transaction, one crash. A month is credited
  once (`AccruedOncePerMonth`), a lump once and in full (`LumpCreditedOnce`), an
  entitlement one way only (`NeverBothWays`), and a run that returns has credited
  everything it found (`CompletedRunsCreditAll`). It may stop: codes of leave
  types are never free again, so deadlock is not checked there.

* `sessions`: two requests at a time register, log in, verify, refresh, reset and
  log out, while tokens and codes expire, the account is removed and the server
  crashes. The token table implements the rotation of `RefreshChains`
  (`ImplementsChains`): one successor per token unless two requests used it at the
  same moment. No token of a session that was ended comes back
  (`SessionsStayEnded`). After a reset only sessions of the new password are
  usable (`OldPasswordOpensNothing`), but for logins that had read the old one
  and a crash between the two writes, which the code does not guard against. A
  code is guessed at most `MaxAttempts` times, plus one per request that read the
  row at the same time (`GuessesBounded`), and an accepted code is gone
  (`UsedCodesAreGone`). Accounts and tokens run out, so it may stop.
* `workforce`: two requests at a time to all services, with a crash. A name in the
  directory is not used again, removed rows included, unless by an update or a
  race (`NamesNotReused`); an enrolment leaves login and record or neither
  (`EnrolmentsComplete`), but for a crash, a rival that took its code or device
  after the check, and what it does not check (below); the login mirrors its record's department, also one
  that was taken away (`DepartmentMirrored`); a name is made of its parts
  (`NameOfParts`); a shift's overnight flag follows its times
  (`OvernightFollowsTimes`); no weekday is both working and off
  (`PatternDaysDisjoint`); a swap has both halves (`SwapsAreWhole`); both ways to
  resolve a pattern agree (`BatchAgreesWithSingle`); following `nextPage` shows
  once every employee whose value of the sorted column is nobody else's, which
  sorted by `employeeCode` is everyone (`ShownOnce`). Ids run out, so it may stop.

Violation runs, each a promise of a comment or a message that the code does not
keep, with the shortest history that breaks it:

* `finalizer_overwrites`: the finalizer lists the employees without a record, a
  punch of one of them is recorded, the finalizer's upsert finds that record and
  replaces it by an empty one.
* `decision_overwritten`: recomputation sees no decision, a correction is saved,
  the recomputed record is written over it.
* `finalizer_starves`: one employee's deleted default shift ends every run of the
  finalizer; an employee after that one never gets a record.
* `review_race`: two handlers read a request as pending; the later save wins,
  an approval of a cancelled request included.
* `leave_accrual_twice`: two overlapping runs of a month credit it twice.

### Bounds and why they are enough

Every bound is a constant marked BOUND. Two handlers are enough for every race
above, since each is between one check and one write of another handler; a third
would only repeat one of them. Two days give the finalizer a completed day and
punches that arrive late; a lookback of three then covers all past days. The
punches of the instance include a complete day, a mobile check-out between the
two device punches, and one punch for each way of being refused. The finalizer
sees the shift of the employee only through the constants, so one shift is
enough there; the arithmetic of shifts has its own run, and theorems.

`sessions` has three refresh tokens, which is a session, its successor and one
more (a second successor, or another session), two passwords, two codes, one
attempt at a code, four requests (logouts not counted) and one crash: 261,510
states up to the symmetry of handlers, tokens, passwords and codes. That is
enough for two refreshes of one token with a reset between them.

`workforce` bounds what a behaviour has of each service (`Budgets`) rather than
all of it at once: four requests to the directory; two on employees with a crash,
or three without; one to the directory and two on employees; one on employees
and one to the calendar with a crash; three to the calendar. Every pair of
services whose tables meet runs together, and every race of two requests has a
third before or after it where it needs one: 779,776 states. An update of an
employee changes one property, and an enrolment gives a device id, a department
or neither, or cannot be stored for another reason (`Enrolments`); an update of a
pattern changes its days or its default shift (`PatternUpdates`). An employee code
and a device id may be `''`. Three employees on pages of one or two, and two
places for the values of a column, give full and partial last pages, and ties on
either side of a page's end. The instance starts with one department, one
employee, one shift and one pattern, as none of them depends on how it came to be.

### Fairness

`EventuallyFinalized` assumes that every await of a running handler is resumed
(the event loop and the database driver do that, or the await rejects, which is a
step too) and that the cron job fires again and again while it is not running
(`@Cron(EVERY_HOUR)`). Users, administrators, the calendar and crashes are under
no obligation. The finalizer's own progress needs nothing stronger than weak
fairness, since no step of a handler is disabled by another's.

## Proofs

All proofs are checked by TLAPS for all values of the constants, under the named
assumptions of the modules: `NullIsNoValue`, `DayAssumption` and
`AttendanceAssumption`, `RequestsAssumption` and `CorrectionsAreManual`,
`LeaveAssumption`, `SessionsAssumption`, `NullIsNoRow` and `NullIsNoOpening`,
`CallsAssumption`, `DirectoryAssumption`, `EmployeesAssumption`,
`CalendarAssumption`, `RowsAssumption` and `ListingsAssumption`. They say that the values the code keeps
apart are different, that what is counted is finite, that there is something to
ask for, and that DTOs satisfy their validators. TLC evaluates all of them.

Attendance:

* `LongerStayTheorem`, `MinutesAddUpTheorem`: the status rule is monotone and the
  minutes add up, for every shift and all instants. They rest on
  `RoundMinutesIsMonotone` and `RoundMinutesIsClose`.
* `DebounceTheorem`: `dedupeClosePunches` recurses over what is left of the day,
  and induction over data is not available, but the argument can do without.
  `FirstsOfRuns` says what a debounced day is with no recursion; every finite day
  has exactly one such set (`FirstsExist`, by a smallest counterexample, and
  `FirstsAreUnique`, by the earliest difference), so the function that gives each
  part of the day that set solves the recursion, and any solution agrees with it
  (`DedupeKeepsFirsts`).
* `DeviceDaySpanTheorem`, `EndPunchTheorem`: from there the check-in is the earliest
  punch and the check-out the latest other one kept. A punch at an end changes the
  kept ones by itself at most (`FirstsBeforeLast`, `FirstsAfterFirst`), so the stay
  gets no shorter, and a longer stay is never worse (`LongerStay`).
* `TypeCorrect`: typing alone is not inductive. `TypeInv` adds that stored punches
  have a user and a time (`PunchesSound`), that each `pc` guarantees the fields its
  await uses: a handler about to write holds a record, one at an insert has an
  item (`OpSound`), and that the rows of a relabelling are stored punches
  (`RowsStored`).
* `FlagTheorem`, `ExternalIdTheorem`: the flag and the single run are inductive
  together, given `TypeInv`; so is the uniqueness of stored external ids, because
  the insert is guarded by the index and nothing else stores a punch.
* `DecisionsStickTheorem`: from `TypeInv` and `DecisionInv`. A handler that
  recomputes a day relies on the day not being a decision; the invariant says that
  this stays true until its write, unless the day was disturbed. The write of a
  record over a decision is then a write on a disturbed day.

* `RecordsMatchTheorem`, `LabelsTheorem`, from `RecordInv`. A stored punch whose day
  does not show it is owed: some handler still has the day among those to recompute,
  to relabel or to write, or a crash or an overlap has disturbed it (`Accounted`,
  `Labelled`). What a handler has read of a day that is not disturbed is still what
  the table says when it writes (`Sees`), because a second writer of the same day
  disturbs it; and the handlers' own variables fit together (`Local`).

Requests, with what is proved of Attendance cited for its steps:

* `RequestsTypeCorrect`: most steps are steps of `Attendance` that leave the
  requests alone (`AttendanceSteps`), or the other way round.
* `DecidedOnceTheorem`: from `DecideInv`. A request in the hands of one handler is
  still pending, one in the hands of two is contended.
* `OnlyApprovedTheorem`: a correction in a record is traced back to the handler
  that carries it, and from there to the decision that put it there.

* `ApprovedTheorem`, from `ApplyInv`: while the day of an approved request does not
  show a decision, the handler that approved it carries the correction, and its
  write is still to come, or the day was disturbed. What else writes the day is known
  from `RecordInv`.

Leave (a bag grows by one row at each insert, `CreditAdds`):

* `LedgerTypeCorrect`: `TypeInv` adds that what a run found is allocated.
* `AccruedOnceTheorem`, from `OnceInv`: what a run has checked is still not
  credited when it inserts, unless a second run had checked the same.
* `CompletedRunsTheorem`, from `RunInv`: what a run has worked off is credited,
  and a credit stays.
* `NeverBothWaysTheorem`, from `MethodInv`: a row of the ledger was credited by the
  method its type had, and a change of method is on record.
* `LumpCreditedOnceTheorem`, from `LumpInv`: of the handlers that insert one
  allocation only one credits it, and until then there is no lump.

Sessions:

* `TypeCorrect`: a row is only updated where there is one. `TypeInv` adds what each
  `pc` guarantees and that a token in an answer is nobody else's yet.
* `GuessesBoundedTheorem`, `UsedCodesTheorem`, from `CodesInv`: a wrong guess is
  counted in the row, about to be counted by one of finitely many handlers, or
  lost in a crash (`GuessesCounted`); a handler saves over a row only a code of its
  own, so an accepted one does not come back.
* `SessionsStayEndedTheorem`, from `ChainInv`: a refresh stores its new token before
  it looks the old one up, so that a revocation after that revokes both; what it
  will give in a session that was ended is of no use.
* `ImplementsChainsTheorem`: `Init` maps to `Init` and every step to a step of
  `RefreshChains` or a stutter. The save of the old token is the hard step: by then
  somebody else may have revoked the row, and `RotationInv` says who.
* `OldPasswordTheorem`, from `PasswordInv`: it follows a session from the moment a
  login has read the account, before there is a token, into refreshes whose old
  token is revoked by now, and says that its password is the account's, or why not.

Workforce, over all services at once, since they share handlers and tables; for
each invariant the steps of the services that do not touch its tables are one
lemma (`NamesElsewhere`, `RowsElsewhere`, ...):

* `WorkforceTypeCorrect`: `TypeInv` adds that the rows a handler is about to write
  are there (`Sound`). Removals are soft, and a login with a record is not deleted.
* `NamesNotReusedTheorem`, from `NamesInv`: a handler about to save a row has found
  its name free, so a row or a handler with the same name came later, which is a
  race, or was renamed.
* `OvernightTheorem`, `PatternDaysTheorem`, `SwapsAreWholeTheorem`, from `RowsInv`:
  what a handler of the calendar has checked (`Checked`) is still true when it
  writes. Both rows of a swap are one save, and no row of an override is replaced.
* `NameOfPartsTheorem`: a save writes a part and the whole name together or leaves
  both. It needs no more than `TypeInv`.
* `EnrolmentsCompleteTheorem`, from `EnrolInv`: an enrolment between its two writes
  has a login that is nobody else's and has no record; one that nobody rivalled
  finds its code and its device free, so that its second write succeeds unless what
  the code never checks (`Unchecked`) refuses it.
* `DepartmentMirroredTheorem`, from `DepartmentInv`: the update that wrote a
  department last still holds that department when it mirrors it.

* `BatchAgreesTheorem`: one routine takes a row that none starts after, the other a
  row that starts last; of finitely many rows these are the same
  (`RowsThatStartLast`, by `FiniteHasGreatest`), and there are some.
* `ShownOnceTheorem`: whoever has a value of the sorted column alone is, in every
  list that a query may answer with, at the place that the number of smaller values
  gives (`PlaceOfItsOwn`). The pages that `nextPage` leads to are those up to the last
  (`FollowedPages`), and each place is on one of them (`OnePlaceOnePage`). No two
  records have one code (`CodesDiffer`, inductive because a code is only written
  where the unique index lets it), so that by code it is everyone.

Every invariant and every action property that a passing run checks is proved, and
so is the refinement. Model-checked only: `EventuallyFinalized`, which is liveness.
The violation runs are about single histories and need no proof.

## Not modelled

* Queries, exports and statistics: no state, and what they compute is stated
  nowhere but in their code. Of the lists only that of the employees is modelled,
  and of its filters only equality with a column. The attendance overview counts and lists in two queries, and
  nothing promises that they agree.
* Parsing of device lines, DTO validation, guards and roles: functions of one
  request. The rate limiter is a provider that no route uses.
* Holidays: single-row writes without checks, and a comparison of dates. The
  answer is an input of `Attendance`.
* Settings and seed: the settings row would be made by `seedData`, which nothing
  calls. The seed of roles and of the administrator runs before requests are served.
* Redis, S3, the queue and mails: libraries. A mail is handed to the queue, and no
  table says whether it was sent.
* `POST /users`: its DTO has no password and the column demands one, so it always
  fails and is no action. `UserService.findAll` with a search term sends `ILIKE`
  to MySQL, which has none: an error, not a state.

Modelled, but with no property, since no doc, comment or test says what should
hold:

* An empty `attendanceDeviceId` is not checked (`ensureAttendanceDeviceIdAvailable`)
  but saved as `''` under the unique index, so that the second enrolment with one
  leaves a login without a record; so does one whose company, department,
  designation, branch or default shift does not exist, or with a value that a column
  refuses. `EnrolmentsComplete` leaves these out (`Unchecked`).
* `findAll` of the employees has no tie-breaker. By default it sorts by `createdAt`,
  which need not differ, as the name and the date of joining need not: each query
  may take ties in another order (`Sorted`), so that somebody may be on two pages or
  on none. `ShownOnce` says who cannot.
* A check-out after midnight is accepted because of the day before's overnight
  shift but counted for its own date (`PunchWithinShiftWindow`, `Recomputed`).
* A batch that fails half-way is not repaired by sending it again: its punches are
  duplicates by then and recompute nothing. Days left like that are `disturbed`.
* A shift that is removed keeps its assignments, and an assignment that is removed
  stays the employee's default shift. A date whose override was removed cannot be
  overridden again. Removing a half of a swap leaves the other in force.
* An update of a shift that does not say `isOvernight` works it out anew, also where
  an earlier request had said otherwise. A pattern's default shift cannot be
  cleared by an update, only replaced.
* A department, branch or designation is renamed without any check of its new name;
  of companies the name is a unique column.
* Twelve monthly credits, each rounded, need not add up to the entitlement.

## Order of work, and what is left

Attendance came first, since everything else feeds it; then leave, sessions and
the tables of the workforce, each checked before it was proved about. What is
left, in order:

1. `resolveShiftForUser` in `Calendar`, so that `ShiftOf` and `CalendarOf` of
   `Attendance` become answers of the composed system instead of constants.
2. An abstract specification of the record table (a day is what its punches or its
   last decision say) that `Attendance` implements on undisturbed days.
