----------------------------- MODULE Attendance ------------------------------
(***************************************************************************)
(* AttendanceService at work: punches arrive one by one, in batches or     *)
(* from the device bridge; administrators correct days; an hourly job      *)
(* finalizes past days; the server crashes and restarts.                   *)
(*                                                                         *)
(* The service runs no transactions.  Every await on a repository is one   *)
(* atomic database step, and handlers interleave between them: op[h] is    *)
(* the local state of handler h, with pc naming the await it stands at.    *)
(* Reads of data that nothing in this module changes (shifts, calendar,    *)
(* employees) are folded into the step that uses them.                     *)
(***************************************************************************)
EXTENDS AttendanceRules, Sequences, Functions

CONSTANTS
    Users, ActiveEmployees,     \* employees; those with status ACTIVE
    MaxDate,                    \* BOUND: the calendar has days 1..MaxDate
    Lookback,                   \* FINALIZE_LOOKBACK_DAYS
    Debounce,                   \* PUNCH_DEBOUNCE_MINUTES, in seconds
    ExternalIds,                \* idempotency keys of punches
    Punches,                    \* the punches that may be reported
    DtoBatches, DeviceBatches,  \* bodies of the batch and of the device endpoint
    Corrections,                \* bodies of the correction endpoints
    ShiftOf,                    \* resolveShiftForAttendance(user, date)
    ShiftLookupFails,           \* where it throws: the default shift is deleted
    CalendarOf,                 \* holiday, weekly_off, on_leave or Null
    Requests,                   \* BOUND: handlers of HTTP requests
    Crons,                      \* BOUND: invocations of the cron job
    MaxCrashes,                 \* BOUND: crashes of the server
    Undefined                   \* JavaScript's undefined

Dates == 1..MaxDate
Keys == Users \X Dates          \* the unique index of attendance_records
Handlers == Requests \cup Crons

\* A punch as a client reports it.  user is Null for a device PIN that is no
\* employee's number, at is Null for a device time that does not parse.
PunchReports ==
    [user: Users \cup {Null}, date: Dates,
     at: 0..(SecondsPerDay - 1) \cup {Null},
     punchType: PunchTypes, source: PunchSources,
     externalId: ExternalIds \cup {Null}]

Instant == Nat \cup {Null}

Records ==
    [checkInAt: Instant, checkOutAt: Instant,
     attendanceStatus: AttendanceStatuses, source: AttendanceSources]

\* The parameters of applyRecord.
ApplyParams ==
    [user: Users, date: Dates,
     attendanceStatus: AttendanceStatuses \cup {Undefined},
     checkInAt: Instant \cup {Undefined}, checkOutAt: Instant \cup {Undefined},
     source: {"manual", "regularization"}]

ASSUME AttendanceAssumption ==
    /\ ActiveEmployees \subseteq Users
    /\ MaxDate \in Nat \ {0} /\ Lookback \in Nat /\ Debounce \in Nat /\ MaxCrashes \in Nat
    /\ Punches \subseteq PunchReports /\ IsFiniteSet(Punches)
    /\ DtoBatches \subseteq Seq(Punches) /\ DeviceBatches \subseteq Seq(Punches)
    /\ \A items \in DtoBatches: \A e \in Range(items): e.user # Null /\ e.at # Null
    /\ \A items \in DeviceBatches: \A e \in Range(items): e.externalId # Null
    /\ Corrections \subseteq Seq(ApplyParams)
    /\ ShiftOf \in [Keys -> ShiftRows \cup {Null}]
    /\ ShiftLookupFails \subseteq Keys
    /\ CalendarOf \in [Keys -> {"holiday", "weekly_off", "on_leave", Null}]
    /\ Requests \cap Crons = {}
    /\ Null \notin Users \cup Keys \cup ExternalIds \cup PunchTypes \cup Records
    /\ Undefined \notin Instant \cup AttendanceStatuses

VARIABLES
    today,          \* the server's date
    punches,        \* attendance_punches: the type stored for a punch, or Null
    records,        \* attendance_records: the record of a user and day, or Null
    finalizing,     \* AttendanceService.finalizing
    op,             \* the local state of every handler
    crashes,        \* crashes so far
    disturbed       \* HISTORY: days on which handlers overlapped or were lost

vars == <<today, punches, records, finalizing, op, crashes, disturbed>>

Idle ==
    [kind |-> "idle", pc |-> "idle", todo |-> <<>>, seen |-> {}, affected |-> {},
     key |-> Null, rows |-> {}, data |-> Null, exists |-> FALSE,
     changes |-> <<>>, days |-> <<>>]

Kinds == {"idle", "punch", "batch", "device", "apply", "final"}
Steps == {"idle", "items", "insert", "relabel", "read", "upsert", "write",
          "apply", "days"}

Ops ==
    [kind: Kinds, pc: Steps, todo: Seq(Punches), seen: SUBSET ExternalIds,
     affected: SUBSET Keys, key: Keys \cup {Null},
     rows: SUBSET (Punches \X PunchTypes), data: Records \cup {Null},
     exists: BOOLEAN, changes: Seq(ApplyParams), days: Seq(Dates)]

TypeOK ==
    /\ today \in Dates
    /\ punches \in [Punches -> PunchTypes \cup {Null}]
    /\ records \in [Keys -> Records \cup {Null}]
    /\ finalizing \in BOOLEAN
    /\ op \in [Handlers -> Ops]
    /\ crashes \in 0..MaxCrashes
    /\ disturbed \subseteq Keys

Init ==
    /\ today = 1
    /\ punches = [e \in Punches |-> Null]
    /\ records = [k \in Keys |-> Null]
    /\ finalizing = FALSE
    /\ op = [h \in Handlers |-> Idle]
    /\ crashes = 0
    /\ disturbed = {}

-----------------------------------------------------------------------------
(* What the handlers read and compute.                                     *)

KeyOf(e) == <<e.user, e.date>>

Stored(k) == {e \in Punches: punches[e] # Null /\ KeyOf(e) = k}

ExternalIdStored(id) == \E e \in Punches: punches[e] # Null /\ e.externalId = id

\* An admin correction or an approved regularization.
IsDecision(record) == record # Null /\ record.source \in {"manual", "regularization"}

\* The record recomputeRecord writes for day k.
Recomputed(k) ==
    LET effective == DedupeClosePunches(Stored(k), Debounce)
        cin == FirstPunchAt({e \in effective: punches[e] = "in"})
        cout == LastPunchAt({e \in effective: punches[e] = "out"})
        base == ComputeMetrics(cin, cout, ShiftOf[k]).derivedStatus
    IN  [checkInAt |-> cin,
         checkOutAt |-> cout,
         attendanceStatus |->
            DerivedStatusForDay(base, effective # {}, CalendarOf[k]),
         source |-> IF effective = {} THEN "system"
                    ELSE MapPunchSource(Latest(effective).source)]

\* FAULT: undefined is written through.
KeptOrUndefined(given, k, column) == given

\* A parameter that is undefined keeps the column of the existing record.
KeptOr(given, k, column) ==
    IF given # Undefined THEN given
    ELSE IF records[k] = Null THEN Null ELSE records[k][column]

\* The record applyRecord writes for day k.
Applied(k, attendanceStatus, checkInAt, checkOutAt, source) ==
    LET cin == KeptOr(checkInAt, k, "checkInAt")
        cout == KeptOr(checkOutAt, k, "checkOutAt")
        base == ComputeMetrics(cin, cout, ShiftOf[k]).derivedStatus
    IN  [checkInAt |-> cin,
         checkOutAt |-> cout,
         attendanceStatus |->
            IF attendanceStatus # Undefined THEN attendanceStatus
            ELSE DerivedStatusForDay(base, cin # Null \/ cout # Null, CalendarOf[k]),
         source |-> source]

\* The biometric punches of day k whose stored type is not their order's.
WrongLabels(k) ==
    LET biometric == {e \in Stored(k): e.source = "biometric"}
    IN  {<<e, OrderLabel(e, biometric)>> :
            e \in {f \in biometric: punches[f] # OrderLabel(f, biometric)}}

PreviousShift(e) == IF e.date = 1 THEN Null ELSE ShiftOf[<<e.user, e.date - 1>>]

InWindow(e) == PunchWithinShiftWindow(e.at, ShiftOf[KeyOf(e)], PreviousShift(e))

\* The device time does not parse, or a shift the window check asks for
\* cannot be resolved; the shift of the day before is asked for only when
\* the punch is outside its own day's window.
CheckThrows(e) ==
    \/ e.at = Null
    \/ KeyOf(e) \in ShiftLookupFails
    \/ /\ <<e.user, e.date - 1>> \in ShiftLookupFails
       /\ ShiftOf[KeyOf(e)] # Null
       /\ ~InsideShiftWindow(e.at, ShiftOf[KeyOf(e)])

\* Device items of unknown PINs, and external ids met before in the batch.
PassedOver(h, e) == e.user = Null \/ e.externalId \in op[h].seen

-----------------------------------------------------------------------------
(* History.  A handler is engaged on a day from the first read it will     *)
(* base a write on until that write.  A day is disturbed once its punches  *)
(* or record are written while another handler is engaged on it, or once   *)
(* a handler that stored a punch of it is lost before it recomputed it.    *)

Engaged(h) == IF op[h].kind = "final" THEN op[h].affected ELSE {op[h].key} \ {Null}

Ingesting(h) == op[h].kind \in {"punch", "batch", "device"}

Owed(h) == IF Ingesting(h) THEN op[h].affected ELSE {}

Writes(h, k) ==
    disturbed' = IF \E g \in Handlers \ {h}: k \in Engaged(g)
                 THEN disturbed \cup {k}
                 ELSE disturbed

-----------------------------------------------------------------------------
(* Control shared by the handlers.                                         *)

\* FAULT: the flag is reset after the loop, but not in a finally.
LeaveWithoutFinally(h) ==
    /\ op' = [op EXCEPT ![h] = Idle]
    /\ finalizing' = (finalizing /\ ~(op[h].kind = "final" /\ op[h].affected = {}))

\* The handler returns, or its exception leaves it.  finalizeRecentAttendance
\* resets its flag in a finally.
Leave(h) ==
    /\ op' = [op EXCEPT ![h] = Idle]
    /\ finalizing' = (finalizing /\ op[h].kind # "final")

Return(h) == Leave(h) /\ UNCHANGED <<today, punches, records, crashes, disturbed>>

Throw(h) ==
    /\ Leave(h)
    /\ disturbed' = disturbed \cup Owed(h)
    /\ UNCHANGED <<today, punches, records, crashes>>

Begin(h, state) ==
    /\ op[h].kind = "idle"
    /\ op' = [op EXCEPT ![h] = state]
    /\ UNCHANGED <<today, punches, records, crashes, disturbed>>

Goto(h, state) ==
    /\ op' = [op EXCEPT ![h] = state]
    /\ UNCHANGED <<today, punches, records, finalizing, crashes, disturbed>>

\* op[h] once handler h is finished with day k.
DoneWith(h, k) ==
    LET o == op[h]
    IN  IF o.kind = "apply"
        THEN [o EXCEPT !.pc = "apply", !.changes = Tail(o.changes),
                       !.key = Null, !.data = Null, !.exists = FALSE]
        ELSE [o EXCEPT !.pc = IF o.kind = "final" THEN "days" ELSE "items",
                       !.affected = o.affected \ {k},
                       !.key = Null, !.data = Null, !.exists = FALSE]

-----------------------------------------------------------------------------
(* recordPunch, recordBatchPunches, recordDevicePunches.                   *)

\* Punches are reported on their day or, by an offline device, later.  One
\* without an external id is one call: reporting it again would be another
\* punch.
Reportable(e) ==
    /\ e.date <= today
    /\ e.externalId = Null =>
         punches[e] = Null /\ \A h \in Handlers: e \notin Range(op[h].todo)

Ingest(h, kind, items) ==
    /\ \A e \in Range(items): Reportable(e)
    /\ Begin(h, [Idle EXCEPT !.kind = kind, !.pc = "items", !.todo = items])
    /\ UNCHANGED finalizing

RecordPunch(h) ==
    \E items \in DtoBatches: Len(items) = 1 /\ Ingest(h, "punch", items)
RecordBatchPunches(h) == \E items \in DtoBatches: Ingest(h, "batch", items)
RecordDevicePunches(h) == \E items \in DeviceBatches: Ingest(h, "device", items)

AtItem(h) == op[h].pc = "items" /\ op[h].todo # <<>>
AtKeys(h) == op[h].pc = "items" /\ op[h].todo = <<>>

\* op[h] past its current item.
PastItem(h) ==
    LET e == Head(op[h].todo)
    IN  [op[h] EXCEPT !.pc = "items", !.todo = Tail(op[h].todo),
                      !.seen = @ \cup ({e.externalId} \ {Null})]

\* continue: unknown PIN, repeated in the batch, or (in a batch) outside the
\* shift window.
SkipPunch(h) ==
    /\ AtItem(h)
    /\ LET e == Head(op[h].todo)
       IN  \/ /\ PassedOver(h, e)
              /\ Goto(h, [op[h] EXCEPT !.todo = Tail(op[h].todo)])
           \/ /\ ~PassedOver(h, e) /\ ~CheckThrows(e) /\ ~InWindow(e)
              /\ op[h].kind # "punch"
              /\ Goto(h, PastItem(h))

\* The request fails: what it stored before stays, and is not recomputed.
RejectPunch(h) ==
    /\ AtItem(h)
    /\ LET e == Head(op[h].todo)
       IN  /\ ~PassedOver(h, e)
           /\ CheckThrows(e) \/ (op[h].kind = "punch" /\ ~InWindow(e))
    /\ Throw(h)

\* savePunch finds the external id, deleted rows included.  recordPunch
\* recomputes the day all the same.
DuplicatePunch(h) ==
    /\ AtItem(h)
    /\ LET e == Head(op[h].todo)
       IN  /\ ~PassedOver(h, e) /\ ~CheckThrows(e) /\ InWindow(e)
           /\ e.externalId # Null /\ ExternalIdStored(e.externalId)
           /\ Goto(h, [PastItem(h) EXCEPT
                         !.affected = IF op[h].kind = "punch" THEN {KeyOf(e)} ELSE @])

NewPunch(h) ==
    /\ AtItem(h)
    /\ LET e == Head(op[h].todo)
       IN  /\ ~PassedOver(h, e) /\ ~CheckThrows(e) /\ InWindow(e)
           /\ e.externalId # Null => ~ExternalIdStored(e.externalId)
           /\ Goto(h, [op[h] EXCEPT !.pc = "insert"])

\* FAULT: no unique index on externalId.
InsertPunchWithoutIndex(h) ==
    /\ op[h].pc = "insert"
    /\ LET e == Head(op[h].todo)
       IN  /\ punches' = [punches EXCEPT
                            ![e] = IF op[h].kind = "device" THEN "in" ELSE e.punchType]
           /\ op' = [op EXCEPT ![h] =
                       [PastItem(h) EXCEPT !.affected = @ \cup {KeyOf(e)}]]
           /\ Writes(h, KeyOf(e))
    /\ UNCHANGED <<today, records, finalizing, crashes>>

\* FAULT: the day is not noted as affected.
InsertPunchUnnoted(h) ==
    /\ op[h].pc = "insert"
    /\ LET e == Head(op[h].todo)
       IN  /\ e.externalId # Null => ~ExternalIdStored(e.externalId)
           /\ punches' = [punches EXCEPT
                            ![e] = IF op[h].kind = "device" THEN "in" ELSE e.punchType]
           /\ op' = [op EXCEPT ![h] = PastItem(h)]
           /\ Writes(h, KeyOf(e))
    /\ UNCHANGED <<today, records, finalizing, crashes>>

\* The insert of savePunch, under the unique index on externalId.  A device
\* punch is stored as a check-in until the day is relabelled.
InsertPunch(h) ==
    /\ op[h].pc = "insert"
    /\ LET e == Head(op[h].todo)
       IN  /\ e.externalId # Null => ~ExternalIdStored(e.externalId)
           /\ punches' = [punches EXCEPT
                            ![e] = IF op[h].kind = "device" THEN "in" ELSE e.punchType]
           /\ op' = [op EXCEPT ![h] =
                       [PastItem(h) EXCEPT !.affected = @ \cup {KeyOf(e)}]]
           /\ Writes(h, KeyOf(e))
    /\ UNCHANGED <<today, records, finalizing, crashes>>

InsertPunchFails(h) ==
    /\ op[h].pc = "insert"
    /\ LET e == Head(op[h].todo)
       IN  e.externalId # Null /\ ExternalIdStored(e.externalId)
    /\ Throw(h)

\* FAULT: labels are left as stored.
RelabelNothing(h) ==
    /\ AtKeys(h) /\ op[h].kind = "device"
    /\ \E k \in op[h].affected: Goto(h, [op[h] EXCEPT !.pc = "relabel", !.key = k])

\* The affected days are taken in any order (the code: in that of their
\* first punch).
RelabelDay(h) ==
    /\ AtKeys(h) /\ op[h].kind = "device"
    /\ \E k \in op[h].affected:
         Goto(h, [op[h] EXCEPT !.pc = "relabel", !.key = k, !.rows = WrongLabels(k)])

\* One update of one row, earliest first.
RelabelRow(h) ==
    /\ op[h].pc = "relabel"
    /\ \E r \in op[h].rows:
         /\ \A other \in op[h].rows: r[1].at <= other[1].at
         /\ punches' = [punches EXCEPT ![r[1]] = r[2]]
         /\ op' = [op EXCEPT ![h].rows = @ \ {r}]
    /\ Writes(h, op[h].key)
    /\ UNCHANGED <<today, records, finalizing, crashes>>

AllRecomputed(h) == AtKeys(h) /\ op[h].affected = {} /\ Return(h)

-----------------------------------------------------------------------------
(* recomputeRecord and upsert.                                             *)

\* Handler h is about to recompute day k.
AtRecompute(h, k) ==
    \/ AtKeys(h) /\ op[h].kind # "device" /\ k \in op[h].affected
    \/ op[h].pc = "relabel" /\ op[h].rows = {} /\ k = op[h].key

\* The first read: decisions stick.
RecomputeSkips(h) ==
    \E k \in Keys:
        /\ AtRecompute(h, k)
        /\ IsDecision(records[k])
        /\ Goto(h, DoneWith(h, k))

\* FAULT: decisions are recomputed like any record.
RecomputeAlways(h) ==
    \E k \in Keys:
        AtRecompute(h, k) /\ Goto(h, [op[h] EXCEPT !.pc = "read", !.key = k])

RecomputeStarts(h) ==
    \E k \in Keys:
        /\ AtRecompute(h, k)
        /\ ~IsDecision(records[k])
        /\ Goto(h, [op[h] EXCEPT !.pc = "read", !.key = k])

RecomputeReads(h) ==
    /\ op[h].pc = "read"
    /\ Goto(h, [op[h] EXCEPT !.pc = "upsert", !.data = Recomputed(op[h].key)])

UpsertLooksUp(h) ==
    /\ op[h].pc = "upsert"
    /\ Goto(h, [op[h] EXCEPT !.pc = "write", !.exists = (records[op[h].key] # Null)])

\* UPDATE by id, or INSERT under the unique index on userId and date.
UpsertWrites(h) ==
    /\ op[h].pc = "write"
    /\ op[h].exists \/ records[op[h].key] = Null
    /\ records' = [records EXCEPT ![op[h].key] = op[h].data]
    /\ op' = [op EXCEPT ![h] = DoneWith(h, op[h].key)]
    /\ Writes(h, op[h].key)
    /\ UNCHANGED <<today, punches, finalizing, crashes>>

UpsertFails(h) ==
    /\ op[h].pc = "write"
    /\ ~op[h].exists /\ records[op[h].key] # Null
    /\ Throw(h)

-----------------------------------------------------------------------------
(* manualCorrection, bulkCorrection.                                       *)

Correct(h) ==
    \E changes \in Corrections:
        /\ \A i \in DOMAIN changes: changes[i].date <= today
        /\ Begin(h, [Idle EXCEPT !.kind = "apply", !.pc = "apply", !.changes = changes])
        /\ UNCHANGED finalizing

\* applyRecord up to its upsert: the read of the existing record.
ApplyReads(h) ==
    /\ op[h].pc = "apply" /\ op[h].changes # <<>>
    /\ LET c == Head(op[h].changes)
           k == KeyOf(c)
       IN  /\ k \notin ShiftLookupFails
           /\ Goto(h, [op[h] EXCEPT
                !.pc = "upsert", !.key = k,
                !.data = Applied(k, c.attendanceStatus, c.checkInAt, c.checkOutAt, c.source)])

ApplyFails(h) ==
    /\ op[h].pc = "apply" /\ op[h].changes # <<>>
    /\ KeyOf(Head(op[h].changes)) \in ShiftLookupFails
    /\ Throw(h)

AllApplied(h) == op[h].pc = "apply" /\ op[h].changes = <<>> /\ Return(h)

-----------------------------------------------------------------------------
(* finalizeRecentAttendance and finalizeDay.                               *)

\* FAULT: the loop starts at the day before yesterday.
RecentDaysButYesterday ==
    [i \in 1..(IF Lookback < today THEN Lookback - 1 ELSE today - 2) |-> today - i - 1]

\* The completed days to look at, the latest first.
RecentDays ==
    [i \in 1..(IF Lookback < today THEN Lookback ELSE today - 1) |-> today - i]

\* An invocation that finds finalizing set returns at once.
StartFinalizer(h) ==
    /\ ~finalizing
    /\ finalizing' = TRUE
    /\ Begin(h, [Idle EXCEPT !.kind = "final", !.pc = "days", !.days = RecentDays])

\* The query for active employees without a record.
FinalizeDay(h) ==
    /\ op[h].pc = "days" /\ op[h].affected = {} /\ op[h].days # <<>>
    /\ LET date == Head(op[h].days)
       IN  Goto(h, [op[h] EXCEPT
             !.days = Tail(op[h].days),
             !.affected = {k \in ActiveEmployees \X {date}: records[k] = Null}])

\* applyRecord for one employee of the result, in any order.
FinalizeEmployee(h) ==
    /\ op[h].pc = "days"
    /\ \E k \in op[h].affected \ ShiftLookupFails:
         Goto(h, [op[h] EXCEPT
           !.pc = "upsert", !.key = k,
           !.data = Applied(k, Undefined, Null, Null, "system")])

\* An exception ends the whole invocation, the days to come included.
FinalizeEmployeeFails(h) ==
    /\ op[h].pc = "days"
    /\ op[h].affected \cap ShiftLookupFails # {}
    /\ Throw(h)

AllFinalized(h) ==
    op[h].pc = "days" /\ op[h].affected = {} /\ op[h].days = <<>> /\ Return(h)

-----------------------------------------------------------------------------
(* The environment.                                                        *)

DayPasses ==
    /\ today < MaxDate
    /\ today' = today + 1
    /\ UNCHANGED <<punches, records, finalizing, op, crashes, disturbed>>

\* The process restarts: what was in memory is gone, the tables stay.
Crash ==
    /\ crashes < MaxCrashes
    /\ crashes' = crashes + 1
    /\ op' = [h \in Handlers |-> Idle]
    /\ finalizing' = FALSE
    /\ disturbed' = disturbed \cup UNION {Owed(h): h \in Handlers}
    /\ UNCHANGED <<today, punches, records>>

IngestSteps(h) ==
    \/ SkipPunch(h) \/ RejectPunch(h) \/ DuplicatePunch(h) \/ NewPunch(h)
    \/ InsertPunch(h) \/ InsertPunchFails(h)
    \/ RelabelDay(h) \/ RelabelRow(h) \/ AllRecomputed(h)
    \/ RecomputeSkips(h) \/ RecomputeStarts(h) \/ RecomputeReads(h)

WriteSteps(h) ==
    \/ UpsertLooksUp(h) \/ UpsertWrites(h) \/ UpsertFails(h)
    \/ ApplyReads(h) \/ ApplyFails(h) \/ AllApplied(h)

FinalizerSteps(h) ==
    \/ FinalizeDay(h) \/ FinalizeEmployee(h) \/ FinalizeEmployeeFails(h)
    \/ AllFinalized(h)

\* The next await of handler h.
Step(h) == IngestSteps(h) \/ WriteSteps(h) \/ FinalizerSteps(h)

Request(h) == RecordPunch(h) \/ RecordBatchPunches(h) \/ RecordDevicePunches(h) \/ Correct(h)

Next ==
    \/ \E h \in Requests: Request(h)
    \/ \E h \in Crons: StartFinalizer(h)
    \/ \E h \in Handlers: Step(h)
    \/ DayPasses
    \/ Crash

Spec == Init /\ [][Next]_vars

\* Node's event loop resumes every await; the cron job fires every hour.
\* Clients, administrators and the calendar are not obliged to anything.
Fairness ==
    /\ \A h \in Handlers: WF_vars(Step(h))
    /\ WF_vars(\E h \in Crons: StartFinalizer(h))

FairSpec == Spec /\ Fairness

-----------------------------------------------------------------------------
(* What must hold.                                                         *)

\* A punch carrying an external id is stored at most once, however often and
\* by however many requests at a time it is sent (savePunch, unique index).
ExternalIdStoredOnce ==
    \A e, f \in Punches:
        (/\ punches[e] # Null /\ punches[f] # Null
         /\ e.externalId = f.externalId /\ e.externalId # Null) => e = f

\* No handler still has to recompute day k, and none disturbed it.
Settled(k) == k \notin disturbed /\ \A h \in Handlers: k \notin Owed(h)

\* The record of a settled day says what its punches say, in whatever order,
\* batches and repetitions they arrived and whichever days the finalizer
\* filled in meanwhile; a day with punches has a record (recordPunch,
\* recordBatchPunches, recordDevicePunches, recomputeRecord, finalizeDay).
RecordsMatchPunches ==
    \A k \in Keys:
        (Settled(k) /\ ~IsDecision(records[k])) =>
            IF records[k] = Null THEN Stored(k) = {} ELSE records[k] = Recomputed(k)

\* On a settled day the first device punch is the check-in and the others
\* are check-outs, though the device reports them late and out of order
\* (relabelDevicePunchesByOrder).  Days on which a client reported biometric
\* punches with a type of their own are left aside.
DevicePunchesLabelledByOrder ==
    \A k \in Keys:
        (/\ Settled(k)
         /\ \A e \in Stored(k): e.source = "biometric" =>
              \A items \in DtoBatches: e \notin Range(items))
        => WrongLabels(k) = {}

\* finalizing is set exactly while one invocation of the cron job runs: two
\* never run at a time, and neither an exception nor a crash leaves the flag
\* behind (finalizeRecentAttendance).
FinalizerFlagIsExact ==
    /\ finalizing <=> \E h \in Handlers: op[h].kind = "final"
    /\ \A g, h \in Handlers:
         (op[g].kind = "final" /\ op[h].kind = "final") => g = h

\* A correction survives every punch, batch and finalizer run that does not
\* overlap with its own writing (recomputeRecord's first read).
DecisionsStick ==
    [][\A k \in Keys:
          (IsDecision(records[k]) /\ ~IsDecision(records'[k])) => k \in disturbed']_vars

\* Every active employee whose own shift resolves ends up with a record for
\* every day that is over, as long as the day is in the lookback: failed
\* runs are made up for by later ones (lines 642-644: "hourly self-healing
\* finalizer ... every active employee who still has no record for that day
\* gets one").
EventuallyFinalized ==
    \A k \in (ActiveEmployees \X Dates) \ ShiftLookupFails:
        (today > k[2]) ~> (records[k] # Null)

(* What comments of attendance.service.ts say, and the code does not keep. *)

\* Lines 646-647: "Employees who already punched own a record and are left
\* untouched".  Overwriting the record of a day counts as touching it.
FinalizerLeavesRecordsUntouched ==
    [][\A h \in Crons: UpsertWrites(h) =>
          \A k \in Keys: records[k] # Null => records'[k] = records[k]]_vars

\* Lines 848-849: recomputing "skips records that were set by an admin
\* correction or an approved regularization so those decisions stick".
DecisionsAlwaysStick ==
    [][\A k \in Keys: IsDecision(records[k]) => IsDecision(records'[k])]_vars
=============================================================================
