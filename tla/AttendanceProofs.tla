--------------------------- MODULE AttendanceProofs ----------------------------
(***************************************************************************)
(* Attendance proved for any employees, punches, shifts, calendars and     *)
(* numbers of handlers and crashes.                                        *)
(*                                                                         *)
(* TypeOK is not inductive: that a record is well-typed needs that only    *)
(* punches with a user and a time are stored, and that a handler about to  *)
(* write has computed a record.  TypeInv adds what each pc guarantees.     *)
(***************************************************************************)
EXTENDS Attendance, OrderLemmas, SequenceTheorems

-----------------------------------------------------------------------------
(* First and last punch.                                                   *)

\* recomputeRecord's ins[0] is one of the punches and none is earlier.
LEMMA EarliestIsLeast ==
    ASSUME NEW S, S # {}, \A e \in S: e.at \in Nat
    PROVE  Earliest(S) \in S /\ \A f \in S: Earliest(S).at <= f.at
<1> DEFINE T == {e.at: e \in S}
<1>1. T \subseteq Nat /\ T # {}
  OBVIOUS
<1>2. PICK m \in T: \A n \in T: m <= n
  BY <1>1, LeastNatural
<1>3. \E e \in S: \A f \in S: e.at <= f.at
  BY <1>2
<1> QED
  BY <1>3 DEF Earliest

\* outs[outs.length - 1] is one of the punches and none is later.
LEMMA LatestIsGreatest ==
    ASSUME NEW S, S # {}, NEW bound \in Nat, \A e \in S: e.at \in 0..bound
    PROVE  Latest(S) \in S /\ \A f \in S: f.at <= Latest(S).at
<1> DEFINE T == {bound - e.at: e \in S}
<1>1. T \subseteq Nat /\ T # {}
  OBVIOUS
<1>2. PICK m \in T: \A n \in T: m <= n
  BY <1>1, LeastNatural
<1>3. PICK e \in S: m = bound - e.at
  OBVIOUS
<1>4. \A f \in S: f.at <= e.at
  <2> SUFFICES ASSUME NEW f \in S PROVE f.at <= e.at
    OBVIOUS
  <2>1. bound - e.at <= bound - f.at
    BY <1>2, <1>3
  <2> QED
    BY <2>1
<1> QED
  BY <1>4 DEF Latest

-----------------------------------------------------------------------------
(* Types.                                                                  *)

\* Only punches of a known employee, with a time, are stored.
PunchesSound == \A e \in Punches: punches[e] # Null => e.user # Null /\ e.at # Null

\* What the pc of a handler says of its kind and of its other fields.
OpSound(o) ==
    /\ o.kind = "idle" <=> o.pc = "idle"
    /\ o.pc \in {"items", "insert", "read"} => o.kind \in {"punch", "batch", "device"}
    /\ o.pc = "relabel" => o.kind = "device"
    /\ o.pc = "apply" => o.kind = "apply"
    /\ o.pc = "days" => o.kind = "final"
    /\ o.pc = "insert" =>
         o.todo # <<>> /\ Head(o.todo).user # Null /\ Head(o.todo).at # Null
    /\ o.pc \in {"relabel", "read", "upsert", "write"} => o.key \in Keys
    /\ o.pc \in {"upsert", "write"} => o.data \in Records
    /\ o.pc \in {"upsert", "write"} /\ o.kind = "apply" => o.changes # <<>>

\* A handler relabels rows that are stored.
RowsStored == \A h \in Handlers: \A r \in op[h].rows: punches[r[1]] # Null

TypeInv ==
    /\ TypeOK
    /\ PunchesSound
    /\ \A h \in Handlers: OpSound(op[h])
    /\ RowsStored

-----------------------------------------------------------------------------
(* What the handlers compute is well-typed.                                *)

\* The day of a punch that has a user is a key of the record table (toDateString).
LEMMA KeyOfPunch ==
    ASSUME NEW e \in Punches, e.user # Null
    PROVE  KeyOf(e) \in Keys
BY AttendanceAssumption DEF KeyOf, Keys, PunchReports

\* computeMetrics derives one of the statuses, for any instants and shift.
LEMMA StatusType ==
    ASSUME NEW cin, NEW cout, NEW shift
    PROVE  ComputeMetrics(cin, cout, shift).derivedStatus \in AttendanceStatuses
BY DEF ComputeMetrics, BaseStatus, AttendanceStatuses

\* resolveDerivedStatusForDay answers one of the statuses.
LEMMA DerivedStatusType ==
    ASSUME NEW base \in AttendanceStatuses, NEW evidence, NEW k \in Keys
    PROVE  DerivedStatusForDay(base, evidence, CalendarOf[k]) \in AttendanceStatuses
BY AttendanceAssumption DEF DerivedStatusForDay, AttendanceStatuses

\* The debounce only drops punches.
LEMMA DedupeSubset ==
    ASSUME NEW S, NEW d
    PROVE  DedupeClosePunches(S, d) \subseteq S
BY DEF DedupeClosePunches

\* The first and the last of some stored punches are instants.
LEMMA FirstAndLastType ==
    ASSUME NEW S, S \subseteq Punches, \A e \in S: e.at # Null
    PROVE  FirstPunchAt(S) \in Instant /\ LastPunchAt(S) \in Instant
<1>1. \A e \in S: e.at \in 0..(SecondsPerDay - 1)
  BY AttendanceAssumption DEF PunchReports
<1>2. SecondsPerDay - 1 \in Nat
  BY DEF SecondsPerDay, MinutesPerDay
<1>3. CASE S = {}
  BY <1>3 DEF FirstPunchAt, LastPunchAt, Instant
<1>4. CASE S # {}
  <2>1. \A e \in S: e.at \in Nat
    BY <1>1, <1>2
  <2>2. Earliest(S) \in S
    BY <1>4, <2>1, EarliestIsLeast
  <2>3. Latest(S) \in S
    BY <1>1, <1>2, <1>4, LatestIsGreatest
  <2> QED
    BY <1>4, <2>1, <2>2, <2>3 DEF FirstPunchAt, LastPunchAt, Instant
<1> QED
  BY <1>3, <1>4

\* What recomputeRecord computes for a day is a record.
LEMMA RecomputedType ==
    ASSUME PunchesSound, NEW k \in Keys
    PROVE  Recomputed(k) \in Records
<1> DEFINE effective == DedupeClosePunches(Stored(k), Debounce)
           ins == {e \in effective: punches[e] = "in"}
           outs == {e \in effective: punches[e] = "out"}
           base == ComputeMetrics(FirstPunchAt(ins), LastPunchAt(outs),
                                  ShiftOf[k]).derivedStatus
           src == IF effective = {} THEN "system"
                  ELSE MapPunchSource(Latest(effective).source)
           status == DerivedStatusForDay(base, effective # {}, CalendarOf[k])
<1>1. effective \subseteq Stored(k)
  BY DedupeSubset
<1>2. Stored(k) \subseteq Punches /\ \A e \in Stored(k): e.at # Null
  BY DEF Stored, PunchesSound
<1> HIDE DEF effective
<1>3. FirstPunchAt(ins) \in Instant /\ LastPunchAt(outs) \in Instant
  BY <1>1, <1>2, FirstAndLastType
<1>4. src \in AttendanceSources
  BY DEF MapPunchSource, AttendanceSources
<1> HIDE DEF ins, outs
<1>5. base \in AttendanceStatuses
  BY StatusType
<1> HIDE DEF base
<1>6. status \in AttendanceStatuses
  BY <1>5, DerivedStatusType
<1>7. Recomputed(k) = [checkInAt |-> FirstPunchAt(ins), checkOutAt |-> LastPunchAt(outs),
                       attendanceStatus |-> status, source |-> src]
  BY DEF Recomputed, effective, ins, outs, base
<1> HIDE DEF status, src
<1> QED
  BY <1>3, <1>4, <1>6, <1>7 DEF Records

\* What applyRecord computes for a day is a record.
LEMMA AppliedType ==
    ASSUME TypeOK, NEW k \in Keys, NEW status \in AttendanceStatuses \cup {Undefined},
           NEW cin \in Instant \cup {Undefined}, NEW cout \in Instant \cup {Undefined},
           NEW source \in AttendanceSources
    PROVE  Applied(k, status, cin, cout, source) \in Records
<1> DEFINE keptIn == KeptOr(cin, k, "checkInAt")
           keptOut == KeptOr(cout, k, "checkOutAt")
           base == ComputeMetrics(keptIn, keptOut, ShiftOf[k]).derivedStatus
           evidence == keptIn # Null \/ keptOut # Null
           derived == DerivedStatusForDay(base, evidence, CalendarOf[k])
<1>1. records[k] # Null =>
        records[k].checkInAt \in Instant /\ records[k].checkOutAt \in Instant
  BY DEF TypeOK, Records
<1>2. keptIn \in Instant /\ keptOut \in Instant
  BY <1>1 DEF KeptOr, Instant
<1> HIDE DEF keptIn, keptOut
<1>3. base \in AttendanceStatuses
  BY StatusType
<1> HIDE DEF base, evidence
<1>4. derived \in AttendanceStatuses
  BY <1>3, DerivedStatusType
<1> HIDE DEF derived
<1>5. Applied(k, status, cin, cout, source) =
        [checkInAt |-> keptIn, checkOutAt |-> keptOut,
         attendanceStatus |-> IF status # Undefined THEN status ELSE derived,
         source |-> source]
  BY DEF Applied, keptIn, keptOut, base, evidence, derived
<1> QED
  BY <1>2, <1>4, <1>5 DEF Records

-----------------------------------------------------------------------------
(* The steps, by what they do to op.                                       *)

\* The state handler h steps to is sound, and so are those of the others.
LEMMA OpStep ==
    ASSUME TypeInv, NEW h \in Handlers, NEW s \in Ops, OpSound(s),
           op' = [op EXCEPT ![h] = s]
    PROVE  /\ op' \in [Handlers -> Ops]
           /\ op'[h] = s
           /\ \A g \in Handlers: OpSound(op'[g])
BY DEF TypeInv, TypeOK

\* An idle handler is well-typed and owes nothing.
LEMMA IdleSound == Idle \in Ops /\ OpSound(Idle) /\ Idle.rows = {}
BY DEF Idle, Ops, Kinds, Steps, OpSound

\* Reads and computations.
LEMMA GotoStep ==
    ASSUME TypeInv, NEW h \in Handlers, NEW s \in Ops, OpSound(s),
           \A r \in s.rows: punches[r[1]] # Null, Goto(h, s)
    PROVE  TypeInv'
<1>1. /\ op' \in [Handlers -> Ops] /\ op'[h] = s
      /\ \A g \in Handlers: OpSound(op'[g])
  BY OpStep DEF Goto
<1>2. \A g \in Handlers: \A r \in op'[g].rows: punches[r[1]] # Null
  BY <1>1 DEF Goto, TypeInv, TypeOK, RowsStored
<1> QED
  BY <1>1, <1>2 DEF Goto, TypeInv, TypeOK, PunchesSound, RowsStored

\* A handler starts.
LEMMA BeginStep ==
    ASSUME TypeInv, NEW h \in Handlers, NEW s \in Ops, OpSound(s), s.rows = {},
           Begin(h, s), finalizing' \in BOOLEAN
    PROVE  TypeInv'
<1>1. /\ op' \in [Handlers -> Ops] /\ op'[h] = s
      /\ \A g \in Handlers: OpSound(op'[g])
  BY OpStep DEF Begin
<1>2. \A g \in Handlers: \A r \in op'[g].rows: punches[r[1]] # Null
  BY <1>1 DEF Begin, TypeInv, TypeOK, RowsStored
<1> QED
  BY <1>1, <1>2 DEF Begin, TypeInv, TypeOK, PunchesSound, RowsStored

\* A handler ends, by returning or by an exception.
LEMMA LeaveStep ==
    ASSUME TypeInv, NEW h \in Handlers, Return(h) \/ Throw(h)
    PROVE  TypeInv'
<1>1. Leave(h) /\ UNCHANGED <<today, punches, records, crashes>>
  BY DEF Return, Throw
<1>2. /\ op' \in [Handlers -> Ops] /\ op'[h] = Idle
      /\ \A g \in Handlers: OpSound(op'[g])
  BY <1>1, OpStep, IdleSound DEF Leave
<1>3. \A g \in Handlers: \A r \in op'[g].rows: punches[r[1]] # Null
  BY <1>1, <1>2, IdleSound DEF Leave, TypeInv, TypeOK, RowsStored
<1>4. finalizing' \in BOOLEAN
  BY <1>1 DEF Leave, TypeInv, TypeOK
<1>5. disturbed' \subseteq Keys
  BY DEF Return, Throw, Owed, TypeInv, TypeOK, Ops
<1> QED
  BY <1>1, <1>2, <1>3, <1>4, <1>5 DEF TypeInv, TypeOK, PunchesSound, RowsStored

\* A day a handler writes joins the disturbed ones, or none does.
LEMMA WritesType ==
    ASSUME TypeInv, NEW h \in Handlers, NEW k \in Keys, Writes(h, k)
    PROVE  disturbed' \subseteq Keys
BY DEF Writes, TypeInv, TypeOK

\* The next item of a request.
LEMMA HeadOfTodo ==
    ASSUME TypeInv, NEW h \in Handlers, op[h].todo # <<>>
    PROVE  Head(op[h].todo) \in Punches /\ Tail(op[h].todo) \in Seq(Punches)
BY DEF TypeInv, TypeOK, Ops

\* A handler that goes on to its next item keeps what its pc guarantees.
LEMMA PastItemSound ==
    ASSUME TypeInv, NEW h \in Handlers, op[h].todo # <<>>,
           op[h].pc \in {"items", "insert"}
    PROVE  /\ PastItem(h) \in Ops /\ OpSound(PastItem(h))
           /\ PastItem(h).rows = op[h].rows
<1> DEFINE o == op[h]
           e == Head(o.todo)
<1>1. o \in Ops /\ OpSound(o)
  BY DEF TypeInv, TypeOK
<1>2. e \in Punches /\ Tail(o.todo) \in Seq(Punches)
  BY HeadOfTodo
<1>3. e.externalId \in ExternalIds \cup {Null}
  BY <1>2, AttendanceAssumption DEF PunchReports
<1>4. o.seen \cup ({e.externalId} \ {Null}) \in SUBSET ExternalIds
  BY <1>1, <1>3 DEF Ops
<1>5. o.kind \in {"punch", "batch", "device"}
  BY <1>1 DEF OpSound
<1> QED
  BY <1>1, <1>2, <1>4, <1>5 DEF PastItem, Ops, OpSound, Kinds, Steps

\* So does one that has finished a day.
LEMMA DoneWithSound ==
    ASSUME TypeInv, NEW h \in Handlers, NEW k \in Keys,
           op[h].kind # "idle", op[h].kind = "apply" => op[h].changes # <<>>
    PROVE  /\ DoneWith(h, k) \in Ops /\ OpSound(DoneWith(h, k))
           /\ DoneWith(h, k).rows = op[h].rows
<1> DEFINE o == op[h]
<1>1. o \in Ops /\ OpSound(o)
  BY DEF TypeInv, TypeOK
<1>2. CASE o.kind = "apply"
  <2>1. Tail(o.changes) \in Seq(ApplyParams)
    BY <1>1, <1>2 DEF Ops
  <2> QED
    BY <1>1, <1>2, <2>1 DEF DoneWith, Ops, OpSound, Kinds, Steps
<1>3. CASE o.kind = "final"
  <2> DEFINE s == [o EXCEPT !.pc = "days", !.affected = o.affected \ {k},
                            !.key = Null, !.data = Null, !.exists = FALSE]
  <2>1. DoneWith(h, k) = s
    BY <1>3 DEF DoneWith
  <2>2. s \in Ops /\ s.rows = o.rows
    BY <1>1 DEF Ops, Steps
  <2>3. OpSound(s)
    BY <1>1, <1>3 DEF Ops, OpSound
  <2> QED
    BY <2>1, <2>2, <2>3
<1>4. CASE o.kind \in {"punch", "batch", "device"}
  <2> DEFINE s == [o EXCEPT !.pc = "items", !.affected = o.affected \ {k},
                            !.key = Null, !.data = Null, !.exists = FALSE]
  <2>1. DoneWith(h, k) = s
    BY <1>4 DEF DoneWith
  <2>2. s \in Ops /\ s.rows = o.rows
    BY <1>1 DEF Ops, Steps
  <2>3. OpSound(s)
    BY <1>1, <1>4 DEF Ops, OpSound
  <2> QED
    BY <2>1, <2>2, <2>3
<1> QED
  BY <1>1, <1>2, <1>3, <1>4 DEF Ops, Kinds

-----------------------------------------------------------------------------
(* Every step preserves TypeInv.                                           *)

\* Starting a punch, batch, device or correction request preserves TypeInv.
LEMMA RequestKeepsTypes ==
    ASSUME TypeInv, NEW h \in Requests, Request(h)
    PROVE  TypeInv'
<1>1. h \in Handlers
  BY DEF Handlers
<1>2. ASSUME NEW kind \in {"punch", "batch", "device"}, NEW items \in Seq(Punches),
             Ingest(h, kind, items)
      PROVE  TypeInv'
  <2> DEFINE s == [Idle EXCEPT !.kind = kind, !.pc = "items", !.todo = items]
  <2>1. s \in Ops /\ OpSound(s) /\ s.rows = {}
    BY <1>2, IdleSound DEF Ops, Kinds, Steps, OpSound
  <2>2. Begin(h, s) /\ finalizing' = finalizing
    BY <1>2 DEF Ingest
  <2> HIDE DEF s
  <2> QED
    BY <1>1, <2>1, <2>2, BeginStep DEF TypeInv, TypeOK
<1>3. ASSUME NEW changes \in Seq(ApplyParams),
             Begin(h, [Idle EXCEPT !.kind = "apply", !.pc = "apply", !.changes = changes]),
             finalizing' = finalizing
      PROVE  TypeInv'
  <2> DEFINE s == [Idle EXCEPT !.kind = "apply", !.pc = "apply", !.changes = changes]
  <2>1. s \in Ops /\ OpSound(s) /\ s.rows = {}
    BY IdleSound DEF Ops, Kinds, Steps, OpSound
  <2>2. Begin(h, s)
    BY <1>3
  <2> HIDE DEF s
  <2> QED
    BY <1>1, <1>3, <2>1, <2>2, BeginStep DEF TypeInv, TypeOK
<1>4. CASE RecordPunch(h) \/ RecordBatchPunches(h) \/ RecordDevicePunches(h)
  BY <1>2, <1>4, AttendanceAssumption
  DEF RecordPunch, RecordBatchPunches, RecordDevicePunches
<1>5. CASE Correct(h)
  BY <1>3, <1>5, AttendanceAssumption DEF Correct
<1> QED
  BY <1>4, <1>5 DEF Request

\* The finalizer looks at days of the calendar only.
LEMMA RecentDaysType ==
    ASSUME TypeInv
    PROVE  RecentDays \in Seq(Dates)
<1> DEFINE n == IF Lookback < today THEN Lookback ELSE today - 1
<1>1. today \in 1..MaxDate /\ MaxDate \in Nat /\ Lookback \in Nat
  BY AttendanceAssumption DEF TypeInv, TypeOK, Dates
<1>2. n \in Nat /\ \A i \in 1..n: today - i \in Dates
  BY <1>1 DEF Dates
<1> QED
  BY <1>2, IsASeq DEF RecentDays

\* Starting the cron job preserves TypeInv.
LEMMA StartFinalizerTypes ==
    ASSUME TypeInv, NEW h \in Handlers, StartFinalizer(h)
    PROVE  TypeInv'
<1> DEFINE s == [Idle EXCEPT !.kind = "final", !.pc = "days", !.days = RecentDays]
<1>1. s \in Ops /\ OpSound(s) /\ s.rows = {}
  BY RecentDaysType, IdleSound DEF Ops, Kinds, Steps, OpSound
<1>2. Begin(h, s) /\ finalizing' = TRUE
  BY DEF StartFinalizer
<1> HIDE DEF s
<1> QED
  BY <1>1, <1>2, BeginStep

\* The steps of an ingesting handler at one of its punches.
LEMMA ItemTypes ==
    ASSUME TypeInv, NEW h \in Handlers,
           SkipPunch(h) \/ RejectPunch(h) \/ DuplicatePunch(h) \/ NewPunch(h)
    PROVE  TypeInv'
<1> DEFINE o == op[h]
           e == Head(o.todo)
<1>1. o \in Ops /\ OpSound(o) /\ \A r \in o.rows: punches[r[1]] # Null
  BY DEF TypeInv, TypeOK, RowsStored
<1>2. o.pc = "items" /\ o.todo # <<>> /\ e \in Punches /\ Tail(o.todo) \in Seq(Punches)
  BY HeadOfTodo DEF SkipPunch, RejectPunch, DuplicatePunch, NewPunch, AtItem
<1>3. /\ PastItem(h) \in Ops /\ OpSound(PastItem(h))
      /\ PastItem(h).rows = o.rows
  BY <1>2, PastItemSound
<1>4. CASE SkipPunch(h)
  <2> DEFINE s == [o EXCEPT !.todo = Tail(o.todo)]
  <2>1. s \in Ops /\ OpSound(s) /\ s.rows = o.rows
    BY <1>1, <1>2 DEF Ops, OpSound
  <2>2. Goto(h, s) \/ Goto(h, PastItem(h))
    BY <1>4 DEF SkipPunch
  <2> HIDE DEF s
  <2> QED
    BY <1>1, <1>3, <2>1, <2>2, GotoStep
<1>5. CASE RejectPunch(h)
  BY <1>5, LeaveStep DEF RejectPunch
<1>6. CASE DuplicatePunch(h)
  <2> DEFINE s == [PastItem(h) EXCEPT
                     !.affected = IF o.kind = "punch" THEN {KeyOf(e)} ELSE @]
  <2>1. Goto(h, s) /\ e.user # Null
    BY <1>6 DEF DuplicatePunch, PassedOver
  <2>2. KeyOf(e) \in Keys
    BY <1>2, <2>1, KeyOfPunch
  <2>3. s \in Ops /\ OpSound(s) /\ s.rows = o.rows
    BY <1>3, <2>2 DEF Ops, OpSound
  <2> HIDE DEF s
  <2> QED
    BY <1>1, <2>1, <2>3, GotoStep
<1>7. CASE NewPunch(h)
  <2> DEFINE s == [o EXCEPT !.pc = "insert"]
  <2>1. Goto(h, s) /\ e.user # Null /\ e.at # Null
    BY <1>7 DEF NewPunch, PassedOver, CheckThrows
  <2>2. s \in Ops /\ OpSound(s) /\ s.rows = o.rows
    BY <1>1, <1>2, <2>1 DEF Ops, OpSound, Steps
  <2> HIDE DEF s
  <2> QED
    BY <1>1, <2>1, <2>2, GotoStep
<1> QED
  BY <1>4, <1>5, <1>6, <1>7

\* An insert stores the punch at hand and no other.
LEMMA InsertStores ==
    ASSUME TypeInv, NEW h \in Handlers, InsertPunch(h)
    PROVE  LET e == Head(op[h].todo)
           IN  /\ e \in Punches /\ e.user # Null /\ e.at # Null
               /\ e.externalId # Null => ~ExternalIdStored(e.externalId)
               /\ punches' \in [Punches -> PunchTypes \cup {Null}]
               /\ \A f \in Punches: punches'[f] # Null <=> (punches[f] # Null \/ f = e)
<1> DEFINE o == op[h]
           e == Head(o.todo)
           type == IF o.kind = "device" THEN "in" ELSE e.punchType
<1>1. /\ o.pc = "insert" /\ punches' = [punches EXCEPT ![e] = type]
      /\ e.externalId # Null => ~ExternalIdStored(e.externalId)
  BY DEF InsertPunch
<1>2. o.todo # <<>> /\ e.user # Null /\ e.at # Null
  BY <1>1 DEF TypeInv, TypeOK, OpSound
<1>3. e \in Punches
  BY <1>2, HeadOfTodo
<1>4. type \in PunchTypes /\ type # Null
  BY <1>3, AttendanceAssumption DEF PunchReports, PunchTypes
<1> HIDE DEF type
<1> QED
  BY <1>1, <1>2, <1>3, <1>4 DEF TypeInv, TypeOK

\* The insert of savePunch preserves TypeInv.
LEMMA InsertTypes ==
    ASSUME TypeInv, NEW h \in Handlers, InsertPunch(h)
    PROVE  TypeInv'
<1> DEFINE o == op[h]
           e == Head(o.todo)
           s == [PastItem(h) EXCEPT !.affected = @ \cup {KeyOf(e)}]
<1>1. /\ o.pc = "insert"
      /\ op' = [op EXCEPT ![h] = s] /\ Writes(h, KeyOf(e))
      /\ UNCHANGED <<today, records, finalizing, crashes>>
  BY DEF InsertPunch
<1>2. o \in Ops /\ OpSound(o) /\ \A r \in o.rows: punches[r[1]] # Null
  BY DEF TypeInv, TypeOK, RowsStored
<1>3. o.todo # <<>>
  BY <1>1, <1>2 DEF OpSound
<1>4. /\ e \in Punches /\ e.user # Null /\ e.at # Null
      /\ punches' \in [Punches -> PunchTypes \cup {Null}]
      /\ \A f \in Punches: punches'[f] # Null <=> (punches[f] # Null \/ f = e)
  BY InsertStores
<1>5. KeyOf(e) \in Keys
  BY <1>4, KeyOfPunch
<1>6. s \in Ops /\ OpSound(s) /\ s.rows = o.rows
  <2>1. /\ PastItem(h) \in Ops /\ OpSound(PastItem(h))
        /\ PastItem(h).rows = o.rows
    BY <1>1, <1>3, PastItemSound
  <2> QED
    BY <1>5, <2>1 DEF Ops, OpSound
<1> HIDE DEF s
<1>7. /\ op' \in [Handlers -> Ops] /\ op'[h] = s
      /\ \A g \in Handlers: OpSound(op'[g])
  BY <1>1, <1>6, OpStep
<1>8. PunchesSound'
  BY <1>4 DEF TypeInv, PunchesSound
<1>9. RowsStored'
  <2> SUFFICES ASSUME NEW g \in Handlers, NEW r \in op'[g].rows
               PROVE  punches'[r[1]] # Null
    BY DEF RowsStored
  <2>1. r \in op[g].rows
    BY <1>1, <1>6, <1>7 DEF TypeInv, TypeOK
  <2>2. r[1] \in Punches /\ punches[r[1]] # Null
    BY <2>1 DEF TypeInv, TypeOK, RowsStored, Ops
  <2> QED
    BY <1>4, <2>2
<1>10. disturbed' \subseteq Keys
  BY <1>1, <1>5, WritesType
<1> QED
  BY <1>1, <1>4, <1>7, <1>8, <1>9, <1>10 DEF TypeInv, TypeOK

\* The rows to relabel are stored punches with the type they should have.
LEMMA WrongLabelsRows ==
    ASSUME NEW k
    PROVE  \A r \in WrongLabels(k):
             r \in Punches \X PunchTypes /\ punches[r[1]] # Null
<1> DEFINE biometric == {e \in Stored(k): e.source = "biometric"}
<1>1. \A e \in biometric: OrderLabel(e, biometric) \in PunchTypes
  BY DEF OrderLabel, PunchTypes
<1>2. \A e \in biometric: e \in Punches /\ punches[e] # Null
  BY DEF Stored
<1>3. ASSUME NEW r \in WrongLabels(k)
      PROVE  \E e \in biometric: r = <<e, OrderLabel(e, biometric)>>
  BY DEF WrongLabels
<1> HIDE DEF biometric
<1> QED
  BY <1>1, <1>2, <1>3

\* Relabelling stores no new punch.
LEMMA RelabelRowStores ==
    ASSUME TypeInv, NEW h \in Handlers, RelabelRow(h)
    PROVE  /\ punches' \in [Punches -> PunchTypes \cup {Null}]
           /\ \A f \in Punches: punches'[f] # Null <=> punches[f] # Null
<1>1. PICK r \in op[h].rows: punches' = [punches EXCEPT ![r[1]] = r[2]]
  BY DEF RelabelRow
<1>2. r[1] \in Punches /\ r[2] \in PunchTypes /\ r[2] # Null
  BY AttendanceAssumption DEF TypeInv, TypeOK, Ops
<1>3. punches[r[1]] # Null
  BY DEF TypeInv, RowsStored
<1> QED
  BY <1>1, <1>2, <1>3 DEF TypeInv, TypeOK

\* relabelDevicePunchesByOrder, the query and each update, preserves TypeInv.
LEMMA RelabelTypes ==
    ASSUME TypeInv, NEW h \in Handlers, RelabelDay(h) \/ RelabelRow(h)
    PROVE  TypeInv'
<1> DEFINE o == op[h]
<1>1. o \in Ops /\ OpSound(o) /\ \A r \in o.rows: punches[r[1]] # Null
  BY DEF TypeInv, TypeOK, RowsStored
<1>2. ASSUME NEW k \in o.affected, o.pc = "items", o.kind = "device",
             Goto(h, [o EXCEPT !.pc = "relabel", !.key = k, !.rows = WrongLabels(k)])
      PROVE  TypeInv'
  <2> DEFINE s == [o EXCEPT !.pc = "relabel", !.key = k, !.rows = WrongLabels(k)]
  <2>1. WrongLabels(k) \subseteq Punches \X PunchTypes
    BY WrongLabelsRows
  <2>2. \A r \in WrongLabels(k): punches[r[1]] # Null
    BY WrongLabelsRows
  <2>3. k \in Keys
    BY <1>1 DEF Ops
  <2>4. s \in Ops /\ OpSound(s) /\ s.rows = WrongLabels(k)
    BY <1>1, <1>2, <2>1, <2>3 DEF Ops, OpSound, Steps
  <2>5. Goto(h, s)
    BY <1>2
  <2> HIDE DEF s
  <2> QED
    BY <2>2, <2>4, <2>5, GotoStep
<1>3. CASE RelabelDay(h)
  BY <1>2, <1>3 DEF RelabelDay, AtKeys
<1>4. CASE RelabelRow(h)
  <2>1. PICK r \in o.rows: op' = [op EXCEPT ![h].rows = @ \ {r}]
    BY <1>4 DEF RelabelRow
  <2> DEFINE s == [o EXCEPT !.rows = @ \ {r}]
  <2>2. o.key \in Keys
    BY <1>1, <1>4 DEF OpSound, RelabelRow
  <2>3. s \in Ops /\ OpSound(s) /\ s.rows = o.rows \ {r}
    BY <1>1 DEF Ops, OpSound
  <2>4. op' = [op EXCEPT ![h] = s]
    BY <2>1
  <2> HIDE DEF s
  <2>5. /\ op' \in [Handlers -> Ops] /\ op'[h] = s
        /\ \A g \in Handlers: OpSound(op'[g])
    BY <2>3, <2>4, OpStep
  <2>6. /\ punches' \in [Punches -> PunchTypes \cup {Null}]
        /\ \A f \in Punches: punches'[f] # Null <=> punches[f] # Null
    BY <1>4, RelabelRowStores
  <2>7. PunchesSound'
    BY <2>6 DEF TypeInv, PunchesSound
  <2>8. RowsStored'
    <3> SUFFICES ASSUME NEW g \in Handlers, NEW q \in op'[g].rows
                 PROVE  punches'[q[1]] # Null
      BY DEF RowsStored
    <3>1. q \in op[g].rows
      BY <2>3, <2>4, <2>5 DEF TypeInv, TypeOK
    <3>2. q[1] \in Punches /\ punches[q[1]] # Null
      BY <3>1 DEF TypeInv, TypeOK, RowsStored, Ops
    <3> QED
      BY <2>6, <3>2
  <2>9. disturbed' \subseteq Keys
    BY <1>4, <2>2, WritesType DEF RelabelRow
  <2> QED
    BY <1>4, <2>5, <2>6, <2>7, <2>8, <2>9 DEF RelabelRow, TypeInv, TypeOK
<1> QED
  BY <1>3, <1>4

\* The reads of recomputeRecord preserve TypeInv.
LEMMA RecomputeTypes ==
    ASSUME TypeInv, NEW h \in Handlers,
           RecomputeSkips(h) \/ RecomputeStarts(h) \/ RecomputeReads(h)
    PROVE  TypeInv'
<1> DEFINE o == op[h]
<1>1. o \in Ops /\ OpSound(o) /\ \A r \in o.rows: punches[r[1]] # Null
  BY DEF TypeInv, TypeOK, RowsStored
<1>2. ASSUME NEW k \in Keys, AtRecompute(h, k)
      PROVE  o.kind \in {"punch", "batch", "device"}
  BY <1>1, <1>2 DEF AtRecompute, AtKeys, OpSound
<1>3. CASE RecomputeSkips(h)
  <2>1. PICK k \in Keys: AtRecompute(h, k) /\ Goto(h, DoneWith(h, k))
    BY <1>3 DEF RecomputeSkips
  <2>2. /\ DoneWith(h, k) \in Ops /\ OpSound(DoneWith(h, k))
        /\ DoneWith(h, k).rows = o.rows
    BY <1>2, <2>1, DoneWithSound
  <2> QED
    BY <1>1, <2>1, <2>2, GotoStep
<1>4. CASE RecomputeStarts(h)
  <2>1. PICK k \in Keys: /\ AtRecompute(h, k)
                         /\ Goto(h, [o EXCEPT !.pc = "read", !.key = k])
    BY <1>4 DEF RecomputeStarts
  <2> DEFINE s == [o EXCEPT !.pc = "read", !.key = k]
  <2>2. s \in Ops /\ OpSound(s) /\ s.rows = o.rows
    BY <1>1, <1>2, <2>1 DEF Ops, OpSound, Steps
  <2>3. Goto(h, s)
    BY <2>1
  <2> HIDE DEF s
  <2> QED
    BY <1>1, <2>2, <2>3, GotoStep
<1>5. CASE RecomputeReads(h)
  <2> DEFINE s == [o EXCEPT !.pc = "upsert", !.data = Recomputed(o.key)]
  <2>1. o.pc = "read" /\ Goto(h, s)
    BY <1>5 DEF RecomputeReads
  <2>2. o.key \in Keys /\ o.kind \in {"punch", "batch", "device"}
    BY <1>1, <2>1 DEF OpSound
  <2>3. Recomputed(o.key) \in Records
    BY <2>2, RecomputedType DEF TypeInv
  <2>4. s \in Ops /\ OpSound(s) /\ s.rows = o.rows
    BY <1>1, <2>2, <2>3 DEF Ops, OpSound, Steps
  <2> HIDE DEF s
  <2> QED
    BY <1>1, <2>1, <2>4, GotoStep
<1> QED
  BY <1>3, <1>4, <1>5

\* upsert, the look-up and the write, preserves TypeInv.
LEMMA UpsertTypes ==
    ASSUME TypeInv, NEW h \in Handlers,
           UpsertLooksUp(h) \/ UpsertWrites(h) \/ UpsertFails(h)
    PROVE  TypeInv'
<1> DEFINE o == op[h]
<1>1. o \in Ops /\ OpSound(o) /\ \A r \in o.rows: punches[r[1]] # Null
  BY DEF TypeInv, TypeOK, RowsStored
<1>2. o.key \in Keys /\ o.data \in Records /\ o.kind # "idle"
      /\ (o.kind = "apply" => o.changes # <<>>)
  BY <1>1 DEF UpsertLooksUp, UpsertWrites, UpsertFails, OpSound
<1>3. CASE UpsertLooksUp(h)
  <2> DEFINE s == [o EXCEPT !.pc = "write", !.exists = (records[o.key] # Null)]
  <2>1. Goto(h, s)
    BY <1>3 DEF UpsertLooksUp
  <2>2. s \in Ops /\ OpSound(s) /\ s.rows = o.rows
    BY <1>1, <1>2 DEF Ops, OpSound, Steps
  <2> HIDE DEF s
  <2> QED
    BY <1>1, <2>1, <2>2, GotoStep
<1>4. CASE UpsertWrites(h)
  <2>1. /\ records' = [records EXCEPT ![o.key] = o.data]
        /\ op' = [op EXCEPT ![h] = DoneWith(h, o.key)]
        /\ Writes(h, o.key)
        /\ UNCHANGED <<today, punches, finalizing, crashes>>
    BY <1>4 DEF UpsertWrites
  <2>2. /\ DoneWith(h, o.key) \in Ops /\ OpSound(DoneWith(h, o.key))
        /\ DoneWith(h, o.key).rows = o.rows
    BY <1>2, DoneWithSound
  <2>3. /\ op' \in [Handlers -> Ops] /\ op'[h] = DoneWith(h, o.key)
        /\ \A g \in Handlers: OpSound(op'[g])
    BY <2>1, <2>2, OpStep
  <2>4. records' \in [Keys -> Records \cup {Null}]
    BY <1>2, <2>1 DEF TypeInv, TypeOK
  <2>5. RowsStored'
    BY <2>1, <2>2, <2>3 DEF TypeInv, TypeOK, RowsStored
  <2>6. disturbed' \subseteq Keys
    BY <1>2, <2>1, WritesType
  <2> QED
    BY <2>1, <2>3, <2>4, <2>5, <2>6 DEF TypeInv, TypeOK, PunchesSound
<1>5. CASE UpsertFails(h)
  BY <1>5, LeaveStep DEF UpsertFails
<1> QED
  BY <1>3, <1>4, <1>5

\* The steps of applyRecord before its upsert preserve TypeInv.
LEMMA ApplyTypes ==
    ASSUME TypeInv, NEW h \in Handlers, ApplyReads(h) \/ ApplyFails(h)
    PROVE  TypeInv'
<1> DEFINE o == op[h]
           c == Head(o.changes)
<1>1. o \in Ops /\ OpSound(o) /\ \A r \in o.rows: punches[r[1]] # Null
  BY DEF TypeInv, TypeOK, RowsStored
<1>2. CASE ApplyReads(h)
  <2> DEFINE data == Applied(KeyOf(c), c.attendanceStatus, c.checkInAt,
                             c.checkOutAt, c.source)
             s == [o EXCEPT !.pc = "upsert", !.key = KeyOf(c), !.data = data]
  <2>1. o.pc = "apply" /\ o.changes # <<>> /\ Goto(h, s)
    BY <1>2 DEF ApplyReads
  <2>2. c \in ApplyParams
    BY <1>1, <2>1 DEF Ops
  <2>3. KeyOf(c) \in Keys
    BY <2>2 DEF ApplyParams, KeyOf, Keys
  <2>4. data \in Records
    <3>1. c.source \in AttendanceSources
      BY <2>2 DEF ApplyParams, AttendanceSources
    <3>2. /\ c.attendanceStatus \in AttendanceStatuses \cup {Undefined}
          /\ c.checkInAt \in Instant \cup {Undefined}
          /\ c.checkOutAt \in Instant \cup {Undefined}
      BY <2>2 DEF ApplyParams
    <3> QED
      BY <2>3, <3>1, <3>2, AppliedType DEF TypeInv
  <2> HIDE DEF data
  <2>5. s \in Ops /\ OpSound(s) /\ s.rows = o.rows
    BY <1>1, <2>1, <2>3, <2>4 DEF Ops, OpSound, Steps
  <2> HIDE DEF s
  <2> QED
    BY <1>1, <2>1, <2>5, GotoStep
<1>3. CASE ApplyFails(h)
  BY <1>3, LeaveStep DEF ApplyFails
<1> QED
  BY <1>2, <1>3

\* The steps of the finalizer preserve TypeInv.
LEMMA FinalizerTypes ==
    ASSUME TypeInv, NEW h \in Handlers, FinalizerSteps(h)
    PROVE  TypeInv'
<1> DEFINE o == op[h]
<1>1. o \in Ops /\ OpSound(o) /\ \A r \in o.rows: punches[r[1]] # Null
  BY DEF TypeInv, TypeOK, RowsStored
<1>2. CASE FinalizeDay(h)
  <2> DEFINE missing == {k \in ActiveEmployees \X {Head(o.days)}: records[k] = Null}
             s == [o EXCEPT !.days = Tail(o.days), !.affected = missing]
  <2>1. o.pc = "days" /\ o.days # <<>> /\ Goto(h, s)
    BY <1>2 DEF FinalizeDay
  <2>2. Head(o.days) \in Dates /\ Tail(o.days) \in Seq(Dates)
    BY <1>1, <2>1 DEF Ops
  <2>3. missing \in SUBSET Keys
    BY <2>2, AttendanceAssumption DEF Keys
  <2> HIDE DEF missing
  <2>4. s \in Ops /\ OpSound(s) /\ s.rows = o.rows
    BY <1>1, <2>2, <2>3 DEF Ops, OpSound
  <2> HIDE DEF s
  <2> QED
    BY <1>1, <2>1, <2>4, GotoStep
<1>3. CASE FinalizeEmployee(h)
  <2>1. PICK k \in o.affected:
          Goto(h, [o EXCEPT !.pc = "upsert", !.key = k,
                            !.data = Applied(k, Undefined, Null, Null, "system")])
    BY <1>3 DEF FinalizeEmployee
  <2> DEFINE data == Applied(k, Undefined, Null, Null, "system")
             s == [o EXCEPT !.pc = "upsert", !.key = k, !.data = data]
  <2>2. k \in Keys /\ o.kind = "final"
    BY <1>1, <1>3 DEF FinalizeEmployee, OpSound, Ops
  <2>3. data \in Records
    BY <2>2, AppliedType DEF TypeInv, Instant, AttendanceSources
  <2>4. Goto(h, s)
    BY <2>1
  <2> HIDE DEF data
  <2>5. s \in Ops /\ OpSound(s) /\ s.rows = o.rows
    BY <1>1, <2>2, <2>3 DEF Ops, OpSound, Steps
  <2> HIDE DEF s
  <2> QED
    BY <1>1, <2>4, <2>5, GotoStep
<1>4. CASE FinalizeEmployeeFails(h) \/ AllFinalized(h)
  BY <1>4, LeaveStep DEF FinalizeEmployeeFails, AllFinalized
<1> QED
  BY <1>2, <1>3, <1>4 DEF FinalizerSteps

\* A restart preserves TypeInv.
LEMMA CrashTypes ==
    ASSUME TypeInv, Crash
    PROVE  TypeInv'
<1>1. op' = [h \in Handlers |-> Idle] /\ finalizing' = FALSE
      /\ UNCHANGED <<today, punches, records>>
  BY DEF Crash
<1>2. op' \in [Handlers -> Ops] /\ \A h \in Handlers: OpSound(op'[h]) /\ op'[h].rows = {}
  BY <1>1, IdleSound
<1>3. crashes' \in 0..MaxCrashes
  BY AttendanceAssumption DEF Crash, TypeInv, TypeOK
<1>4. disturbed' \subseteq Keys
  <2>1. \A h \in Handlers: Owed(h) \subseteq Keys
    BY DEF Owed, TypeInv, TypeOK, Ops
  <2> QED
    BY <2>1 DEF Crash, TypeInv, TypeOK
<1> QED
  BY <1>1, <1>2, <1>3, <1>4 DEF TypeInv, TypeOK, PunchesSound, RowsStored

\* The server starts in TypeInv.
LEMMA TypeInvInit == Init => TypeInv
<1> SUFFICES ASSUME Init PROVE TypeInv
  OBVIOUS
<1>1. MaxDate \in Nat \ {0}
  BY AttendanceAssumption
<1>2. TypeOK
  <2>1. today \in Dates /\ crashes \in 0..MaxCrashes
    BY <1>1, AttendanceAssumption DEF Init, Dates
  <2>2. op \in [Handlers -> Ops]
    BY IdleSound DEF Init
  <2> QED
    BY <2>1, <2>2 DEF Init, TypeOK
<1>3. PunchesSound
  BY DEF Init, PunchesSound
<1>4. \A h \in Handlers: OpSound(op[h]) /\ op[h].rows = {}
  BY IdleSound DEF Init
<1> QED
  BY <1>2, <1>3, <1>4 DEF TypeInv, RowsStored

\* Every step preserves TypeInv.
LEMMA TypeInvStep == TypeInv /\ [Next]_vars => TypeInv'
<1> SUFFICES ASSUME TypeInv, [Next]_vars PROVE TypeInv'
  OBVIOUS
<1>1. CASE \E h \in Requests: Request(h)
  BY <1>1, RequestKeepsTypes
<1>2. CASE \E h \in Crons: StartFinalizer(h)
  BY <1>2, StartFinalizerTypes DEF Handlers
<1>3. ASSUME NEW h \in Handlers, IngestSteps(h)
      PROVE  TypeInv'
  <2>1. CASE InsertPunchFails(h) \/ AllRecomputed(h)
    BY <2>1, LeaveStep DEF InsertPunchFails, AllRecomputed
  <2> QED
    BY <1>3, <2>1, ItemTypes, InsertTypes, RelabelTypes, RecomputeTypes
    DEF IngestSteps
<1>4. ASSUME NEW h \in Handlers, WriteSteps(h)
      PROVE  TypeInv'
  <2>1. CASE AllApplied(h)
    BY <2>1, LeaveStep DEF AllApplied
  <2> QED
    BY <1>4, <2>1, UpsertTypes, ApplyTypes DEF WriteSteps
<1>5. ASSUME NEW h \in Handlers, FinalizerSteps(h)
      PROVE  TypeInv'
  BY <1>5, FinalizerTypes
<1>6. CASE DayPasses
  <2>1. today' \in Dates
    BY <1>6, AttendanceAssumption DEF DayPasses, TypeInv, TypeOK, Dates
  <2> QED
    BY <1>6, <2>1 DEF DayPasses, TypeInv, TypeOK, PunchesSound, RowsStored
<1>7. CASE Crash
  BY <1>7, CrashTypes
<1>8. CASE UNCHANGED vars
  BY <1>8 DEF vars, TypeInv, TypeOK, PunchesSound, RowsStored
<1> QED
  BY <1>1, <1>2, <1>3, <1>4, <1>5, <1>6, <1>7, <1>8 DEF Next, Step

\* TypeInv holds throughout.
LEMMA TypeInvariance == Spec => []TypeInv
BY TypeInvInit, TypeInvStep, PTL DEF Spec

\* Whatever interleaves, the tables hold well-formed rows: TypeOK.
THEOREM TypeCorrect == Spec => []TypeOK
<1>1. TypeInv => TypeOK
  BY DEF TypeInv
<1> QED
  BY <1>1, TypeInvariance, PTL

-----------------------------------------------------------------------------
(* The flag of the cron job.                                               *)

\* A step of a handler ends it, or leaves its kind and the flag alone.
LEMMA StepShape ==
    ASSUME TypeInv, NEW h \in Handlers, Step(h)
    PROVE  \/ Leave(h)
           \/ /\ finalizing' = finalizing
              /\ \E s: s.kind = op[h].kind /\ op' = [op EXCEPT ![h] = s]
<1> DEFINE o == op[h]
<1>1. o \in Ops
  BY DEF TypeInv, TypeOK
<1>2. ASSUME NEW s, s.kind = o.kind, Goto(h, s)
      PROVE  /\ finalizing' = finalizing
             /\ \E t: t.kind = op[h].kind /\ op' = [op EXCEPT ![h] = t]
  BY <1>2 DEF Goto
<1>3. PastItem(h).kind = o.kind
  BY <1>1 DEF PastItem, Ops
<1>4. [PastItem(h) EXCEPT
         !.affected = IF o.kind = "punch" THEN {KeyOf(Head(o.todo))} ELSE @].kind = o.kind
  BY <1>1 DEF PastItem, Ops
<1>5. [PastItem(h) EXCEPT !.affected = @ \cup {KeyOf(Head(o.todo))}].kind = o.kind
  BY <1>1 DEF PastItem, Ops
<1>6. \A k: DoneWith(h, k).kind = o.kind
  BY <1>1 DEF DoneWith, Ops
<1>7. CASE SkipPunch(h) \/ DuplicatePunch(h) \/ NewPunch(h)
  <2>1. [o EXCEPT !.todo = Tail(o.todo)].kind = o.kind
        /\ [o EXCEPT !.pc = "insert"].kind = o.kind
    BY <1>1 DEF Ops
  <2> QED
    BY <1>2, <1>3, <1>4, <1>7, <2>1 DEF SkipPunch, DuplicatePunch, NewPunch
<1>8. CASE RejectPunch(h) \/ InsertPunchFails(h) \/ AllRecomputed(h) \/ UpsertFails(h)
           \/ ApplyFails(h) \/ AllApplied(h) \/ FinalizeEmployeeFails(h) \/ AllFinalized(h)
  BY <1>8 DEF RejectPunch, InsertPunchFails, AllRecomputed, UpsertFails, ApplyFails,
              AllApplied, FinalizeEmployeeFails, AllFinalized, Return, Throw
<1>9. CASE InsertPunch(h)
  BY <1>5, <1>9 DEF InsertPunch
<1>10. CASE RelabelDay(h) \/ RelabelRow(h)
  <2>1. \A k, rows: [o EXCEPT !.pc = "relabel", !.key = k, !.rows = rows].kind = o.kind
    BY <1>1 DEF Ops
  <2>2. \A r: [o EXCEPT !.rows = @ \ {r}].kind = o.kind
    BY <1>1 DEF Ops
  <2>3. CASE RelabelDay(h)
    BY <1>2, <2>1, <2>3 DEF RelabelDay
  <2>4. CASE RelabelRow(h)
    <3>1. PICK r: op' = [op EXCEPT ![h].rows = @ \ {r}]
      BY <2>4 DEF RelabelRow
    <3>2. op' = [op EXCEPT ![h] = [o EXCEPT !.rows = @ \ {r}]]
      BY <3>1
    <3> QED
      BY <2>2, <2>4, <3>2 DEF RelabelRow
  <2> QED
    BY <1>10, <2>3, <2>4
<1>11. CASE RecomputeSkips(h) \/ RecomputeStarts(h) \/ RecomputeReads(h)
  <2>1. \A k: [o EXCEPT !.pc = "read", !.key = k].kind = o.kind
    BY <1>1 DEF Ops
  <2>2. \A r: [o EXCEPT !.pc = "upsert", !.data = r].kind = o.kind
    BY <1>1 DEF Ops
  <2> QED
    BY <1>2, <1>6, <1>11, <2>1, <2>2 DEF RecomputeSkips, RecomputeStarts, RecomputeReads
<1>12. CASE UpsertLooksUp(h) \/ UpsertWrites(h)
  <2>1. [o EXCEPT !.pc = "write", !.exists = (records[o.key] # Null)].kind = o.kind
    BY <1>1 DEF Ops
  <2> QED
    BY <1>2, <1>6, <1>12, <2>1 DEF UpsertLooksUp, UpsertWrites
<1>13. CASE ApplyReads(h) \/ FinalizeEmployee(h)
  <2>1. \A k, r: [o EXCEPT !.pc = "upsert", !.key = k, !.data = r].kind = o.kind
    BY <1>1 DEF Ops
  <2> QED
    BY <1>2, <1>13, <2>1 DEF ApplyReads, FinalizeEmployee
<1>14. CASE FinalizeDay(h)
  <2>1. \A days, ks: [o EXCEPT !.days = days, !.affected = ks].kind = o.kind
    BY <1>1 DEF Ops
  <2> QED
    BY <1>2, <1>14, <2>1 DEF FinalizeDay
<1> QED
  BY <1>7, <1>8, <1>9, <1>10, <1>11, <1>12, <1>13, <1>14
  DEF Step, IngestSteps, WriteSteps, FinalizerSteps

\* The kinds handlers start with.
LEMMA StartedKinds ==
    /\ \A kind, items: [Idle EXCEPT !.kind = kind, !.pc = "items", !.todo = items].kind = kind
    /\ \A changes:
         [Idle EXCEPT !.kind = "apply", !.pc = "apply", !.changes = changes].kind = "apply"
    /\ \A days: [Idle EXCEPT !.kind = "final", !.pc = "days", !.days = days].kind = "final"
BY DEF Idle

\* Every step keeps the flag exact, exceptions and restarts included.
LEMMA FlagStep ==
    ASSUME TypeInv, FinalizerFlagIsExact, [Next]_vars
    PROVE  FinalizerFlagIsExact'
<1>1. op \in [Handlers -> Ops] /\ Idle.kind = "idle"
  BY DEF TypeInv, TypeOK, Idle
<1>2. ASSUME NEW h \in Handlers, NEW s, op' = [op EXCEPT ![h] = s],
             s.kind = op[h].kind, finalizing' = finalizing
      PROVE  FinalizerFlagIsExact'
  <2>1. \A g \in Handlers: op'[g].kind = op[g].kind
    BY <1>1, <1>2
  <2> QED
    BY <1>2, <2>1 DEF FinalizerFlagIsExact
<1>3. ASSUME NEW h \in Handlers, Leave(h)
      PROVE  FinalizerFlagIsExact'
  <2>1. op'[h].kind = "idle" /\ \A g \in Handlers \ {h}: op'[g] = op[g]
    BY <1>1, <1>3 DEF Leave
  <2> QED
    BY <1>3, <2>1 DEF Leave, FinalizerFlagIsExact
<1>4. CASE \E h \in Requests: Request(h)
  <2>1. PICK h \in Requests: Request(h)
    BY <1>4
  <2>2. h \in Handlers /\ op[h].kind = "idle" /\ finalizing' = finalizing
    BY <2>1 DEF Handlers, Request, RecordPunch, RecordBatchPunches,
                RecordDevicePunches, Correct, Ingest, Begin
  <2>3. PICK s: op' = [op EXCEPT ![h] = s] /\ s.kind # "final"
    <3>1. ASSUME NEW kind \in {"punch", "batch", "device"}, NEW items,
                 Ingest(h, kind, items)
          PROVE  \E s: op' = [op EXCEPT ![h] = s] /\ s.kind # "final"
      <4> DEFINE s == [Idle EXCEPT !.kind = kind, !.pc = "items", !.todo = items]
      <4>1. op' = [op EXCEPT ![h] = s]
        BY <3>1 DEF Ingest, Begin
      <4>2. s.kind # "final"
        BY StartedKinds
      <4> HIDE DEF s
      <4> QED
        BY <4>1, <4>2
    <3>2. CASE Correct(h)
      <4>1. PICK changes:
              Begin(h, [Idle EXCEPT !.kind = "apply", !.pc = "apply", !.changes = changes])
        BY <3>2 DEF Correct
      <4> DEFINE s == [Idle EXCEPT !.kind = "apply", !.pc = "apply", !.changes = changes]
      <4>2. op' = [op EXCEPT ![h] = s]
        BY <4>1 DEF Begin
      <4>3. s.kind # "final"
        BY StartedKinds
      <4> HIDE DEF s
      <4> QED
        BY <4>2, <4>3
    <3> QED
      BY <2>1, <3>1, <3>2
      DEF Request, RecordPunch, RecordBatchPunches, RecordDevicePunches
  <2>4. op'[h].kind # "final" /\ \A g \in Handlers \ {h}: op'[g] = op[g]
    BY <1>1, <2>2, <2>3
  <2> QED
    BY <2>2, <2>4 DEF FinalizerFlagIsExact
<1>5. CASE \E h \in Crons: StartFinalizer(h)
  <2>1. PICK h \in Crons: StartFinalizer(h)
    BY <1>5
  <2>2. h \in Handlers /\ finalizing = FALSE /\ finalizing' = TRUE
    BY <2>1 DEF Handlers, StartFinalizer, TypeInv, TypeOK
  <2>3. PICK s: op' = [op EXCEPT ![h] = s] /\ s.kind = "final"
    <3> DEFINE s == [Idle EXCEPT !.kind = "final", !.pc = "days", !.days = RecentDays]
    <3>1. op' = [op EXCEPT ![h] = s]
      BY <2>1 DEF StartFinalizer, Begin
    <3>2. s.kind = "final"
      BY StartedKinds
    <3> HIDE DEF s
    <3> QED
      BY <3>1, <3>2
  <2>4. op'[h].kind = "final" /\ \A g \in Handlers \ {h}: op'[g] = op[g]
    BY <1>1, <2>2, <2>3
  <2> QED
    BY <2>2, <2>4 DEF FinalizerFlagIsExact
<1>6. CASE \E h \in Handlers: Step(h)
  BY <1>2, <1>3, <1>6, StepShape
<1>7. CASE DayPasses \/ UNCHANGED vars
  BY <1>7 DEF DayPasses, vars, FinalizerFlagIsExact
<1>8. CASE Crash
  BY <1>1, <1>8 DEF Crash, FinalizerFlagIsExact
<1> QED
  BY <1>4, <1>5, <1>6, <1>7, <1>8 DEF Next

\* finalizing guards the cron job against overlapping with itself, and is
\* always given back: FinalizerFlagIsExact.
THEOREM FlagTheorem == Spec => []FinalizerFlagIsExact
<1>1. Init => FinalizerFlagIsExact
  BY DEF Init, FinalizerFlagIsExact, Idle
<1>2. TypeInv /\ FinalizerFlagIsExact /\ [Next]_vars => FinalizerFlagIsExact'
  BY FlagStep
<1> QED
  BY <1>1, <1>2, TypeInvariance, PTL DEF Spec

-----------------------------------------------------------------------------
(* External ids.                                                           *)

\* Nothing but the insert and the relabelling writes the punch table.
LEMMA OthersKeepPunches ==
    ASSUME [Next]_vars, \A h \in Handlers: ~InsertPunch(h) /\ ~RelabelRow(h)
    PROVE  punches' = punches
<1>1. ASSUME NEW h \in Handlers, IngestSteps(h) PROVE punches' = punches
  BY <1>1 DEF IngestSteps, SkipPunch, RejectPunch, DuplicatePunch, NewPunch,
       InsertPunchFails, RelabelDay, AllRecomputed, RecomputeSkips, RecomputeStarts,
       RecomputeReads, Goto, Return, Throw
<1>2. ASSUME NEW h \in Handlers, WriteSteps(h) PROVE punches' = punches
  BY <1>2 DEF WriteSteps, UpsertLooksUp, UpsertWrites, UpsertFails, ApplyReads,
       ApplyFails, AllApplied, Goto, Return, Throw
<1>3. ASSUME NEW h \in Handlers, FinalizerSteps(h) PROVE punches' = punches
  BY <1>3 DEF FinalizerSteps, FinalizeDay, FinalizeEmployee, FinalizeEmployeeFails,
       AllFinalized, Goto, Return, Throw
<1>4. ASSUME NEW h \in Requests, Request(h) PROVE punches' = punches
  BY <1>4 DEF Request, RecordPunch, RecordBatchPunches, RecordDevicePunches, Correct,
       Ingest, Begin
<1>5. ASSUME NEW h \in Crons, StartFinalizer(h) PROVE punches' = punches
  BY <1>5 DEF StartFinalizer, Begin
<1>6. CASE DayPasses \/ Crash \/ UNCHANGED vars
  BY <1>6 DEF DayPasses, Crash, vars
<1> QED
  BY <1>1, <1>2, <1>3, <1>4, <1>5, <1>6 DEF Next, Step

\* Every step keeps external ids stored once: the insert is guarded by the index.
LEMMA ExternalIdStep ==
    ASSUME TypeInv, ExternalIdStoredOnce, [Next]_vars
    PROVE  ExternalIdStoredOnce'
<1>1. ASSUME NEW h \in Handlers, InsertPunch(h) PROVE ExternalIdStoredOnce'
  <2> DEFINE e == Head(op[h].todo)
  <2>1. /\ e \in Punches
        /\ e.externalId # Null => ~ExternalIdStored(e.externalId)
        /\ \A f \in Punches: punches'[f] # Null <=> (punches[f] # Null \/ f = e)
    BY <1>1, InsertStores
  <2> HIDE DEF e
  <2> QED
    BY <2>1 DEF ExternalIdStoredOnce, ExternalIdStored
<1>2. ASSUME NEW h \in Handlers, RelabelRow(h) PROVE ExternalIdStoredOnce'
  BY <1>2, RelabelRowStores DEF ExternalIdStoredOnce
<1>3. CASE punches' = punches
  BY <1>3 DEF ExternalIdStoredOnce
<1> QED
  BY <1>1, <1>2, <1>3, OthersKeepPunches

\* However often and by however many requests at a time a punch is sent, its
\* external id is stored once: ExternalIdStoredOnce.
THEOREM ExternalIdTheorem == Spec => []ExternalIdStoredOnce
<1>1. Init => ExternalIdStoredOnce
  BY DEF Init, ExternalIdStoredOnce
<1>2. TypeInv /\ ExternalIdStoredOnce /\ [Next]_vars => ExternalIdStoredOnce'
  BY ExternalIdStep
<1> QED
  BY <1>1, <1>2, TypeInvariance, PTL DEF Spec

-----------------------------------------------------------------------------
(* Decisions.                                                              *)
(*                                                                         *)
(* DecisionsStick needs what handlers rely on while they are engaged: an   *)
(* ingesting handler past the first read of recomputeRecord, and the       *)
(* finalizer between its query and its last write, still see no decision   *)
(* on their days, unless the day is disturbed.                             *)

Writing == {"upsert", "write"}

\* What handler h may rely on.
Relies(h) ==
    /\ op[h].pc \in Writing /\ op[h].kind = "apply" => IsDecision(op[h].data)
    /\ op[h].pc \in Writing /\ op[h].kind = "final" => op[h].key \in op[h].affected
    /\ (Ingesting(h) /\ op[h].pc \in Writing \cup {"read"} /\ op[h].key \notin disturbed)
         => ~IsDecision(records[op[h].key])
    /\ op[h].kind = "final" =>
         \A k \in op[h].affected \ disturbed: records[k] = Null

DecisionInv == \A h \in Handlers: Relies(h)

\* A handler that takes a step without writing a record leaves the others
\* what they rely on.
LEMMA QuietStep ==
    ASSUME TypeInv, DecisionInv, NEW h \in Handlers, NEW s, op' = [op EXCEPT ![h] = s],
           records' = records, disturbed \subseteq disturbed', Relies(h)'
    PROVE  DecisionInv'
<1>1. ASSUME NEW g \in Handlers, g # h PROVE Relies(g)'
  <2>1. op'[g] = op[g]
    BY <1>1 DEF TypeInv, TypeOK
  <2>2. Relies(g)
    BY DEF DecisionInv
  <2> QED
    BY <2>1, <2>2 DEF Relies, Ingesting, IsDecision
<1> QED
  BY <1>1 DEF DecisionInv

\* An idle handler relies on nothing.
LEMMA IdleRelies ==
    ASSUME NEW h, op'[h].kind = "idle", op'[h].pc = "idle"
    PROVE  Relies(h)'
BY DEF Relies, Ingesting, Writing

\* A handler that moves on to a state that is past its writes, or before its
\* first read, and is not the finalizer's, relies on nothing either.
LEMMA ApartRelies ==
    ASSUME NEW h, op'[h].pc \notin Writing \cup {"read"}, op'[h].kind # "final"
    PROVE  Relies(h)'
BY DEF Relies, Writing

\* A handler that returns or throws leaves the others what they rely on.
LEMMA LeaveKeepsDecisions ==
    ASSUME TypeInv, DecisionInv, NEW h \in Handlers, Return(h) \/ Throw(h)
    PROVE  DecisionInv'
<1>1. Leave(h) /\ records' = records /\ disturbed \subseteq disturbed'
  BY DEF Return, Throw
<1>2. op' = [op EXCEPT ![h] = Idle] /\ op'[h] = Idle
  BY <1>1 DEF Leave, TypeInv, TypeOK
<1>3. Relies(h)'
  BY <1>2, IdleRelies DEF Idle
<1> QED
  BY <1>1, <1>2, <1>3, QuietStep

\* So does one that starts.
LEMMA StartKeepsDecisions ==
    ASSUME TypeInv, DecisionInv,
           \/ \E h \in Requests: Request(h)
           \/ \E h \in Crons: StartFinalizer(h)
    PROVE  DecisionInv'
<1>1. ASSUME NEW h \in Handlers, NEW s, Begin(h, s), s.affected = {},
             s.pc \notin Writing \cup {"read"}
      PROVE  DecisionInv'
  <2>1. op' = [op EXCEPT ![h] = s] /\ op'[h] = s /\ records' = records
        /\ disturbed' = disturbed
    BY <1>1 DEF Begin, TypeInv, TypeOK
  <2>2. Relies(h)'
    BY <1>1, <2>1 DEF Relies, Writing
  <2> QED
    BY <2>1, <2>2, QuietStep
<1>2. ASSUME NEW h \in Handlers, NEW kind, NEW items, Ingest(h, kind, items)
      PROVE  DecisionInv'
  <2> DEFINE s == [Idle EXCEPT !.kind = kind, !.pc = "items", !.todo = items]
  <2>1. s.affected = {} /\ s.pc \notin Writing \cup {"read"}
    BY DEF Idle, Writing
  <2>2. Begin(h, s)
    BY <1>2 DEF Ingest
  <2> HIDE DEF s
  <2> QED
    BY <1>1, <2>1, <2>2
<1>3. ASSUME NEW h \in Handlers, Correct(h)
      PROVE  DecisionInv'
  <2>1. PICK changes:
          Begin(h, [Idle EXCEPT !.kind = "apply", !.pc = "apply", !.changes = changes])
    BY <1>3 DEF Correct
  <2> DEFINE s == [Idle EXCEPT !.kind = "apply", !.pc = "apply", !.changes = changes]
  <2>2. s.affected = {} /\ s.pc \notin Writing \cup {"read"}
    BY DEF Idle, Writing
  <2>3. Begin(h, s)
    BY <2>1
  <2> HIDE DEF s
  <2> QED
    BY <1>1, <2>2, <2>3
<1>4. ASSUME NEW h \in Handlers, StartFinalizer(h)
      PROVE  DecisionInv'
  <2> DEFINE s == [Idle EXCEPT !.kind = "final", !.pc = "days", !.days = RecentDays]
  <2>1. s.affected = {} /\ s.pc \notin Writing \cup {"read"}
    BY DEF Idle, Writing
  <2>2. Begin(h, s)
    BY <1>4 DEF StartFinalizer
  <2> HIDE DEF s
  <2> QED
    BY <1>1, <2>1, <2>2
<1> QED
  BY <1>2, <1>3, <1>4
  DEF Request, RecordPunch, RecordBatchPunches, RecordDevicePunches, Handlers

\* Punches one by one, labels, and the first read of recomputeRecord.
LEMMA IngestKeepsDecisions ==
    ASSUME TypeInv, DecisionInv, NEW h \in Handlers, IngestSteps(h)
    PROVE  DecisionInv'
<1> DEFINE o == op[h]
<1>1. o \in Ops /\ OpSound(o) /\ op \in [Handlers -> Ops]
  BY DEF TypeInv, TypeOK
<1>2. ASSUME NEW s, op' = [op EXCEPT ![h] = s], records' = records,
             disturbed \subseteq disturbed', s.kind # "final",
             s.pc \notin Writing \cup {"read"}
      PROVE  DecisionInv'
  <2>1. op'[h] = s
    BY <1>1, <1>2
  <2>2. Relies(h)'
    BY <1>2, <2>1, ApartRelies
  <2> QED
    BY <1>2, <2>2, QuietStep
<1>3. PastItem(h).kind = o.kind /\ PastItem(h).pc = "items"
  BY <1>1 DEF PastItem, Ops
<1>4. CASE SkipPunch(h) \/ DuplicatePunch(h) \/ NewPunch(h)
  <2>1. o.pc = "items" /\ o.kind # "final"
    BY <1>1, <1>4 DEF SkipPunch, DuplicatePunch, NewPunch, AtItem, OpSound
  <2>2. PICK s: Goto(h, s) /\ s.kind = o.kind /\ s.pc \in {"items", "insert"}
    <3>1. [o EXCEPT !.todo = Tail(o.todo)].kind = o.kind
          /\ [o EXCEPT !.todo = Tail(o.todo)].pc = o.pc
          /\ [o EXCEPT !.pc = "insert"].kind = o.kind
          /\ [o EXCEPT !.pc = "insert"].pc = "insert"
      BY <1>1 DEF Ops
    <3>2. \A ks: /\ [PastItem(h) EXCEPT !.affected = ks].kind = o.kind
                 /\ [PastItem(h) EXCEPT !.affected = ks].pc = "items"
      BY <1>1 DEF PastItem, Ops
    <3>3. CASE SkipPunch(h)
      BY <1>3, <2>1, <3>1, <3>3 DEF SkipPunch
    <3>4. CASE DuplicatePunch(h)
      BY <3>2, <3>4 DEF DuplicatePunch
    <3>5. CASE NewPunch(h)
      BY <3>1, <3>5 DEF NewPunch
    <3> QED
      BY <1>4, <3>3, <3>4, <3>5
  <2> QED
    BY <1>2, <2>1, <2>2 DEF Goto, Writing
<1>5. CASE RejectPunch(h) \/ InsertPunchFails(h) \/ AllRecomputed(h)
  BY <1>5, LeaveKeepsDecisions DEF RejectPunch, InsertPunchFails, AllRecomputed
<1>6. CASE InsertPunch(h)
  <2> DEFINE s == [PastItem(h) EXCEPT !.affected = @ \cup {KeyOf(Head(o.todo))}]
  <2>1. s.kind = o.kind /\ s.pc = "items"
    BY <1>1 DEF PastItem, Ops
  <2>2. o.kind # "final" /\ op' = [op EXCEPT ![h] = s] /\ records' = records
        /\ disturbed \subseteq disturbed'
    BY <1>1, <1>6 DEF InsertPunch, OpSound, Writes
  <2> HIDE DEF s
  <2> QED
    BY <1>2, <2>1, <2>2 DEF Writing
<1>7. CASE RelabelDay(h)
  <2>1. PICK k, rows: Goto(h, [o EXCEPT !.pc = "relabel", !.key = k, !.rows = rows])
    BY <1>7 DEF RelabelDay
  <2> DEFINE s == [o EXCEPT !.pc = "relabel", !.key = k, !.rows = rows]
  <2>2. s.kind = "device" /\ s.pc = "relabel"
    BY <1>1, <1>7 DEF RelabelDay, AtKeys, Ops
  <2>3. op' = [op EXCEPT ![h] = s] /\ records' = records /\ disturbed' = disturbed
    BY <2>1 DEF Goto
  <2> HIDE DEF s
  <2> QED
    BY <1>2, <2>2, <2>3 DEF Writing
<1>8. CASE RelabelRow(h)
  <2>1. PICK r: op' = [op EXCEPT ![h].rows = @ \ {r}]
    BY <1>8 DEF RelabelRow
  <2> DEFINE s == [o EXCEPT !.rows = @ \ {r}]
  <2>2. s.kind = "device" /\ s.pc = "relabel"
    BY <1>1, <1>8 DEF RelabelRow, OpSound, Ops
  <2>3. op' = [op EXCEPT ![h] = s] /\ records' = records /\ disturbed \subseteq disturbed'
    BY <1>8, <2>1 DEF RelabelRow, Writes
  <2> HIDE DEF s
  <2> QED
    BY <1>2, <2>2, <2>3 DEF Writing
<1>9. CASE RecomputeSkips(h)
  <2>1. PICK k \in Keys: AtRecompute(h, k) /\ Goto(h, DoneWith(h, k))
    BY <1>9 DEF RecomputeSkips
  <2>2. o.kind \in {"punch", "batch", "device"}
    BY <1>1, <2>1 DEF AtRecompute, AtKeys, OpSound
  <2>3. DoneWith(h, k).kind = o.kind /\ DoneWith(h, k).pc = "items"
    BY <1>1, <2>2 DEF DoneWith, Ops
  <2> QED
    BY <1>2, <2>1, <2>2, <2>3 DEF Goto, Writing
<1>10. CASE RecomputeStarts(h)
  <2>1. PICK k \in Keys: /\ AtRecompute(h, k)
                         /\ ~IsDecision(records[k])
                         /\ Goto(h, [o EXCEPT !.pc = "read", !.key = k])
    BY <1>10 DEF RecomputeStarts
  <2> DEFINE s == [o EXCEPT !.pc = "read", !.key = k]
  <2>2. o.kind \in {"punch", "batch", "device"}
    BY <1>1, <2>1 DEF AtRecompute, AtKeys, OpSound
  <2>3. s.kind = o.kind /\ s.pc = "read" /\ s.key = k
    BY <1>1 DEF Ops
  <2>4. op' = [op EXCEPT ![h] = s] /\ records' = records /\ disturbed' = disturbed
    BY <2>1 DEF Goto
  <2> HIDE DEF s
  <2>5. op'[h] = s
    BY <1>1, <2>4
  <2>6. Relies(h)'
    BY <2>1, <2>2, <2>3, <2>4, <2>5 DEF Relies, Writing, Ingesting, IsDecision
  <2> QED
    BY <2>4, <2>6, QuietStep
<1>11. CASE RecomputeReads(h)
  <2> DEFINE s == [o EXCEPT !.pc = "upsert", !.data = Recomputed(o.key)]
  <2>1. o.pc = "read" /\ op' = [op EXCEPT ![h] = s] /\ records' = records
        /\ disturbed' = disturbed
    BY <1>11 DEF RecomputeReads, Goto
  <2>2. o.kind \in {"punch", "batch", "device"}
    BY <1>1, <2>1 DEF OpSound
  <2>3. s.kind = o.kind /\ s.pc = "upsert" /\ s.key = o.key
    BY <1>1 DEF Ops
  <2> HIDE DEF s
  <2>4. op'[h] = s
    BY <1>1, <2>1
  <2>5. o.key \notin disturbed => ~IsDecision(records[o.key])
    BY <2>1, <2>2 DEF DecisionInv, Relies, Writing, Ingesting
  <2>6. Relies(h)'
    BY <2>1, <2>2, <2>3, <2>4, <2>5 DEF Relies, Writing, Ingesting, IsDecision
  <2> QED
    BY <2>1, <2>6, QuietStep
<1> QED
  BY <1>4, <1>5, <1>6, <1>7, <1>8, <1>9, <1>10, <1>11 DEF IngestSteps

\* The only writer of a record is a handler at the end of its upsert: on a
\* day that is not disturbed it replaces no decision by something else, and
\* no other handler is engaged on the day.
LEMMA WriteRespectsDecisions ==
    ASSUME TypeInv, DecisionInv, NEW h \in Handlers, UpsertWrites(h)
    PROVE  LET k == op[h].key
           IN  /\ k \in Keys
               /\ records' = [records EXCEPT ![k] = op[h].data]
               /\ op' = [op EXCEPT ![h] = DoneWith(h, k)]
               /\ disturbed \subseteq disturbed'
               /\ k \notin disturbed' => \A g \in Handlers \ {h}: k \notin Engaged(g)
               /\ (k \notin disturbed' /\ IsDecision(records[k])) => IsDecision(op[h].data)
<1> DEFINE o == op[h]
           k == o.key
<1>1. o \in Ops /\ OpSound(o) /\ o.pc = "write"
  BY DEF UpsertWrites, TypeInv, TypeOK
<1>2. k \in Keys /\ o.kind # "idle"
  BY <1>1 DEF OpSound
<1>3. /\ records' = [records EXCEPT ![k] = o.data]
      /\ op' = [op EXCEPT ![h] = DoneWith(h, k)]
      /\ Writes(h, k)
  BY DEF UpsertWrites
<1>4. /\ disturbed \subseteq disturbed'
      /\ k \notin disturbed' => \A g \in Handlers \ {h}: k \notin Engaged(g)
  BY <1>3 DEF Writes
<1>5. ASSUME k \notin disturbed, IsDecision(records[k])
      PROVE  IsDecision(o.data)
  <2>1. Relies(h)
    BY DEF DecisionInv
  <2>2. CASE o.kind = "apply"
    BY <1>1, <2>1, <2>2 DEF Relies, Writing
  <2>3. CASE o.kind = "final"
    <3>1. records[k] = Null
      BY <1>1, <1>5, <2>1, <2>3 DEF Relies, Writing
    <3> QED
      BY <1>5, <3>1 DEF IsDecision
  <2>4. CASE o.kind \in {"punch", "batch", "device"}
    BY <1>1, <1>5, <2>1, <2>4 DEF Relies, Writing, Ingesting
  <2> QED
    BY <1>1, <1>2, <2>2, <2>3, <2>4 DEF Ops, Kinds
<1> QED
  BY <1>2, <1>3, <1>4, <1>5

\* The write of a record disturbs the day for all who rely on it.
LEMMA WriteKeepsDecisions ==
    ASSUME TypeInv, DecisionInv, NEW h \in Handlers, UpsertWrites(h)
    PROVE  DecisionInv'
<1> DEFINE o == op[h]
           k == o.key
           s == DoneWith(h, k)
<1>1. o \in Ops /\ OpSound(o) /\ op \in [Handlers -> Ops] /\ o.pc = "write"
  BY DEF UpsertWrites, TypeInv, TypeOK
<1>2. /\ k \in Keys
      /\ records' = [records EXCEPT ![k] = o.data]
      /\ op' = [op EXCEPT ![h] = s]
      /\ disturbed \subseteq disturbed'
      /\ k \notin disturbed' => \A g \in Handlers \ {h}: k \notin Engaged(g)
  BY WriteRespectsDecisions
<1>3. \A j \in Keys \ {k}: records'[j] = records[j]
  BY <1>2 DEF TypeInv, TypeOK
<1>4. Relies(h)
  BY DEF DecisionInv
<1>5. Relies(h)'
  <2>1. op'[h] = s
    BY <1>1, <1>2
  <2>2. s.pc \in {"items", "days", "apply"} /\ s.kind = o.kind
    BY <1>1 DEF DoneWith, Ops
  <2>3. CASE o.kind = "final"
    <3>1. s.affected = o.affected \ {k} /\ o.affected \subseteq Keys
      BY <1>1, <2>3 DEF DoneWith, Ops
    <3>2. \A j \in s.affected \ disturbed': records'[j] = Null
      BY <1>2, <1>3, <1>4, <2>3, <3>1 DEF Relies
    <3> HIDE DEF s
    <3> QED
      BY <2>1, <2>2, <2>3, <3>2 DEF Relies, Writing, Ingesting
  <2>4. CASE o.kind # "final"
    <3> HIDE DEF s
    <3> QED
      BY <2>1, <2>2, <2>4, ApartRelies DEF Writing
  <2> QED
    BY <2>3, <2>4
<1>6. ASSUME NEW g \in Handlers \ {h} PROVE Relies(g)'
  <2>1. op'[g] = op[g] /\ op[g] \in Ops /\ OpSound(op[g]) /\ Relies(g)
    BY <1>1, <1>2 DEF TypeInv, DecisionInv
  <2>2. k \notin disturbed' => k \notin Engaged(g)
    BY <1>2
  <2>3. ASSUME Ingesting(g), op[g].pc \in Writing \cup {"read"}, op[g].key \notin disturbed'
        PROVE  ~IsDecision(records'[op[g].key])
    <3>1. op[g].key \in Keys /\ op[g].key # Null
      BY <2>1, <2>3, AttendanceAssumption DEF OpSound, Writing
    <3>2. op[g].key \in Engaged(g)
      BY <2>3, <3>1 DEF Engaged, Ingesting
    <3>3. op[g].key # k
      BY <2>2, <2>3, <3>2
    <3>4. records'[op[g].key] = records[op[g].key]
      BY <1>3, <3>1, <3>3
    <3> QED
      BY <1>2, <2>1, <2>3, <3>4 DEF Relies, IsDecision
  <2>4. ASSUME op[g].kind = "final", NEW j \in op[g].affected \ disturbed'
        PROVE  records'[j] = Null
    <3>1. j \in Keys /\ j \in Engaged(g)
      BY <2>1, <2>4 DEF Ops, Engaged
    <3>2. j # k
      BY <2>2, <2>4, <3>1
    <3> QED
      BY <1>2, <1>3, <2>1, <2>4, <3>1, <3>2 DEF Relies
  <2> QED
    BY <2>1, <2>3, <2>4 DEF Relies, Ingesting, IsDecision
<1> QED
  BY <1>5, <1>6 DEF DecisionInv

\* The other steps of upsert and applyRecord write nothing others rely on.
LEMMA OtherWriteStepsKeepDecisions ==
    ASSUME TypeInv, DecisionInv, NEW h \in Handlers,
           \/ UpsertLooksUp(h) \/ UpsertFails(h)
           \/ ApplyReads(h) \/ ApplyFails(h) \/ AllApplied(h)
    PROVE  DecisionInv'
<1> DEFINE o == op[h]
<1>1. o \in Ops /\ OpSound(o) /\ op \in [Handlers -> Ops] /\ Relies(h)
  BY DEF TypeInv, TypeOK, DecisionInv
<1>2. CASE UpsertLooksUp(h)
  <2> DEFINE s == [o EXCEPT !.pc = "write", !.exists = (records[o.key] # Null)]
  <2>1. o.pc = "upsert" /\ op' = [op EXCEPT ![h] = s] /\ records' = records
        /\ disturbed' = disturbed
    BY <1>2 DEF UpsertLooksUp, Goto
  <2>2. s.kind = o.kind /\ s.pc = "write" /\ s.key = o.key /\ s.data = o.data
        /\ s.affected = o.affected
    BY <1>1 DEF Ops
  <2> HIDE DEF s
  <2>3. op'[h] = s
    BY <1>1, <2>1
  <2>4. Relies(h)'
    BY <1>1, <2>1, <2>2, <2>3 DEF Relies, Writing, Ingesting, IsDecision
  <2> QED
    BY <2>1, <2>4, QuietStep
<1>3. CASE ApplyReads(h)
  <2> DEFINE c == Head(o.changes)
             data == Applied(KeyOf(c), c.attendanceStatus, c.checkInAt,
                             c.checkOutAt, c.source)
             s == [o EXCEPT !.pc = "upsert", !.key = KeyOf(c), !.data = data]
  <2>1. o.pc = "apply" /\ o.changes # <<>> /\ op' = [op EXCEPT ![h] = s]
        /\ records' = records /\ disturbed' = disturbed
    BY <1>3 DEF ApplyReads, Goto
  <2>2. c.source \in {"manual", "regularization"}
    <3>1. c \in ApplyParams
      BY <1>1, <2>1 DEF Ops
    <3> QED
      BY <3>1 DEF ApplyParams
  <2>3. TypeInv'
    BY <1>3, ApplyTypes
  <2>4. data.source = c.source
    BY DEF Applied
  <2>5. s.kind = "apply" /\ s.pc = "upsert" /\ s.data = data
    BY <1>1, <2>1 DEF Ops, OpSound
  <2> HIDE DEF s
  <2>6. op'[h] = s
    BY <1>1, <2>1
  <2>7. data # Null
    <3>1. op'[h].data \in Records
      BY <2>3, <2>5, <2>6 DEF TypeInv, OpSound
    <3> QED
      BY <2>5, <2>6, <3>1, AttendanceAssumption
  <2>8. IsDecision(s.data)
    BY <2>2, <2>4, <2>5, <2>7 DEF IsDecision
  <2> HIDE DEF data
  <2>9. Relies(h)'
    BY <2>5, <2>6, <2>8 DEF Relies, Writing, Ingesting, IsDecision
  <2> QED
    BY <2>1, <2>9, QuietStep
<1>4. CASE UpsertFails(h) \/ ApplyFails(h) \/ AllApplied(h)
  BY <1>4, LeaveKeepsDecisions DEF UpsertFails, ApplyFails, AllApplied
<1> QED
  BY <1>2, <1>3, <1>4

\* The finalizer relies only on days its query found without a record.
LEMMA FinalizerKeepsDecisions ==
    ASSUME TypeInv, DecisionInv, NEW h \in Handlers, FinalizerSteps(h)
    PROVE  DecisionInv'
<1> DEFINE o == op[h]
<1>1. o \in Ops /\ OpSound(o) /\ op \in [Handlers -> Ops] /\ Relies(h)
  BY DEF TypeInv, TypeOK, DecisionInv
<1>2. CASE FinalizeDay(h)
  <2> DEFINE missing == {k \in ActiveEmployees \X {Head(o.days)}: records[k] = Null}
             s == [o EXCEPT !.days = Tail(o.days), !.affected = missing]
  <2>1. o.pc = "days" /\ op' = [op EXCEPT ![h] = s] /\ records' = records
        /\ disturbed' = disturbed
    BY <1>2 DEF FinalizeDay, Goto
  <2>2. s.kind = "final" /\ s.pc = "days" /\ s.affected = missing
    BY <1>1, <2>1 DEF Ops, OpSound
  <2>3. \A k \in missing: records[k] = Null
    OBVIOUS
  <2> HIDE DEF s, missing
  <2>4. op'[h] = s
    BY <1>1, <2>1
  <2>5. Relies(h)'
    BY <2>1, <2>2, <2>3, <2>4 DEF Relies, Writing, Ingesting
  <2> QED
    BY <2>1, <2>5, QuietStep
<1>3. CASE FinalizeEmployee(h)
  <2>1. PICK k \in o.affected:
          Goto(h, [o EXCEPT !.pc = "upsert", !.key = k,
                            !.data = Applied(k, Undefined, Null, Null, "system")])
    BY <1>3 DEF FinalizeEmployee
  <2> DEFINE s == [o EXCEPT !.pc = "upsert", !.key = k,
                            !.data = Applied(k, Undefined, Null, Null, "system")]
  <2>2. op' = [op EXCEPT ![h] = s] /\ records' = records /\ disturbed' = disturbed
    BY <2>1 DEF Goto
  <2>3. s.kind = "final" /\ s.pc = "upsert" /\ s.key = k /\ s.affected = o.affected
    BY <1>1, <1>3 DEF FinalizeEmployee, Ops, OpSound
  <2>4. o.kind = "final"
    BY <1>1, <1>3 DEF FinalizeEmployee, OpSound
  <2> HIDE DEF s
  <2>5. op'[h] = s
    BY <1>1, <2>2
  <2>6. Relies(h)'
    BY <1>1, <2>2, <2>3, <2>4, <2>5 DEF Relies, Writing, Ingesting
  <2> QED
    BY <2>2, <2>6, QuietStep
<1>4. CASE FinalizeEmployeeFails(h) \/ AllFinalized(h)
  BY <1>4, LeaveKeepsDecisions DEF FinalizeEmployeeFails, AllFinalized
<1> QED
  BY <1>2, <1>3, <1>4 DEF FinalizerSteps

\* Every step preserves DecisionInv.
LEMMA DecisionStep ==
    ASSUME TypeInv, DecisionInv, [Next]_vars
    PROVE  DecisionInv'
<1>1. ASSUME NEW h \in Handlers, Step(h) PROVE DecisionInv'
  BY <1>1, IngestKeepsDecisions, WriteKeepsDecisions, OtherWriteStepsKeepDecisions,
     FinalizerKeepsDecisions
  DEF Step, WriteSteps
<1>2. CASE Crash
  <2>1. \A h \in Handlers: op'[h].kind = "idle" /\ op'[h].pc = "idle"
    BY <1>2 DEF Crash, Idle
  <2> QED
    BY <2>1, IdleRelies DEF DecisionInv
<1>3. CASE DayPasses \/ UNCHANGED vars
  BY <1>3 DEF DayPasses, vars, DecisionInv, Relies, Ingesting, IsDecision
<1> QED
  BY <1>1, <1>2, <1>3, StartKeepsDecisions DEF Next

\* Nothing but the write of upsert writes the record table.
LEMMA OthersKeepRecords ==
    ASSUME [Next]_vars, \A h \in Handlers: ~UpsertWrites(h)
    PROVE  records' = records
<1>1. ASSUME NEW h \in Handlers, IngestSteps(h) PROVE records' = records
  BY <1>1 DEF IngestSteps, SkipPunch, RejectPunch, DuplicatePunch, NewPunch, InsertPunch,
       InsertPunchFails, RelabelDay, RelabelRow, AllRecomputed, RecomputeSkips,
       RecomputeStarts, RecomputeReads, Goto, Return, Throw
<1>2. ASSUME NEW h \in Handlers, WriteSteps(h) PROVE records' = records
  BY <1>2 DEF WriteSteps, UpsertLooksUp, UpsertFails, ApplyReads, ApplyFails, AllApplied,
       Goto, Return, Throw
<1>3. ASSUME NEW h \in Handlers, FinalizerSteps(h) PROVE records' = records
  BY <1>3 DEF FinalizerSteps, FinalizeDay, FinalizeEmployee, FinalizeEmployeeFails,
       AllFinalized, Goto, Return, Throw
<1>4. ASSUME NEW h \in Requests, Request(h) PROVE records' = records
  BY <1>4 DEF Request, RecordPunch, RecordBatchPunches, RecordDevicePunches, Correct,
       Ingest, Begin
<1>5. ASSUME NEW h \in Crons, StartFinalizer(h) PROVE records' = records
  BY <1>5 DEF StartFinalizer, Begin
<1>6. CASE DayPasses \/ Crash \/ UNCHANGED vars
  BY <1>6 DEF DayPasses, Crash, vars
<1> QED
  BY <1>1, <1>2, <1>3, <1>4, <1>5, <1>6 DEF Next, Step

\* No step turns a decision into something else on a day it does not find or
\* leave disturbed.
LEMMA DecisionsSurvive ==
    ASSUME TypeInv, DecisionInv, [Next]_vars, NEW k \in Keys,
           IsDecision(records[k]), ~IsDecision(records'[k])
    PROVE  k \in disturbed'
<1>1. PICK h \in Handlers: UpsertWrites(h)
  BY OthersKeepRecords DEF IsDecision
<1> DEFINE j == op[h].key
<1>2. /\ j \in Keys
      /\ records' = [records EXCEPT ![j] = op[h].data]
      /\ (j \notin disturbed' /\ IsDecision(records[j])) => IsDecision(op[h].data)
  BY <1>1, WriteRespectsDecisions
<1>3. k = j /\ records'[k] = op[h].data
  BY <1>2 DEF TypeInv, TypeOK, IsDecision
<1> QED
  BY <1>2, <1>3

\* Idle handlers rely on nothing.
LEMMA DecisionInvInit == Init => DecisionInv
BY DEF Init, DecisionInv, Relies, Idle, Writing, Ingesting

\* What handlers rely on of corrections holds in every reachable state.
LEMMA DecisionInvariance == Spec => []DecisionInv
<1>1. TypeInv /\ DecisionInv /\ [Next]_vars => DecisionInv'
  BY DecisionStep
<1> QED
  BY <1>1, DecisionInvInit, TypeInvariance, PTL DEF Spec

\* A correction or an approved regularization survives every punch, batch
\* and finalizer run that does not overlap with its writing: DecisionsStick.
THEOREM DecisionsStickTheorem == Spec => DecisionsStick
<1>1. TypeInv /\ DecisionInv /\ [Next]_vars =>
        [\A k \in Keys:
           (IsDecision(records[k]) /\ ~IsDecision(records'[k])) => k \in disturbed']_vars
  BY DecisionsSurvive
<1> QED
  BY <1>1, TypeInvariance, DecisionInvariance, PTL DEF Spec, DecisionsStick
=============================================================================
