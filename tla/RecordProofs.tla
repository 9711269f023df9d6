----------------------------- MODULE RecordProofs -----------------------------
(***************************************************************************)
(* What the record of a day says of the day's punches, proved for any      *)
(* employees, punches, shifts, calendars and numbers of handlers and       *)
(* crashes.                                                                *)
(*                                                                         *)
(* A handler writes what it has computed of rows that it read awaits       *)
(* before.  RecordInv says that, on a day that is not disturbed, this is   *)
(* still what the rows say, and that a day whose record or labels are      *)
(* behind its punches is owed by a handler that will come to it.           *)
(***************************************************************************)
EXTENDS AttendanceProofs

\* The punches a client reports with a type of its own.
FromClients == {e \in Punches: \E items \in DtoBatches: e \in Range(items)}

\* The record of a day without punches.
Blank(k) ==
    [checkInAt |-> Null, checkOutAt |-> Null,
     attendanceStatus |-> DerivedStatusForDay("absent", FALSE, CalendarOf[k]),
     source |-> "system"]

Recomputing == {"read"} \cup Writing

\* What the local state of a handler keeps on its own.
Local(o) ==
    /\ (o.kind \in {"punch", "batch", "device"} /\ o.pc \in {"relabel"} \cup Recomputing)
         => o.key \in o.affected
    /\ (o.kind = "punch" /\ o.todo # <<>>) => Tail(o.todo) = <<>> /\ o.affected = {}
    /\ o.kind \in {"punch", "batch"} => Range(o.todo) \subseteq FromClients
    /\ o.pc # "relabel" => o.rows = {}
    /\ \A r \in o.rows: KeyOf(r[1]) = o.key
    /\ (o.kind = "final" /\ o.pc \in Writing) => o.data = Blank(o.key)

\* What handler h has read of an undisturbed day is still so.
Sees(h) ==
    \A k \in Keys \ disturbed: op[h].key = k =>
        /\ (Ingesting(h) /\ op[h].pc \in Writing) => op[h].data = Recomputed(k)
        /\ op[h].pc = "relabel" => op[h].rows = WrongLabels(k)
        /\ op[h].pc = "write" => (op[h].exists <=> records[k] # Null)

Matches(k) ==
    IF records[k] = Null THEN Stored(k) = {} ELSE records[k] = Recomputed(k)

\* The record of day k is right, or a handler will recompute it.
Accounted(k) ==
    IsDecision(records[k]) \/ Matches(k) \/ \E h \in Handlers: k \in Owed(h)

\* Handler h has yet to look at the labels of day k, or to correct them.
Relabels(h, k) ==
    /\ op[h].kind = "device" /\ k \in op[h].affected
    /\ ~(op[h].key = k /\ op[h].pc \in Recomputing)

\* No client gave a biometric punch of day k its type.
Plain(k) == \A e \in Stored(k): e.source = "biometric" => e \notin FromClients

\* The labels of day k are right, or a handler will correct them.
Labelled(k) == Plain(k) => WrongLabels(k) = {} \/ \E h \in Handlers: Relabels(h, k)

RecordInv ==
    /\ \A h \in Handlers: Local(op[h]) /\ Sees(h)
    /\ \A k \in Keys \ disturbed: Accounted(k) /\ Labelled(k)

-----------------------------------------------------------------------------
(* What a day's punches determine.                                         *)

\* A day is recomputed and relabelled from its own punches alone.
LEMMA SameDay ==
    ASSUME NEW k, \A e \in Punches: KeyOf(e) = k => punches'[e] = punches[e]
    PROVE  /\ Stored(k)' = Stored(k) /\ Recomputed(k)' = Recomputed(k)
           /\ WrongLabels(k)' = WrongLabels(k)
<1>1. Stored(k)' = Stored(k)
  BY DEF Stored
<1>2. \A e \in Stored(k): punches'[e] = punches[e]
  BY DEF Stored
<1>3. Recomputed(k)' = Recomputed(k)
  <2> DEFINE effective == DedupeClosePunches(Stored(k), Debounce)
  <2>1. effective \subseteq Stored(k)
    BY DedupeSubset
  <2>2. effective' = effective
    BY <1>1
  <2>3. /\ {e \in effective: punches'[e] = "in"} = {e \in effective: punches[e] = "in"}
        /\ {e \in effective: punches'[e] = "out"} = {e \in effective: punches[e] = "out"}
    BY <1>2, <2>1
  <2> QED
    BY <2>2, <2>3 DEF Recomputed
<1>4. WrongLabels(k)' = WrongLabels(k)
  <2> DEFINE biometric == {e \in Stored(k): e.source = "biometric"}
  <2>1. biometric' = biometric
    BY <1>1
  <2>2. {f \in biometric: punches'[f] # OrderLabel(f, biometric)}
          = {f \in biometric: punches[f] # OrderLabel(f, biometric)}
    BY <1>2
  <2> QED
    BY <2>1, <2>2 DEF WrongLabels
<1> QED
  BY <1>1, <1>3, <1>4

\* A day without punches is recomputed as the finalizer would fill it in.
LEMMA BlankIsRecomputed ==
    ASSUME NEW k \in Keys, Stored(k) = {}
    PROVE  Recomputed(k) = Blank(k)
<1>1. DedupeClosePunches(Stored(k), Debounce) = {}
  BY DedupeSubset
<1>2. ComputeMetrics(Null, Null, ShiftOf[k]).derivedStatus = "absent"
  BY DEF ComputeMetrics, BaseStatus
<1> QED
  BY <1>1, <1>2 DEF Recomputed, Blank, FirstPunchAt, LastPunchAt

\* The finalizer's record of a day is that of a day without punches.
LEMMA BlankIsApplied ==
    ASSUME NEW k \in Keys
    PROVE  Applied(k, Undefined, Null, Null, "system") = Blank(k)
<1>1. Null # Undefined
  BY AttendanceAssumption DEF Instant
<1>2. KeptOr(Null, k, "checkInAt") = Null /\ KeptOr(Null, k, "checkOutAt") = Null
  BY <1>1 DEF KeptOr
<1>3. ComputeMetrics(Null, Null, ShiftOf[k]).derivedStatus = "absent"
  BY DEF ComputeMetrics, BaseStatus
<1> QED
  BY <1>2, <1>3 DEF Applied, Blank

-----------------------------------------------------------------------------
(* Steps that write neither table.                                         *)

\* A handler that writes nothing leaves the others what they have read, and
\* every day what it owes, but for the days it is done with.
LEMMA ReadingStep ==
    ASSUME TypeInv, RecordInv, NEW h \in Handlers, NEW s, op' = [op EXCEPT ![h] = s],
           UNCHANGED <<punches, records>>, disturbed \subseteq disturbed',
           Local(s), Sees(h)',
           \A k \in Keys \ disturbed':
             k \in Owed(h) => k \in Owed(h)' \/ Matches(k) \/ IsDecision(records[k]),
           \A k \in Keys \ disturbed':
             Relabels(h, k) => Relabels(h, k)' \/ WrongLabels(k) = {}
    PROVE  RecordInv'
<1>1. op'[h] = s /\ \A g \in Handlers \ {h}: op'[g] = op[g]
  BY DEF TypeInv, TypeOK
<1>2. \A k: /\ Stored(k)' = Stored(k) /\ Recomputed(k)' = Recomputed(k)
            /\ WrongLabels(k)' = WrongLabels(k)
  <2> TAKE k
  <2> QED
    BY SameDay
<1>3. ASSUME NEW g \in Handlers PROVE Local(op'[g]) /\ Sees(g)'
  <2>1. CASE g = h
    BY <1>1, <2>1
  <2>2. CASE g # h
    <3>1. op'[g] = op[g] /\ Local(op[g]) /\ Sees(g)
      BY <1>1, <2>2 DEF RecordInv
    <3> QED
      BY <1>2, <3>1 DEF Sees, Ingesting
  <2> QED
    BY <2>1, <2>2
<1>4. ASSUME NEW k \in Keys \ disturbed' PROVE Accounted(k)' /\ Labelled(k)'
  <2>0. Accounted(k) /\ Labelled(k)
    BY DEF RecordInv
  <2>1. \A g \in Handlers \ {h}: Owed(g)' = Owed(g) /\ Relabels(g, k)' = Relabels(g, k)
    BY <1>1 DEF Owed, Ingesting, Relabels
  <2>2. Matches(k)' = Matches(k) /\ IsDecision(records[k])' = IsDecision(records[k])
    BY <1>2 DEF Matches, IsDecision
  <2>3. Plain(k)' = Plain(k)
    BY <1>2 DEF Plain
  <2>4. Accounted(k)'
    BY <2>0, <2>1, <2>2 DEF Accounted
  <2>5. Labelled(k)'
    BY <1>2, <2>0, <2>1, <2>3 DEF Labelled
  <2> QED
    BY <2>4, <2>5
<1> QED
  BY <1>3, <1>4 DEF RecordInv

\* A handler without a day in hands has read nothing it relies on.
LEMMA ApartSees ==
    ASSUME NEW h, op'[h].pc \notin {"relabel"} \cup Writing
    PROVE  Sees(h)'
BY DEF Sees, Writing

\* A handler that returns owes nothing, one that throws disturbs what it owes.
LEMMA LeaveKeepsRecords ==
    ASSUME TypeInv, RecordInv, NEW h \in Handlers,
           \/ Throw(h)
           \/ Return(h) /\ Owed(h) = {}
    PROVE  RecordInv'
<1>1. /\ op' = [op EXCEPT ![h] = Idle] /\ op'[h] = Idle
      /\ UNCHANGED <<punches, records>> /\ disturbed \subseteq disturbed'
      /\ \A k \in Owed(h): k \in disturbed'
  BY DEF Return, Throw, Leave, TypeInv, TypeOK
<1>2. Local(Idle)
  BY DEF Idle, Local, Writing, Recomputing
<1>3. Sees(h)'
  BY <1>1, ApartSees DEF Idle, Writing
<1>4. \A k: Relabels(h, k) => k \in Owed(h)
  BY DEF Relabels, Owed, Ingesting
<1> QED
  BY <1>1, <1>2, <1>3, <1>4, ReadingStep

\* A handler that starts has read nothing and owes nothing.
LEMMA BeginKeepsRecords ==
    ASSUME TypeInv, RecordInv, NEW h \in Handlers, NEW s, Begin(h, s), Local(s),
           s.pc \notin {"relabel"} \cup Writing
    PROVE  RecordInv'
<1>1. /\ op' = [op EXCEPT ![h] = s] /\ op'[h] = s /\ op[h].kind = "idle"
      /\ UNCHANGED <<punches, records, disturbed>>
  BY DEF Begin, TypeInv, TypeOK
<1>2. Sees(h)'
  BY <1>1, ApartSees
<1>3. Owed(h) = {} /\ \A k: ~Relabels(h, k)
  BY <1>1 DEF Owed, Ingesting, Relabels
<1> QED
  BY <1>1, <1>2, <1>3, ReadingStep

\* The requests and the cron job.
LEMMA StartKeepsRecords ==
    ASSUME TypeInv, RecordInv,
           \/ \E h \in Requests: Request(h)
           \/ \E h \in Crons: StartFinalizer(h)
    PROVE  RecordInv'
<1>1. ASSUME NEW h \in Handlers, NEW kind, NEW items \in Seq(Punches),
             kind \in {"punch", "batch"} => items \in DtoBatches,
             kind = "punch" => Len(items) = 1,
             kind \in {"punch", "batch", "device"}, Ingest(h, kind, items)
      PROVE  RecordInv'
  <2> DEFINE s == [Idle EXCEPT !.kind = kind, !.pc = "items", !.todo = items]
  <2>1. /\ s.kind = kind /\ s.pc = "items" /\ s.todo = items
        /\ s.affected = {} /\ s.rows = {}
    BY DEF Idle
  <2>2. kind \in {"punch", "batch"} => Range(items) \subseteq FromClients
    BY <1>1 DEF FromClients, Range
  <2>3. (kind = "punch" /\ items # <<>>) => Tail(items) = <<>>
    <3>1. items # <<>> => Tail(items) \in Seq(Punches) /\ Len(Tail(items)) = Len(items) - 1
      OBVIOUS
    <3>2. (Len(items) = 1 /\ items # <<>>) => Len(Tail(items)) = 0
      BY <3>1
    <3> QED
      BY <1>1, <3>1, <3>2, EmptySeq
  <2>4. Begin(h, s)
    BY <1>1 DEF Ingest
  <2> HIDE DEF s
  <2>5. Local(s)
    BY <1>1, <2>1, <2>2, <2>3 DEF Local, Writing, Recomputing
  <2> QED
    BY <2>1, <2>4, <2>5, BeginKeepsRecords DEF Writing
<1>2. ASSUME NEW h \in Handlers, Correct(h) PROVE RecordInv'
  <2>1. PICK changes:
          Begin(h, [Idle EXCEPT !.kind = "apply", !.pc = "apply", !.changes = changes])
    BY <1>2 DEF Correct
  <2> DEFINE s == [Idle EXCEPT !.kind = "apply", !.pc = "apply", !.changes = changes]
  <2>2. s.kind = "apply" /\ s.pc = "apply" /\ s.rows = {}
    BY DEF Idle
  <2>3. Begin(h, s)
    BY <2>1
  <2> HIDE DEF s
  <2>4. Local(s)
    BY <2>2 DEF Local, Writing, Recomputing
  <2> QED
    BY <2>2, <2>3, <2>4, BeginKeepsRecords DEF Writing
<1>3. ASSUME NEW h \in Handlers, StartFinalizer(h) PROVE RecordInv'
  <2> DEFINE s == [Idle EXCEPT !.kind = "final", !.pc = "days", !.days = RecentDays]
  <2>1. s.kind = "final" /\ s.pc = "days" /\ s.rows = {}
    BY DEF Idle
  <2>2. Begin(h, s)
    BY <1>3 DEF StartFinalizer
  <2> HIDE DEF s
  <2>3. Local(s)
    BY <2>1 DEF Local, Writing, Recomputing
  <2> QED
    BY <2>1, <2>2, <2>3, BeginKeepsRecords DEF Writing
<1>4. ASSUME NEW h \in Handlers, RecordPunch(h) \/ RecordBatchPunches(h) \/ RecordDevicePunches(h)
      PROVE  RecordInv'
  BY <1>1, <1>4, AttendanceAssumption DEF RecordPunch, RecordBatchPunches, RecordDevicePunches
<1> QED
  BY <1>2, <1>3, <1>4 DEF Request, Handlers

-----------------------------------------------------------------------------
(* Punches one by one.                                                     *)

\* The items of a request that are still to come are items of the request.
LEMMA RangeOfTail ==
    ASSUME NEW items \in Seq(Punches), items # <<>>
    PROVE  Head(items) \in Range(items) /\ Range(Tail(items)) \subseteq Range(items)
<1>1. /\ Tail(items) \in Seq(Punches) /\ Len(Tail(items)) = Len(items) - 1
      /\ \A i \in 1..Len(Tail(items)): Tail(items)[i] = items[i + 1]
  BY HeadTailProperties
<1>2. Len(items) \in Nat \ {0}
  BY EmptySeq
<1>3. Head(items) = items[1] /\ 1 \in DOMAIN items
  BY <1>2
<1>4. ASSUME NEW i \in DOMAIN Tail(items) PROVE Tail(items)[i] \in Range(items)
  <2>1. i \in 1..Len(Tail(items)) /\ i + 1 \in DOMAIN items
    BY <1>1, <1>2, <1>4
  <2> QED
    BY <1>1, <2>1 DEF Range
<1> QED
  BY <1>3, <1>4 DEF Range

\* A handler that goes on among its items keeps what its local state keeps.
LEMMA ItemLocal ==
    ASSUME TypeInv, RecordInv, NEW h \in Handlers, NEW s,
           op[h].pc \in {"items", "insert"}, op[h].todo # <<>>,
           s.kind = op[h].kind, s.pc \in {"items", "insert"}, s.rows = op[h].rows,
           \/ s.todo = op[h].todo /\ s.affected = op[h].affected
           \/ s.todo = Tail(op[h].todo)
    PROVE  Local(s)
<1> DEFINE o == op[h]
<1>1. o \in Ops /\ OpSound(o) /\ Local(o)
  BY DEF TypeInv, TypeOK, RecordInv
<1>2. Range(Tail(o.todo)) \subseteq Range(o.todo)
  BY <1>1, RangeOfTail DEF Ops
<1>3. s.kind = "punch" /\ s.todo # <<>> => s.affected = {} /\ Tail(s.todo) = <<>>
  BY <1>1 DEF Local
<1>4. s.kind \in {"punch", "batch"} => Range(s.todo) \subseteq FromClients
  BY <1>1, <1>2 DEF Local
<1>5. s.rows = {} /\ s.kind # "final"
  BY <1>1 DEF Local, OpSound
<1> QED
  BY <1>3, <1>4, <1>5 DEF Local, Writing, Recomputing

\* What a handler past its item is.
LEMMA PastItemFields ==
    ASSUME TypeInv, NEW h \in Handlers
    PROVE  LET s == PastItem(h)
           IN  /\ s.kind = op[h].kind /\ s.pc = "items" /\ s.todo = Tail(op[h].todo)
               /\ s.affected = op[h].affected /\ s.rows = op[h].rows
               /\ \A ks: LET t == [s EXCEPT !.affected = ks]
                         IN  /\ t.kind = op[h].kind /\ t.pc = "items"
                             /\ t.todo = Tail(op[h].todo)
                             /\ t.affected = ks /\ t.rows = op[h].rows
<1>1. op[h] \in Ops
  BY DEF TypeInv, TypeOK
<1> QED
  BY <1>1 DEF PastItem, Ops

\* Items that store nothing.
LEMMA ItemKeepsRecords ==
    ASSUME TypeInv, RecordInv, NEW h \in Handlers,
           \/ SkipPunch(h) \/ RejectPunch(h) \/ DuplicatePunch(h) \/ NewPunch(h)
           \/ InsertPunchFails(h)
    PROVE  RecordInv'
<1> DEFINE o == op[h]
<1>1. o \in Ops /\ OpSound(o) /\ Local(o) /\ op \in [Handlers -> Ops]
  BY DEF TypeInv, TypeOK, RecordInv
<1>2. ASSUME NEW s, Goto(h, s), o.pc \in {"items", "insert"}, o.todo # <<>>,
             s.kind = o.kind, s.pc \in {"items", "insert"}, s.rows = o.rows,
             \/ s.todo = o.todo /\ s.affected = o.affected
             \/ s.todo = Tail(o.todo),
             o.affected \subseteq s.affected
      PROVE  RecordInv'
  <2>1. /\ op' = [op EXCEPT ![h] = s] /\ op'[h] = s
        /\ UNCHANGED <<punches, records, disturbed>>
    BY <1>1, <1>2 DEF Goto
  <2>2. Local(s)
    BY <1>2, ItemLocal
  <2>3. Sees(h)'
    BY <1>2, <2>1, ApartSees DEF Writing
  <2>4. \A k: k \in Owed(h) => k \in Owed(h)'
    BY <1>2, <2>1 DEF Owed, Ingesting
  <2>5. \A k: Relabels(h, k) => Relabels(h, k)'
    BY <1>2, <2>1 DEF Relabels, Recomputing, Writing
  <2> QED
    BY <2>1, <2>2, <2>3, <2>4, <2>5, ReadingStep
<1>3. CASE RejectPunch(h) \/ InsertPunchFails(h)
  BY <1>3, LeaveKeepsRecords DEF RejectPunch, InsertPunchFails
<1>4. CASE SkipPunch(h)
  <2> DEFINE s == [o EXCEPT !.todo = Tail(o.todo)]
  <2>1. /\ s.kind = o.kind /\ s.pc = o.pc /\ s.todo = Tail(o.todo)
        /\ s.affected = o.affected /\ s.rows = o.rows
    BY <1>1 DEF Ops
  <2>2. Goto(h, s) \/ Goto(h, PastItem(h))
    BY <1>4 DEF SkipPunch
  <2>3. o.pc = "items" /\ o.todo # <<>>
    BY <1>4 DEF SkipPunch, AtItem
  <2> HIDE DEF s
  <2> QED
    BY <1>2, <2>1, <2>2, <2>3, PastItemFields
<1>5. CASE DuplicatePunch(h)
  <2> DEFINE ks == IF o.kind = "punch" THEN {KeyOf(Head(o.todo))} ELSE o.affected
             s == [PastItem(h) EXCEPT !.affected = ks]
  <2>1. o.pc = "items" /\ o.todo # <<>>
    BY <1>5 DEF DuplicatePunch, AtItem
  <2>2. Goto(h, s)
    BY <1>5, PastItemFields DEF DuplicatePunch
  <2>3. o.affected \subseteq ks
    BY <1>1, <2>1 DEF Local
  <2>4. /\ s.kind = o.kind /\ s.pc = "items" /\ s.todo = Tail(o.todo)
        /\ s.affected = ks /\ s.rows = o.rows
    BY PastItemFields
  <2> HIDE DEF s, ks
  <2> QED
    BY <1>2, <2>1, <2>2, <2>3, <2>4
<1>6. CASE NewPunch(h)
  <2> DEFINE s == [o EXCEPT !.pc = "insert"]
  <2>1. /\ s.kind = o.kind /\ s.pc = "insert" /\ s.todo = o.todo
        /\ s.affected = o.affected /\ s.rows = o.rows
    BY <1>1 DEF Ops
  <2>2. Goto(h, s) /\ o.pc = "items" /\ o.todo # <<>>
    BY <1>6 DEF NewPunch, AtItem
  <2> HIDE DEF s
  <2> QED
    BY <1>2, <2>1, <2>2
<1> QED
  BY <1>3, <1>4, <1>5, <1>6

-----------------------------------------------------------------------------
(* Steps that write the punch table.                                       *)

\* The write of a punch of day k disturbs the day for all who have read it,
\* and leaves the other days as they are.
LEMMA PunchWriteStep ==
    ASSUME TypeInv, RecordInv, NEW h \in Handlers, NEW k \in Keys, NEW s,
           op' = [op EXCEPT ![h] = s], records' = records, Writes(h, k),
           \A e \in Punches: KeyOf(e) # k => punches'[e] = punches[e],
           Local(s), Sees(h)',
           k \in Owed(h)', Owed(h) \subseteq Owed(h)',
           \A j \in Keys \ {k}: Relabels(h, j) => Relabels(h, j)',
           k \notin disturbed' => Labelled(k)'
    PROVE  RecordInv'
<1>1. op'[h] = s /\ \A g \in Handlers \ {h}: op'[g] = op[g]
  BY DEF TypeInv, TypeOK
<1>2. /\ disturbed \subseteq disturbed'
      /\ k \notin disturbed' => \A g \in Handlers \ {h}: k \notin Engaged(g)
  BY DEF Writes
<1>3. ASSUME NEW j \in Keys \ {k}
      PROVE  /\ Stored(j)' = Stored(j) /\ Recomputed(j)' = Recomputed(j)
             /\ WrongLabels(j)' = WrongLabels(j)
  BY SameDay
<1>4. ASSUME NEW g \in Handlers, g # h PROVE Local(op'[g]) /\ Sees(g)'
  <2>1. op'[g] = op[g] /\ Local(op[g]) /\ Sees(g)
    BY <1>1, <1>4 DEF RecordInv
  <2> SUFFICES ASSUME NEW j \in Keys \ disturbed', op'[g].key = j
               PROVE  /\ (Ingesting(g)' /\ op'[g].pc \in Writing) => op'[g].data = Recomputed(j)'
                      /\ op'[g].pc = "relabel" => op'[g].rows = WrongLabels(j)'
                      /\ op'[g].pc = "write" => (op'[g].exists <=> records'[j] # Null)
    BY <2>1 DEF Sees
  <2>2. CASE j # k
    <3>1. Recomputed(j)' = Recomputed(j) /\ WrongLabels(j)' = WrongLabels(j)
      BY <1>3, <2>2
    <3> QED
      BY <1>2, <2>1, <3>1 DEF Sees, Ingesting
  <2>3. CASE j = k
    <3>1. k \notin Engaged(g) /\ k # Null
      BY <1>2, <1>4, <2>3, AttendanceAssumption
    <3>2. op[g].kind = "final"
      BY <2>1, <2>3, <3>1 DEF Engaged
    <3>3. op[g].pc # "relabel" /\ ~Ingesting(g)'
      BY <2>1, <3>2 DEF TypeInv, OpSound, Ingesting
    <3> QED
      BY <1>2, <2>1, <3>3 DEF Sees
  <2> QED
    BY <2>2, <2>3
<1>5. ASSUME NEW j \in Keys \ disturbed' PROVE Accounted(j)' /\ Labelled(j)'
  <2>0. Accounted(j) /\ Labelled(j)
    BY <1>2 DEF RecordInv
  <2>1. CASE j = k
    BY <2>1 DEF Accounted
  <2>2. CASE j # k
    <3>1. \A g \in Handlers \ {h}: Owed(g)' = Owed(g) /\ Relabels(g, j)' = Relabels(g, j)
      BY <1>1 DEF Owed, Ingesting, Relabels
    <3>2. /\ Stored(j)' = Stored(j) /\ Recomputed(j)' = Recomputed(j)
          /\ WrongLabels(j)' = WrongLabels(j)
      BY <1>3, <2>2
    <3>3. Matches(j)' = Matches(j) /\ IsDecision(records[j])' = IsDecision(records[j])
      BY <3>2 DEF Matches, IsDecision
    <3>4. Plain(j)' = Plain(j)
      BY <3>2 DEF Plain
    <3>5. Accounted(j)'
      BY <2>0, <3>1, <3>3 DEF Accounted
    <3>6. Labelled(j)'
      BY <2>0, <2>2, <3>1, <3>2, <3>4 DEF Labelled
    <3> QED
      BY <3>5, <3>6
  <2> QED
    BY <2>1, <2>2
<1> QED
  BY <1>1, <1>4, <1>5 DEF RecordInv

\* A punch that is no biometric one leaves the labels of its day alone.
LEMMA OtherSourcesKeepLabels ==
    ASSUME NEW k, NEW e \in Punches, KeyOf(e) = k, e.source # "biometric",
           punches' \in [Punches -> PunchTypes \cup {Null}],
           \A f \in Punches \ {e}: punches'[f] = punches[f],
           punches'[e] # Null
    PROVE  /\ WrongLabels(k)' = WrongLabels(k)
           /\ Plain(k)' => Plain(k)
<1> DEFINE biometric == {f \in Stored(k): f.source = "biometric"}
<1>1. \A f \in Punches \ {e}: f \in Stored(k)' <=> f \in Stored(k)
  BY DEF Stored
<1>2. biometric' = biometric /\ e \notin biometric /\ biometric \subseteq Punches
  BY <1>1 DEF Stored
<1>3. {f \in biometric: punches'[f] # OrderLabel(f, biometric)}
        = {f \in biometric: punches[f] # OrderLabel(f, biometric)}
  BY <1>2
<1>4. WrongLabels(k)' = WrongLabels(k)
  BY <1>2, <1>3 DEF WrongLabels
<1>5. Plain(k)' => Plain(k)
  BY <1>1 DEF Plain, Stored
<1> QED
  BY <1>4, <1>5

\* The insert of savePunch: its handler owes the day from now on, and will
\* relabel it if it is a device's.
LEMMA InsertKeepsRecords ==
    ASSUME TypeInv, RecordInv, NEW h \in Handlers, InsertPunch(h)
    PROVE  RecordInv'
<1> DEFINE o == op[h]
<1>1. o \in Ops /\ OpSound(o) /\ Local(o) /\ op \in [Handlers -> Ops] /\ o.pc = "insert"
  BY DEF TypeInv, TypeOK, RecordInv, InsertPunch
<1>2. o.todo # <<>> /\ o.kind \in {"punch", "batch", "device"}
  BY <1>1 DEF OpSound
<1>0. Head(o.todo) \in Punches /\ KeyOf(Head(o.todo)) \in Keys
  BY InsertStores, KeyOfPunch DEF InsertPunch, TypeInv, TypeOK
<1>e. PICK e \in Punches: e = Head(o.todo)
  BY <1>0
<1>k. PICK k \in Keys: k = KeyOf(e)
  BY <1>0, <1>e
<1>s. PICK s: s = [PastItem(h) EXCEPT !.affected = @ \cup {k}]
  OBVIOUS
<1>3. /\ punches' \in [Punches -> PunchTypes \cup {Null}] /\ punches'[e] # Null
      /\ \A f \in Punches \ {e}: punches'[f] = punches[f]
  <2>1. /\ punches' \in [Punches -> PunchTypes \cup {Null}]
        /\ \A f \in Punches: punches'[f] # Null <=> (punches[f] # Null \/ f = e)
    BY <1>e, InsertStores
  <2>2. punches' = [punches EXCEPT ![e] = IF o.kind = "device" THEN "in" ELSE e.punchType]
    BY <1>e DEF InsertPunch
  <2>3. \A f \in Punches \ {e}: punches'[f] = punches[f]
    BY <2>2 DEF TypeInv, TypeOK
  <2> QED
    BY <2>1, <2>3
<1>4. op' = [op EXCEPT ![h] = s] /\ records' = records /\ Writes(h, k)
  BY <1>e, <1>k, <1>s DEF InsertPunch
<1>5. s = [PastItem(h) EXCEPT !.affected = o.affected \cup {k}]
  BY <1>s, PastItemFields
<1>6. /\ s.kind = o.kind /\ s.pc = "items" /\ s.todo = Tail(o.todo)
      /\ s.affected = o.affected \cup {k} /\ s.rows = o.rows
  BY <1>5, PastItemFields
<1>7. op'[h] = s
  BY <1>1, <1>4
<1>8. Local(s)
  BY <1>1, <1>2, <1>6, ItemLocal
<1>9. Sees(h)'
  BY <1>6, <1>7, ApartSees DEF Writing
<1>10. k \in Owed(h)' /\ Owed(h) \subseteq Owed(h)'
  BY <1>2, <1>6, <1>7 DEF Owed, Ingesting
<1>11. \A j \in Keys \ {k}: Relabels(h, j) => Relabels(h, j)'
  BY <1>6, <1>7 DEF Relabels, Recomputing, Writing
<1>12. ASSUME k \notin disturbed' PROVE Labelled(k)'
  <2>1. CASE o.kind = "device"
    <3>1. Relabels(h, k)'
      BY <1>6, <1>7, <2>1 DEF Relabels, Recomputing, Writing
    <3> QED
      BY <3>1 DEF Labelled
  <2>2. CASE o.kind \in {"punch", "batch"}
    <3>1. e \in FromClients
      BY <1>1, <1>2, <1>e, <2>2, RangeOfTail DEF Local, Ops
    <3>2. e \in Stored(k)'
      BY <1>3, <1>k DEF Stored
    <3>3. CASE e.source = "biometric"
      BY <3>1, <3>2, <3>3 DEF Labelled, Plain
    <3>4. CASE e.source # "biometric"
      <4>1. WrongLabels(k)' = WrongLabels(k) /\ (Plain(k)' => Plain(k))
        BY <1>3, <1>k, <3>4, OtherSourcesKeepLabels
      <4>2. Labelled(k)
        BY <1>3, <1>4, <1>12 DEF RecordInv, Writes
      <4>3. \A g \in Handlers: Relabels(g, k) => Relabels(g, k)'
        <5> SUFFICES ASSUME NEW g \in Handlers, Relabels(g, k) PROVE Relabels(g, k)'
          OBVIOUS
        <5>1. g # h
          BY <2>2 DEF Relabels
        <5>2. op'[g] = op[g]
          BY <1>1, <1>4, <5>1
        <5> QED
          BY <5>2 DEF Relabels
      <4> QED
        BY <4>1, <4>2, <4>3 DEF Labelled
    <3> QED
      BY <3>3, <3>4
  <2> QED
    BY <1>2, <2>1, <2>2
<1>13. \A f \in Punches: KeyOf(f) # k => punches'[f] = punches[f]
  BY <1>3, <1>k
<1> QED
  BY <1>3, <1>4, <1>8, <1>9, <1>10, <1>11, <1>12, <1>13, PunchWriteStep

-----------------------------------------------------------------------------
(* relabelDevicePunchesByOrder.                                            *)

\* The labels to correct on a day are of its own punches, and correcting one
\* of them leaves the others.
LEMMA WrongLabelsOfDay ==
    ASSUME NEW k
    PROVE  \A r \in WrongLabels(k): KeyOf(r[1]) = k
<1> DEFINE biometric == {e \in Stored(k): e.source = "biometric"}
<1>1. \A e \in biometric: KeyOf(e) = k
  BY DEF Stored
<1>2. ASSUME NEW r \in WrongLabels(k)
      PROVE  \E e \in biometric: r = <<e, OrderLabel(e, biometric)>>
  BY DEF WrongLabels
<1> HIDE DEF biometric
<1> QED
  BY <1>1, <1>2

LEMMA CorrectedLabel ==
    ASSUME TypeInv, NEW k, NEW r \in WrongLabels(k), punches' = [punches EXCEPT ![r[1]] = r[2]]
    PROVE  WrongLabels(k)' = WrongLabels(k) \ {r}
<1>b. PICK biometric: biometric = {e \in Stored(k): e.source = "biometric"}
  OBVIOUS
<1> DEFINE L(e) == OrderLabel(e, biometric)
<1>0. WrongLabels(k) = {<<e, L(e)>>: e \in {f \in biometric: punches[f] # L(f)}}
  BY <1>b DEF WrongLabels
<1>1. PICK e \in biometric: r = <<e, L(e)>> /\ punches[e] # L(e)
  BY <1>0
<1>2. /\ e \in Punches /\ punches[e] # Null /\ L(e) # Null
      /\ punches \in [Punches -> PunchTypes \cup {Null}]
  BY <1>1, <1>b, AttendanceAssumption DEF Stored, OrderLabel, PunchTypes, TypeInv, TypeOK
<1>3. punches'[e] = L(e) /\ \A f \in Punches \ {e}: punches'[f] = punches[f]
  BY <1>1, <1>2
<1>4. Stored(k)' = Stored(k) /\ biometric \subseteq Punches
  BY <1>2, <1>3, <1>b DEF Stored
<1>5. WrongLabels(k)' = {<<f, L(f)>>: f \in {g \in biometric: punches'[g] # L(g)}}
  BY <1>4, <1>b DEF WrongLabels
<1>6. {g \in biometric: punches'[g] # L(g)} = {g \in biometric: punches[g] # L(g)} \ {e}
  BY <1>3, <1>4
<1> HIDE DEF L
<1> QED
  BY <1>0, <1>1, <1>5, <1>6

\* A device's handler goes through the labels that are wrong.
LEMMA RelabelKeepsRecords ==
    ASSUME TypeInv, RecordInv, NEW h \in Handlers, RelabelDay(h) \/ RelabelRow(h)
    PROVE  RecordInv'
<1> DEFINE o == op[h]
<1>1. o \in Ops /\ OpSound(o) /\ Local(o) /\ op \in [Handlers -> Ops]
  BY DEF TypeInv, TypeOK, RecordInv
<1>2. ASSUME RelabelDay(h) PROVE RecordInv'
  <2>1. PICK k \in o.affected:
          Goto(h, [o EXCEPT !.pc = "relabel", !.key = k, !.rows = WrongLabels(k)])
    BY <1>2 DEF RelabelDay
  <2>s. PICK s: s = [o EXCEPT !.pc = "relabel", !.key = k, !.rows = WrongLabels(k)]
    OBVIOUS
  <2>2. o.pc = "items" /\ o.kind = "device" /\ o.todo = <<>>
    BY <1>2 DEF RelabelDay, AtKeys
  <2>3. /\ s.kind = "device" /\ s.pc = "relabel" /\ s.key = k /\ s.rows = WrongLabels(k)
        /\ s.affected = o.affected /\ s.todo = <<>>
    BY <1>1, <2>2, <2>s DEF Ops
  <2>4. op' = [op EXCEPT ![h] = s] /\ op'[h] = s /\ UNCHANGED <<punches, records, disturbed>>
    BY <1>1, <2>1, <2>s DEF Goto
  <2>5. Local(s)
    BY <2>3, WrongLabelsOfDay DEF Local, Writing
  <2>6. Sees(h)'
    <3>1. WrongLabels(k)' = WrongLabels(k)
      BY <2>4, SameDay
    <3> QED
      BY <2>3, <2>4, <3>1 DEF Sees, Writing
  <2>7. \A j: j \in Owed(h) => j \in Owed(h)'
    BY <2>2, <2>3, <2>4 DEF Owed, Ingesting
  <2>8. \A j: Relabels(h, j) => Relabels(h, j)'
    BY <2>2, <2>3, <2>4 DEF Relabels, Recomputing, Writing
  <2> QED
    BY <2>4, <2>5, <2>6, <2>7, <2>8, ReadingStep
<1>3. ASSUME RelabelRow(h) PROVE RecordInv'
  <2>1. PICK r \in o.rows: /\ punches' = [punches EXCEPT ![r[1]] = r[2]]
                           /\ op' = [op EXCEPT ![h].rows = @ \ {r}]
    BY <1>3 DEF RelabelRow
  <2>k. PICK k: k = o.key
    OBVIOUS
  <2>s. PICK s: s = [o EXCEPT !.rows = o.rows \ {r}]
    OBVIOUS
  <2>2. o.pc = "relabel" /\ records' = records /\ Writes(h, k)
    BY <1>3, <2>k DEF RelabelRow
  <2>3. o.kind = "device" /\ k \in Keys /\ k \in o.affected /\ KeyOf(r[1]) = k
    BY <1>1, <2>2, <2>k DEF OpSound, Local
  <2>4. /\ s.kind = "device" /\ s.pc = "relabel" /\ s.key = k /\ s.rows = o.rows \ {r}
        /\ s.affected = o.affected
    BY <1>1, <2>2, <2>3, <2>k, <2>s DEF Ops
  <2>5. op' = [op EXCEPT ![h] = s] /\ op'[h] = s
    BY <1>1, <2>1, <2>s
  <2>6. Local(s)
    BY <1>1, <2>3, <2>4, <2>k DEF Local, Writing
  <2>7. Sees(h)'
    <3>1. ASSUME k \notin disturbed' PROVE s.rows = WrongLabels(k)'
      <4>1. o.rows = WrongLabels(k)
        BY <2>2, <2>3, <2>k, <3>1 DEF RecordInv, Sees, Writes
      <4>2. r \in WrongLabels(k) /\ punches' = [punches EXCEPT ![r[1]] = r[2]]
        BY <2>1, <4>1
      <4>3. WrongLabels(k)' = WrongLabels(k) \ {r}
        BY <4>2, CorrectedLabel
      <4> QED
        BY <2>4, <4>1, <4>3
    <3> QED
      BY <2>4, <2>5, <3>1 DEF Sees, Writing
  <2>8. k \in Owed(h)' /\ Owed(h) \subseteq Owed(h)'
    BY <2>3, <2>4, <2>5 DEF Owed, Ingesting
  <2>9. \A j \in Keys: Relabels(h, j) => Relabels(h, j)'
    BY <2>3, <2>4, <2>5 DEF Relabels, Recomputing, Writing
  <2>10. Labelled(k)'
    BY <2>3, <2>4, <2>5 DEF Labelled, Relabels, Recomputing, Writing
  <2>11. \A e \in Punches: KeyOf(e) # k => punches'[e] = punches[e]
    BY <2>1, <2>3 DEF TypeInv, TypeOK
  <2> QED
    BY <2>2, <2>3, <2>5, <2>6, <2>7, <2>8, <2>9, <2>10, <2>11, PunchWriteStep
<1> QED
  BY <1>2, <1>3

-----------------------------------------------------------------------------
(* recomputeRecord up to its write, upsert's lookup, applyRecord's read.   *)

\* What a handler that is done with a day is.
LEMMA DoneFields ==
    ASSUME TypeInv, NEW h \in Handlers, NEW k, op[h].kind # "apply"
    PROVE  LET s == DoneWith(h, k)
           IN  /\ s.kind = op[h].kind /\ s.pc = IF op[h].kind = "final" THEN "days" ELSE "items"
               /\ s.affected = op[h].affected \ {k} /\ s.todo = op[h].todo
               /\ s.rows = op[h].rows
<1>1. op[h] \in Ops
  BY DEF TypeInv, TypeOK
<1> QED
  BY <1>1 DEF DoneWith, Ops

\* A handler done with a day has nothing in hands.
LEMMA DoneLocal ==
    ASSUME TypeInv, NEW h \in Handlers, NEW k, Local(op[h]), op[h].kind # "idle",
           op[h].rows = {}
    PROVE  Local(DoneWith(h, k)) /\ DoneWith(h, k).pc \notin {"relabel"} \cup Recomputing
<1> DEFINE o == op[h]
<1>1. o \in Ops
  BY DEF TypeInv, TypeOK
<1>2. CASE o.kind = "apply"
  <2>1. /\ DoneWith(h, k).kind = "apply" /\ DoneWith(h, k).pc = "apply"
        /\ DoneWith(h, k).rows = {}
    BY <1>1, <1>2 DEF DoneWith, Ops
  <2> QED
    BY <2>1 DEF Local, Writing, Recomputing
<1>3. CASE o.kind # "apply"
  <2>s. PICK s: s = DoneWith(h, k)
    OBVIOUS
  <2>1. /\ s.kind = o.kind /\ s.pc = (IF o.kind = "final" THEN "days" ELSE "items")
        /\ s.affected = o.affected \ {k} /\ s.todo = o.todo /\ s.rows = {}
    BY <1>3, <2>s, DoneFields
  <2>2. Local(s) /\ s.pc \notin {"relabel"} \cup Recomputing
    BY <2>1 DEF Local, Writing, Recomputing
  <2> QED
    BY <2>s, <2>2
<1> QED
  BY <1>2, <1>3

\* The day a handler is about to recompute.
LEMMA AboutToRecompute ==
    ASSUME TypeInv, RecordInv, NEW h \in Handlers, NEW k \in Keys, AtRecompute(h, k)
    PROVE  /\ op[h].todo = <<>> \/ op[h].kind = "device"
           /\ op[h].rows = {} /\ Ingesting(h) /\ k \in op[h].affected
           /\ op[h].pc \notin Recomputing
           /\ (k \notin disturbed /\ Relabels(h, k)) => WrongLabels(k) = {}
<1> DEFINE o == op[h]
<1>1. OpSound(o) /\ Local(o) /\ Sees(h)
  BY DEF TypeInv, RecordInv
<1>2. CASE AtKeys(h) /\ o.kind # "device" /\ k \in o.affected
  BY <1>1, <1>2 DEF AtKeys, OpSound, Local, Ingesting, Relabels, Recomputing, Writing
<1>3. CASE o.pc = "relabel" /\ o.rows = {} /\ k = o.key
  BY <1>1, <1>3 DEF OpSound, Local, Ingesting, Sees, Recomputing, Writing
<1> QED
  BY <1>2, <1>3 DEF AtRecompute

\* recomputeRecord's reads.
LEMMA RecomputeKeepsRecords ==
    ASSUME TypeInv, RecordInv, NEW h \in Handlers,
           RecomputeSkips(h) \/ RecomputeStarts(h) \/ RecomputeReads(h)
    PROVE  RecordInv'
<1> DEFINE o == op[h]
<1>1. o \in Ops /\ OpSound(o) /\ Local(o) /\ op \in [Handlers -> Ops]
  BY DEF TypeInv, TypeOK, RecordInv
<1>2. ASSUME RecomputeSkips(h) PROVE RecordInv'
  <2>1. PICK k \in Keys: AtRecompute(h, k) /\ IsDecision(records[k]) /\ Goto(h, DoneWith(h, k))
    BY <1>2 DEF RecomputeSkips
  <2>2. /\ Ingesting(h) /\ o.rows = {}
        /\ (k \notin disturbed /\ Relabels(h, k)) => WrongLabels(k) = {}
    BY <2>1, AboutToRecompute
  <2>s. PICK s: s = DoneWith(h, k)
    OBVIOUS
  <2>3. o.kind \notin {"apply", "idle", "final"}
    BY <2>2 DEF Ingesting
  <2>4. s.kind = o.kind /\ s.pc = "items" /\ s.affected = o.affected \ {k}
    BY <2>3, <2>s, DoneFields
  <2>5. Local(s)
    BY <1>1, <2>2, <2>3, <2>s, DoneLocal
  <2>6. op' = [op EXCEPT ![h] = s] /\ op'[h] = s /\ UNCHANGED <<punches, records, disturbed>>
    BY <1>1, <2>1, <2>s DEF Goto
  <2>7. Sees(h)'
    BY <2>4, <2>6, ApartSees DEF Writing
  <2>8. \A j: j \in Owed(h) => j \in Owed(h)' \/ j = k
    BY <2>4, <2>6 DEF Owed, Ingesting
  <2>9. \A j: Relabels(h, j) => Relabels(h, j)' \/ j = k
    BY <2>4, <2>6 DEF Relabels, Recomputing, Writing
  <2> QED
    BY <2>1, <2>2, <2>5, <2>6, <2>7, <2>8, <2>9, ReadingStep
<1>3. ASSUME RecomputeStarts(h) PROVE RecordInv'
  <2>1. PICK k \in Keys: AtRecompute(h, k) /\ Goto(h, [o EXCEPT !.pc = "read", !.key = k])
    BY <1>3 DEF RecomputeStarts
  <2>2. /\ Ingesting(h) /\ o.rows = {} /\ k \in o.affected
        /\ o.todo = <<>> \/ o.kind = "device"
        /\ (k \notin disturbed /\ Relabels(h, k)) => WrongLabels(k) = {}
        /\ o.pc \notin Recomputing
    BY <2>1, AboutToRecompute
  <2>s. PICK s: s = [o EXCEPT !.pc = "read", !.key = k]
    OBVIOUS
  <2>4. /\ s.kind = o.kind /\ s.pc = "read" /\ s.affected = o.affected /\ s.rows = {}
        /\ s.key = k /\ s.todo = o.todo
    BY <1>1, <2>2, <2>s DEF Ops
  <2>5. Local(s)
    BY <1>1, <2>2, <2>4 DEF Local, Recomputing, Writing
  <2>6. op' = [op EXCEPT ![h] = s] /\ op'[h] = s /\ UNCHANGED <<punches, records, disturbed>>
    BY <1>1, <2>1, <2>s DEF Goto
  <2>7. Sees(h)'
    BY <2>4, <2>6, ApartSees DEF Writing
  <2>8. \A j: j \in Owed(h) => j \in Owed(h)'
    BY <2>4, <2>6 DEF Owed, Ingesting
  <2>9. \A j: Relabels(h, j) => Relabels(h, j)' \/ j = k
    BY <2>4, <2>6 DEF Relabels, Recomputing, Writing
  <2> QED
    BY <2>2, <2>5, <2>6, <2>7, <2>8, <2>9, ReadingStep
<1>4. ASSUME RecomputeReads(h) PROVE RecordInv'
  <2>k. PICK k: k = o.key
    OBVIOUS
  <2>s. PICK s: s = [o EXCEPT !.pc = "upsert", !.data = Recomputed(k)]
    OBVIOUS
  <2>1. o.pc = "read" /\ Goto(h, s)
    BY <1>4, <2>k, <2>s DEF RecomputeReads
  <2>2. Ingesting(h) /\ o.rows = {}
    BY <1>1, <2>1 DEF OpSound, Local, Ingesting
  <2>4. /\ s.kind = o.kind /\ s.pc = "upsert" /\ s.affected = o.affected /\ s.rows = {}
        /\ s.key = k /\ s.todo = o.todo /\ s.data = Recomputed(k)
    BY <1>1, <2>2, <2>k, <2>s DEF Ops
  <2>5. Local(s)
    BY <1>1, <2>1, <2>2, <2>4, <2>k DEF Local, Recomputing, Writing, Ingesting
  <2>6. op' = [op EXCEPT ![h] = s] /\ op'[h] = s /\ UNCHANGED <<punches, records, disturbed>>
    BY <1>1, <2>1, <2>s DEF Goto
  <2>7. Sees(h)'
    <3>1. Recomputed(k)' = Recomputed(k)
      BY <2>6, SameDay
    <3> QED
      BY <2>4, <2>6, <3>1 DEF Sees
  <2>8. \A j: j \in Owed(h) => j \in Owed(h)'
    BY <2>4, <2>6 DEF Owed, Ingesting
  <2>9. \A j: Relabels(h, j) => Relabels(h, j)'
    BY <2>1, <2>4, <2>6, <2>k DEF Relabels, Recomputing, Writing
  <2> QED
    BY <2>5, <2>6, <2>7, <2>8, <2>9, ReadingStep
<1> QED
  BY <1>2, <1>3, <1>4

\* upsert's lookup: whether the day has a record.
LEMMA LookupKeepsRecords ==
    ASSUME TypeInv, RecordInv, NEW h \in Handlers, UpsertLooksUp(h)
    PROVE  RecordInv'
<1> DEFINE o == op[h]
<1>1. o \in Ops /\ OpSound(o) /\ Local(o) /\ Sees(h) /\ op \in [Handlers -> Ops]
  BY DEF TypeInv, TypeOK, RecordInv
<1>k. PICK k: k = o.key
  OBVIOUS
<1>s. PICK s: s = [o EXCEPT !.pc = "write", !.exists = (records[k] # Null)]
  OBVIOUS
<1>2. o.pc = "upsert" /\ Goto(h, s)
  BY <1>k, <1>s DEF UpsertLooksUp
<1>3. o.rows = {}
  BY <1>1, <1>2 DEF Local
<1>4. /\ s.kind = o.kind /\ s.pc = "write" /\ s.affected = o.affected /\ s.rows = {}
      /\ s.key = k /\ s.todo = o.todo /\ s.data = o.data /\ s.exists = (records[k] # Null)
  BY <1>1, <1>3, <1>k, <1>s DEF Ops
<1>5. Local(s)
  BY <1>1, <1>2, <1>4, <1>k DEF Local, Recomputing, Writing
<1>6. op' = [op EXCEPT ![h] = s] /\ op'[h] = s /\ UNCHANGED <<punches, records, disturbed>>
  BY <1>1, <1>2 DEF Goto
<1>7. Sees(h)'
  <2>1. Recomputed(k)' = Recomputed(k) /\ records' = records /\ disturbed' = disturbed
    BY <1>6, SameDay
  <2>2. ASSUME k \in Keys \ disturbed, Ingesting(h)' PROVE s.data = Recomputed(k)
    BY <1>1, <1>2, <1>4, <1>6, <1>k, <2>2 DEF Sees, Ingesting, Writing
  <2>3. /\ op'[h].pc = "write" /\ op'[h].key = k /\ op'[h].data = s.data
        /\ op'[h].exists = (records[k] # Null)
    BY <1>4, <1>6
  <2> QED
    BY <2>1, <2>2, <2>3 DEF Sees
<1>8. \A j: j \in Owed(h) => j \in Owed(h)'
  BY <1>4, <1>6 DEF Owed, Ingesting
<1>9. \A j: Relabels(h, j) => Relabels(h, j)'
  BY <1>2, <1>4, <1>6, <1>k DEF Relabels, Recomputing, Writing
<1> QED
  BY <1>5, <1>6, <1>7, <1>8, <1>9, ReadingStep

\* A step of applyRecord or of the finalizer that writes nothing.
LEMMA ApartKeepsRecords ==
    ASSUME TypeInv, RecordInv, NEW h \in Handlers, NEW s, Goto(h, s),
           s.kind = op[h].kind, s.kind \in {"apply", "final"}, s.rows = {},
           s.pc \notin {"relabel", "write"},
           (s.kind = "final" /\ s.pc = "upsert") => s.data = Blank(s.key)
    PROVE  RecordInv'
<1>1. op' = [op EXCEPT ![h] = s] /\ op'[h] = s /\ UNCHANGED <<punches, records, disturbed>>
  BY DEF Goto, TypeInv, TypeOK
<1>2. Local(s)
  BY DEF Local, Writing
<1>3. Sees(h)'
  BY <1>1 DEF Sees, Ingesting
<1>4. \A j: j \notin Owed(h) /\ ~Relabels(h, j)
  BY DEF Owed, Ingesting, Relabels
<1> QED
  BY <1>1, <1>2, <1>3, <1>4, ReadingStep

\* Steps of applyRecord and of the finalizer that write nothing, and the
\* returns and exceptions of all handlers.
LEMMA OtherStepsKeepRecords ==
    ASSUME TypeInv, RecordInv, NEW h \in Handlers,
           \/ AllRecomputed(h) \/ UpsertFails(h) \/ ApplyReads(h) \/ ApplyFails(h)
           \/ AllApplied(h) \/ FinalizerSteps(h)
    PROVE  RecordInv'
<1> DEFINE o == op[h]
<1>1. o \in Ops /\ OpSound(o) /\ Local(o)
  BY DEF TypeInv, TypeOK, RecordInv
<1>2. CASE UpsertFails(h) \/ ApplyFails(h) \/ FinalizeEmployeeFails(h)
  BY <1>2, LeaveKeepsRecords DEF UpsertFails, ApplyFails, FinalizeEmployeeFails
<1>3. CASE AllRecomputed(h)
  BY <1>3, LeaveKeepsRecords DEF AllRecomputed, Owed
<1>4. CASE AllApplied(h) \/ AllFinalized(h)
  <2>1. o.kind \in {"apply", "final"} /\ Return(h)
    BY <1>1, <1>4 DEF AllApplied, AllFinalized, OpSound
  <2> QED
    BY <2>1, LeaveKeepsRecords DEF Owed, Ingesting
<1>5. CASE ApplyReads(h)
  <2>1. PICK k, data: Goto(h, [o EXCEPT !.pc = "upsert", !.key = k, !.data = data])
    BY <1>5 DEF ApplyReads
  <2>s. PICK s: s = [o EXCEPT !.pc = "upsert", !.key = k, !.data = data]
    OBVIOUS
  <2>2. o.kind = "apply" /\ o.rows = {}
    BY <1>1, <1>5 DEF ApplyReads, OpSound, Local
  <2>3. s.kind = "apply" /\ s.pc = "upsert" /\ s.rows = {}
    BY <1>1, <2>2, <2>s DEF Ops
  <2> QED
    BY <2>1, <2>2, <2>3, <2>s, ApartKeepsRecords
<1>6. CASE FinalizeDay(h)
  <2>1. PICK ds, ks: Goto(h, [o EXCEPT !.days = ds, !.affected = ks])
    BY <1>6 DEF FinalizeDay
  <2>s. PICK s: s = [o EXCEPT !.days = ds, !.affected = ks]
    OBVIOUS
  <2>2. o.kind = "final" /\ o.pc = "days" /\ o.rows = {}
    BY <1>1, <1>6 DEF FinalizeDay, OpSound, Local
  <2>3. s.kind = "final" /\ s.pc = "days" /\ s.rows = {}
    BY <1>1, <2>2, <2>s DEF Ops
  <2> QED
    BY <2>1, <2>2, <2>3, <2>s, ApartKeepsRecords
<1>7. CASE FinalizeEmployee(h)
  <2>1. PICK k \in o.affected:
          Goto(h, [o EXCEPT !.pc = "upsert", !.key = k,
                            !.data = Applied(k, Undefined, Null, Null, "system")])
    BY <1>7 DEF FinalizeEmployee
  <2>0. k \in Keys
    BY <1>1 DEF Ops
  <2>s. PICK s: s = [o EXCEPT !.pc = "upsert", !.key = k, !.data = Blank(k)]
    OBVIOUS
  <2>2. o.kind = "final" /\ o.rows = {}
    BY <1>1, <1>7 DEF FinalizeEmployee, OpSound, Local
  <2>3. s.kind = "final" /\ s.pc = "upsert" /\ s.rows = {} /\ s.data = Blank(k) /\ s.key = k
    BY <1>1, <2>2, <2>s DEF Ops
  <2>4. Goto(h, s)
    BY <2>0, <2>1, <2>s, BlankIsApplied
  <2> QED
    BY <2>2, <2>3, <2>4, ApartKeepsRecords
<1> QED
  BY <1>2, <1>3, <1>4, <1>5, <1>6, <1>7 DEF FinalizerSteps

-----------------------------------------------------------------------------
(* The write of upsert.                                                    *)

\* What is written for an undisturbed day: what its punches say, a decision,
\* or, where there was no record, that of a day without punches.
LEMMA WrittenData ==
    ASSUME TypeInv, DecisionInv, RecordInv, NEW h \in Handlers, op[h].pc = "write",
           op[h].key \notin disturbed
    PROVE  LET o == op[h]
           IN  /\ o.key \in Keys /\ o.data \in Records /\ o.data # Null /\ o.rows = {}
               /\ Ingesting(h) \/ o.kind \in {"apply", "final"}
               /\ Ingesting(h) => o.data = Recomputed(o.key)
               /\ o.kind = "apply" => IsDecision(o.data)
               /\ o.kind = "final" => o.data = Blank(o.key) /\ records[o.key] = Null
<1> DEFINE o == op[h]
<1>1. o \in Ops /\ OpSound(o) /\ Local(o) /\ Sees(h) /\ Relies(h)
  BY DEF TypeInv, TypeOK, RecordInv, DecisionInv
<1>2. o.key \in Keys /\ o.data \in Records /\ o.rows = {}
  BY <1>1 DEF OpSound, Local
<1>3. o.data # Null
  BY <1>2, AttendanceAssumption
<1>4. Ingesting(h) \/ o.kind \in {"apply", "final"}
  BY <1>1 DEF OpSound, Ops, Kinds, Ingesting
<1>5. Ingesting(h) => o.data = Recomputed(o.key)
  BY <1>1, <1>2 DEF Sees, Writing
<1>6. o.kind = "apply" => IsDecision(o.data)
  BY <1>1 DEF Relies, Writing
<1>7. o.kind = "final" => o.data = Blank(o.key) /\ records[o.key] = Null
  BY <1>1 DEF Relies, Writing, Local
<1> QED
  BY <1>2, <1>3, <1>4, <1>5, <1>6, <1>7

\* The write brings the record of its day in line with the day's punches.
LEMMA WriteKeepsRecords ==
    ASSUME TypeInv, DecisionInv, RecordInv, NEW h \in Handlers, UpsertWrites(h)
    PROVE  RecordInv'
<1> DEFINE o == op[h]
<1>1. o \in Ops /\ OpSound(o) /\ Local(o) /\ op \in [Handlers -> Ops] /\ o.pc = "write"
      /\ records \in [Keys -> Records \cup {Null}]
  BY DEF TypeInv, TypeOK, RecordInv, UpsertWrites
<1>k. PICK k: k = o.key
  OBVIOUS
<1>d. PICK d: d = o.data
  OBVIOUS
<1>s. PICK s: s = DoneWith(h, k)
  OBVIOUS
<1>2. k \in Keys /\ d \in Records /\ o.rows = {} /\ o.kind # "idle"
  BY <1>1, <1>k, <1>d DEF OpSound, Local
<1>3. /\ records' = [records EXCEPT ![k] = d] /\ op' = [op EXCEPT ![h] = s]
      /\ punches' = punches /\ disturbed \subseteq disturbed'
      /\ k \notin disturbed' => \A g \in Handlers \ {h}: k \notin Engaged(g)
  BY <1>k, <1>d, <1>s DEF UpsertWrites, Writes
<1>4. /\ records'[k] = d /\ \A j \in Keys \ {k}: records'[j] = records[j]
      /\ op'[h] = s /\ \A g \in Handlers \ {h}: op'[g] = op[g]
  BY <1>1, <1>2, <1>3
<1>5. \A j: /\ Stored(j)' = Stored(j) /\ Recomputed(j)' = Recomputed(j)
            /\ WrongLabels(j)' = WrongLabels(j)
  <2> TAKE j
  <2> QED
    BY <1>3, SameDay
<1>6. Local(s) /\ s.pc \notin {"relabel"} \cup Recomputing
  BY <1>1, <1>2, <1>s, DoneLocal
<1>7. ASSUME NEW g \in Handlers PROVE Local(op'[g]) /\ Sees(g)'
  <2>1. CASE g = h
    BY <1>4, <1>6, <2>1, ApartSees DEF Recomputing
  <2>2. CASE g # h
    <3>1. op'[g] = op[g] /\ Local(op[g]) /\ Sees(g) /\ Relies(g) /\ OpSound(op[g])
      BY <1>4, <2>2 DEF RecordInv, DecisionInv, TypeInv
    <3>2. ASSUME k \notin disturbed', op[g].key = k
          PROVE  ~Ingesting(g) /\ op[g].pc \notin {"relabel", "write"}
      <4>1. k \notin Engaged(g) /\ k # Null
        BY <1>2, <1>3, <2>2, <3>2, AttendanceAssumption
      <4>2. op[g].kind = "final" /\ k \notin op[g].affected
        BY <3>2, <4>1 DEF Engaged
      <4> QED
        BY <3>1, <3>2, <4>2 DEF Relies, Ingesting, OpSound, Writing
    <3> QED
      BY <1>3, <1>4, <1>5, <3>1, <3>2 DEF Sees, Ingesting
  <2> QED
    BY <2>1, <2>2
<1>8. ASSUME NEW j \in Keys \ disturbed', j # k PROVE Accounted(j)' /\ Labelled(j)'
  <2>1. Accounted(j) /\ Labelled(j)
    BY <1>3, <1>8 DEF RecordInv
  <2>2. \A g \in Handlers: j \in Owed(g) => j \in Owed(g)'
    <3> TAKE g \in Handlers
    <3>1. CASE g # h
      BY <1>4, <3>1 DEF Owed, Ingesting
    <3>2. CASE g = h /\ Ingesting(h)
      <4>1. s.kind = o.kind /\ s.affected = o.affected \ {k}
        BY <1>s, <3>2, DoneFields DEF Ingesting
      <4> QED
        BY <1>4, <1>8, <3>2, <4>1 DEF Owed, Ingesting
    <3> QED
      BY <3>1, <3>2 DEF Owed
  <2>3. \A g \in Handlers: Relabels(g, j) => Relabels(g, j)'
    <3> TAKE g \in Handlers
    <3>1. CASE g # h
      BY <1>4, <3>1 DEF Relabels
    <3>2. CASE g = h /\ o.kind = "device"
      <4>1. s.kind = o.kind /\ s.affected = o.affected \ {k} /\ s.pc = "items"
        BY <1>s, <3>2, DoneFields
      <4> QED
        BY <1>4, <1>8, <3>2, <4>1 DEF Relabels, Recomputing, Writing
    <3> QED
      BY <3>1, <3>2 DEF Relabels
  <2>4. records'[j] = records[j]
    BY <1>4, <1>8
  <2>5. Accounted(j)'
    BY <1>5, <2>1, <2>2, <2>4 DEF Accounted, Matches, IsDecision
  <2>6. Labelled(j)'
    BY <1>5, <2>1, <2>3 DEF Labelled, Plain
  <2> QED
    BY <2>5, <2>6
<1>9. ASSUME k \notin disturbed' PROVE Accounted(k)' /\ Labelled(k)'
  <2>1. Accounted(k) /\ Labelled(k) /\ k \notin disturbed
    BY <1>2, <1>3, <1>9 DEF RecordInv
  <2>2. /\ d # Null
        /\ Ingesting(h) \/ o.kind \in {"apply", "final"}
        /\ Ingesting(h) => d = Recomputed(k)
        /\ o.kind = "apply" => IsDecision(d)
        /\ o.kind = "final" => d = Blank(k) /\ records[k] = Null
    BY <1>1, <1>k, <1>d, <2>1, WrittenData
  <2>6. Accounted(k)'
    <3>1. CASE Ingesting(h)
      <4>1. Matches(k)'
        BY <1>4, <1>5, <2>2, <3>1 DEF Matches
      <4> QED
        BY <4>1 DEF Accounted
    <3>2. CASE o.kind = "apply"
      BY <1>4, <2>2, <3>2 DEF Accounted, IsDecision
    <3>3. CASE o.kind = "final"
      <4>1. CASE Stored(k) = {}
        <5>1. Matches(k)'
          BY <1>2, <1>4, <1>5, <2>2, <3>3, <4>1, BlankIsRecomputed DEF Matches
        <5> QED
          BY <5>1 DEF Accounted
      <4>2. CASE Stored(k) # {}
        <5>1. PICK g \in Handlers: k \in Owed(g)
          BY <2>1, <2>2, <3>3, <4>2 DEF Accounted, Matches, IsDecision
        <5>2. g # h
          BY <3>3, <5>1 DEF Owed, Ingesting
        <5>3. k \in Owed(g)'
          BY <1>4, <5>1, <5>2 DEF Owed, Ingesting
        <5> QED
          BY <5>3 DEF Accounted
      <4> QED
        BY <4>1, <4>2
    <3> QED
      BY <2>2, <3>1, <3>2, <3>3
  <2>7. \A g \in Handlers: Relabels(g, k) => Relabels(g, k)'
    <3> TAKE g \in Handlers
    <3>1. CASE g = h
      BY <1>1, <1>k, <3>1 DEF Relabels, Recomputing, Writing
    <3>2. CASE g # h
      BY <1>4, <3>2 DEF Relabels
    <3> QED
      BY <3>1, <3>2
  <2>8. Labelled(k)'
    BY <1>5, <2>1, <2>7 DEF Labelled, Plain
  <2> QED
    BY <2>6, <2>8
<1> QED
  BY <1>7, <1>8, <1>9 DEF RecordInv

-----------------------------------------------------------------------------
(* All steps.                                                              *)

\* A crash disturbs every day that a handler owed.
LEMMA CrashKeepsRecords ==
    ASSUME TypeInv, RecordInv, Crash
    PROVE  RecordInv'
<1>1. /\ op' = [h \in Handlers |-> Idle] /\ UNCHANGED <<punches, records>>
      /\ disturbed' = disturbed \cup UNION {Owed(h): h \in Handlers}
  BY DEF Crash
<1>2. \A h \in Handlers: Local(op'[h]) /\ Sees(h)'
  <2>1. Idle.kind = "idle" /\ Idle.pc = "idle" /\ Idle.rows = {}
    BY DEF Idle
  <2> QED
    BY <1>1, <2>1 DEF Local, Sees, Writing, Recomputing
<1>3. ASSUME NEW k \in Keys \ disturbed' PROVE Accounted(k)' /\ Labelled(k)'
  <2>1. Accounted(k) /\ Labelled(k)
    BY <1>1 DEF RecordInv
  <2>2. \A h \in Handlers: k \notin Owed(h) /\ ~Relabels(h, k)
    BY <1>1, <1>3 DEF Owed, Relabels, Ingesting
  <2>3. /\ Stored(k)' = Stored(k) /\ Recomputed(k)' = Recomputed(k)
        /\ WrongLabels(k)' = WrongLabels(k)
    BY <1>1, SameDay
  <2>4. Matches(k)' \/ IsDecision(records[k])'
    BY <1>1, <2>1, <2>2, <2>3 DEF Accounted, Matches, IsDecision
  <2>5. Plain(k)' => WrongLabels(k)' = {}
    BY <2>1, <2>2, <2>3 DEF Labelled, Plain
  <2> QED
    BY <2>4, <2>5 DEF Accounted, Labelled
<1> QED
  BY <1>2, <1>3 DEF RecordInv

\* Nothing that a day depends on changes while time passes or nothing happens.
LEMMA StillRecords ==
    ASSUME RecordInv, UNCHANGED <<punches, records, op, disturbed>>
    PROVE  RecordInv'
<1>1. \A k: /\ Stored(k)' = Stored(k) /\ Recomputed(k)' = Recomputed(k)
            /\ WrongLabels(k)' = WrongLabels(k)
  <2> TAKE k
  <2> QED
    BY SameDay
<1>2. \A h \in Handlers: Local(op'[h]) /\ Sees(h)'
  BY <1>1 DEF RecordInv, Sees, Ingesting
<1>3. ASSUME NEW k \in Keys \ disturbed' PROVE Accounted(k)' /\ Labelled(k)'
  <2>1. Accounted(k) /\ Labelled(k)
    BY DEF RecordInv
  <2>2. \A h \in Handlers: Owed(h)' = Owed(h) /\ Relabels(h, k)' = Relabels(h, k)
    BY DEF Owed, Ingesting, Relabels
  <2>3. Accounted(k)'
    BY <1>1, <2>1, <2>2 DEF Accounted, Matches, IsDecision
  <2>4. Labelled(k)'
    BY <1>1, <2>1, <2>2 DEF Labelled, Plain
  <2> QED
    BY <2>3, <2>4
<1> QED
  BY <1>2, <1>3 DEF RecordInv

\* A handler's steps keep RecordInv.
LEMMA HandlersKeepRecords ==
    ASSUME TypeInv, DecisionInv, RecordInv, NEW h \in Handlers, Step(h)
    PROVE  RecordInv'
<1>1. CASE IngestSteps(h)
  BY <1>1, ItemKeepsRecords, InsertKeepsRecords, RelabelKeepsRecords, RecomputeKeepsRecords,
     OtherStepsKeepRecords DEF IngestSteps
<1>2. CASE WriteSteps(h)
  BY <1>2, LookupKeepsRecords, WriteKeepsRecords, OtherStepsKeepRecords DEF WriteSteps
<1>3. CASE FinalizerSteps(h)
  BY <1>3, OtherStepsKeepRecords
<1> QED
  BY <1>1, <1>2, <1>3 DEF Step

\* RecordInv is inductive.
LEMMA RecordStep ==
    ASSUME TypeInv, DecisionInv, RecordInv, [Next]_vars
    PROVE  RecordInv'
<1>1. CASE DayPasses \/ UNCHANGED vars
  BY <1>1, StillRecords DEF DayPasses, vars
<1> QED
  BY <1>1, StartKeepsRecords, HandlersKeepRecords, CrashKeepsRecords DEF Next

LEMMA RecordInvInit == Init => RecordInv
<1> SUFFICES ASSUME Init PROVE RecordInv
  OBVIOUS
<1>1. op = [h \in Handlers |-> Idle]
  BY DEF Init
<1>2. Idle.kind = "idle" /\ Idle.pc = "idle" /\ Idle.rows = {}
  BY DEF Idle
<1>3. \A h \in Handlers: Local(op[h]) /\ Sees(h)
  BY <1>1, <1>2 DEF Local, Sees, Writing, Recomputing
<1>4. \A k \in Keys: Stored(k) = {} /\ records[k] = Null
  BY DEF Init, Stored
<1>5. \A k \in Keys: Matches(k)
  BY <1>4 DEF Matches
<1>6. \A k \in Keys: WrongLabels(k) = {}
  BY <1>4 DEF WrongLabels
<1> QED
  BY <1>3, <1>5, <1>6 DEF RecordInv, Accounted, Labelled

LEMMA RecordInvariance == Spec => []RecordInv
<1>1. TypeInv /\ DecisionInv /\ RecordInv /\ [Next]_vars => RecordInv'
  BY RecordStep
<1> QED
  BY <1>1, RecordInvInit, TypeInvariance, DecisionInvariance, PTL DEF Spec

\* The record of every settled day is the one recomputeRecord would write now,
\* for any punches in any order, batches and repetitions, however many requests
\* and invocations of the finalizer come and go and the server crashes.
THEOREM RecordsMatchTheorem == Spec => []RecordsMatchPunches
<1>1. RecordInv => RecordsMatchPunches
  BY DEF RecordInv, Accounted, Matches, Settled, RecordsMatchPunches
<1> QED
  BY <1>1, RecordInvariance, PTL

\* The device punches of every settled day are labelled in the order of their
\* instants, in whatever order the device reported them.
THEOREM LabelsTheorem == Spec => []DevicePunchesLabelledByOrder
<1>1. ASSUME RecordInv, NEW k \in Keys, Settled(k),
             \A e \in Stored(k): e.source = "biometric" =>
               \A items \in DtoBatches: e \notin Range(items)
      PROVE  WrongLabels(k) = {}
  <2>1. Labelled(k) /\ Plain(k)
    BY <1>1 DEF RecordInv, Settled, Plain, FromClients
  <2>2. \A h \in Handlers: ~Relabels(h, k)
    BY <1>1 DEF Settled, Relabels, Owed, Ingesting
  <2> QED
    BY <2>1, <2>2 DEF Labelled
<1>2. RecordInv => DevicePunchesLabelledByOrder
  BY <1>1 DEF DevicePunchesLabelledByOrder
<1> QED
  BY <1>2, RecordInvariance, PTL

=============================================================================
