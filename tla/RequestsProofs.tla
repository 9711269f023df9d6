---------------------------- MODULE RequestsProofs -----------------------------
(***************************************************************************)
(* AttendanceRequests proved for any employees, requests, shifts and       *)
(* numbers of handlers and crashes.                                        *)
(*                                                                         *)
(* Most steps of AttendanceRequests are steps of Attendance that leave the *)
(* requests alone, or steps on requests that leave Attendance alone; what  *)
(* is proved of Attendance is cited here.  An approval does both: it puts  *)
(* its own handler into applyRecord.                                       *)
(***************************************************************************)
EXTENDS AttendanceRequests, RecordProofs

\* What the pc of a review says of its other fields.
ReviewSound(r) ==
    /\ r.pc \in {"save", "apply"} => r.id \in RequestIds
    /\ r.pc = "save" => r.decision \in FinalStatuses

RequestTypeInv ==
    /\ TypeInv
    /\ requestStatus \in [RequestIds -> RequestStatuses \cup {Null}]
    /\ review \in [Handlers -> Reviews]
    /\ contended \subseteq RequestIds
    /\ interrupted \subseteq RequestIds
    /\ \A h \in Handlers: ReviewSound(review[h])

\* A request in the hands of one handler is pending; in the hands of two it
\* is contended.
Pending(h) ==
    (review[h].pc = "save" /\ review[h].id \notin contended) =>
        requestStatus[review[h].id] = "pending"

InTwoHands(g, h) ==
    (review[g].pc = "save" /\ review[h].pc = "save" /\ review[g].id = review[h].id) =>
        review[h].id \in contended

DecideInv ==
    /\ \A h \in Handlers: Pending(h)
    /\ \A g, h \in Handlers: g # h => InTwoHands(g, h)

\* The steps of Attendance, as AttendanceRequests takes them.
AttendanceStep ==
    /\ \/ \E h \in Requests: review[h] = NoReview /\ Request(h)
       \/ \E h \in Crons: StartFinalizer(h)
       \/ \E h \in Handlers: Step(h)
       \/ DayPasses
    /\ UNCHANGED requestVars

\* They are steps of Attendance.
LEMMA AttendanceSteps == AttendanceStep => Next /\ UNCHANGED requestVars
BY DEF AttendanceStep, Next

-----------------------------------------------------------------------------
(* Types.                                                                  *)

\* What an approval passes to applyRecord is well-typed (applyApprovedRequest).
LEMMA ApprovedParamsType ==
    ASSUME NEW id \in RequestIds
    PROVE  /\ ApprovedParams(BodyOf[id]) \in ApplyParams
           /\ ApprovedParams(BodyOf[id]).source = "regularization"
           /\ KeyOf(ApprovedParams(BodyOf[id])) = RequestKey(id)
<1> DEFINE body == BodyOf[id]
<1>1. body \in Bodies
  BY RequestsAssumption
<1>2. /\ body.user \in Users /\ body.date \in Dates
      /\ body.requestedCheckInAt \in Instant /\ body.requestedCheckOutAt \in Instant
      /\ body.requestedStatus \in AttendanceStatuses \cup {Null}
  BY <1>1 DEF Bodies
<1> HIDE DEF body
<1>3. \A column \in Instant: Given(column) \in Instant \cup {Undefined}
  BY DEF Given
<1>4. /\ Given(body.requestedStatus) \in AttendanceStatuses \cup {Undefined}
      /\ "absent" \in AttendanceStatuses
  BY <1>2 DEF Given, AttendanceStatuses
<1>5. ApprovedParams(body) \in ApplyParams
  BY <1>2, <1>3, <1>4 DEF ApprovedParams, ApplyParams
<1> QED
  BY <1>5 DEF ApprovedParams, KeyOf, RequestKey, body

\* An approval that goes on to applyRecord keeps the types of Attendance.
LEMMA StartsApplyTypes ==
    ASSUME TypeInv, NEW h \in Handlers, NEW id \in RequestIds, StartsApply(h, id),
           UNCHANGED <<today, punches, records, finalizing, crashes, disturbed>>
    PROVE  TypeInv'
<1> DEFINE changes == <<ApprovedParams(BodyOf[id])>>
           s == [Idle EXCEPT !.kind = "apply", !.pc = "apply", !.changes = changes]
<1>1. s \in Ops /\ OpSound(s) /\ s.rows = {}
  <2>1. changes \in Seq(ApplyParams)
    BY ApprovedParamsType
  <2> HIDE DEF changes
  <2> QED
    BY <2>1, IdleSound DEF Ops, Kinds, Steps, OpSound
<1>2. op' = [op EXCEPT ![h] = s]
  BY DEF StartsApply
<1> HIDE DEF s
<1>3. /\ op' \in [Handlers -> Ops] /\ op'[h] = s
      /\ \A g \in Handlers: OpSound(op'[g])
  BY <1>1, <1>2, OpStep
<1>4. \A g \in Handlers: \A r \in op'[g].rows: punches[r[1]] # Null
  BY <1>1, <1>2, <1>3 DEF TypeInv, TypeOK, RowsStored
<1> QED
  BY <1>3, <1>4 DEF TypeInv, TypeOK, PunchesSound, RowsStored

\* Every step keeps the types.
LEMMA RequestTypeStep ==
    ASSUME RequestTypeInv, [RequestsNext]_allVars
    PROVE  RequestTypeInv'
<1> USE DEF RequestTypeInv
<1>1. ASSUME UNCHANGED vars PROVE TypeInv'
  BY <1>1, TypeInvStep
<1>2. NoReview \in Reviews /\ ReviewSound(NoReview)
  BY DEF NoReview, Reviews, ReviewSound
<1>3. ASSUME NEW id \in RequestIds, Create(id) PROVE RequestTypeInv'
  BY <1>1, <1>3 DEF Create, RequestStatuses
<1>4. ASSUME NEW h \in Handlers, NEW id \in RequestIds, NEW decision \in FinalStatuses,
             ReadsPending(h, id, decision)
      PROVE  RequestTypeInv'
  <2> DEFINE r == [pc |-> "save", id |-> id, decision |-> decision]
  <2>1. r \in Reviews /\ ReviewSound(r)
    BY DEF Reviews, ReviewSound
  <2>2. review' = [review EXCEPT ![h] = r]
    BY <1>4 DEF ReadsPending
  <2> HIDE DEF r
  <2>3. review' \in [Handlers -> Reviews] /\ \A g \in Handlers: ReviewSound(review'[g])
    BY <2>1, <2>2
  <2> QED
    BY <1>1, <1>4, <2>3 DEF ReadsPending
<1>5. ASSUME NEW h \in Requests, SaveDecision(h) PROVE RequestTypeInv'
  <2>0. h \in Handlers
    BY DEF Handlers
  <2>1. /\ review[h] \in Reviews /\ review[h].pc = "save"
        /\ review[h].id \in RequestIds /\ review[h].decision \in FinalStatuses
    BY <1>5, <2>0 DEF SaveDecision, ReviewSound
  <2>2. /\ requestStatus' = [requestStatus EXCEPT ![review[h].id] = review[h].decision]
        /\ UNCHANGED <<today, punches, records, finalizing, crashes, disturbed,
                       contended, interrupted>>
        /\ StartsApply(h, review[h].id) \/ EndsReview(h)
    BY <1>5 DEF SaveDecision
  <2>3. requestStatus' \in [RequestIds -> RequestStatuses \cup {Null}]
    BY <2>1, <2>2 DEF RequestStatuses
  <2>4. TypeInv'
    BY <1>1, <2>0, <2>1, <2>2, StartsApplyTypes DEF EndsReview, vars
  <2>5. [review[h] EXCEPT !.pc = "apply"] \in Reviews
        /\ ReviewSound([review[h] EXCEPT !.pc = "apply"])
    BY <2>1 DEF Reviews, ReviewSound
  <2>6. \/ review' = [review EXCEPT ![h] = [review[h] EXCEPT !.pc = "apply"]]
        \/ review' = [review EXCEPT ![h] = NoReview]
    BY <2>2 DEF StartsApply, EndsReview
  <2>7. review' \in [Handlers -> Reviews] /\ \A g \in Handlers: ReviewSound(review'[g])
    BY <1>2, <2>0, <2>5, <2>6
  <2> QED
    BY <2>2, <2>3, <2>4, <2>7
<1>6. ASSUME NEW h \in Requests, ReviewReturns(h) PROVE RequestTypeInv'
  <2>1. review' \in [Handlers -> Reviews] /\ \A g \in Handlers: ReviewSound(review'[g])
    BY <1>2, <1>6 DEF ReviewReturns, Handlers
  <2> QED
    BY <1>1, <1>6, <2>1 DEF ReviewReturns
<1>7. CASE RequestsCrash
  <2>1. review' \in [Handlers -> Reviews] /\ \A g \in Handlers: ReviewSound(review'[g])
    BY <1>2, <1>7 DEF RequestsCrash
  <2>2. TypeInv'
    BY <1>7, TypeInvStep DEF RequestsCrash, Next
  <2> QED
    BY <1>7, <2>1, <2>2 DEF RequestsCrash
<1>8. CASE AttendanceStep
  BY <1>8, AttendanceSteps, TypeInvStep DEF requestVars
<1>9. CASE UNCHANGED allVars
  BY <1>1, <1>9 DEF allVars, requestVars
<1> QED
  BY <1>3, <1>4, <1>5, <1>6, <1>7, <1>8, <1>9
  DEF RequestsNext, RequestCalls, Review, Cancel, AttendanceStep, FinalStatuses, Handlers

\* The server starts well-typed.
LEMMA RequestTypeInit == RequestsInit => RequestTypeInv
BY TypeInvInit DEF RequestsInit, RequestTypeInv, NoReview, Reviews, ReviewSound

\* RequestTypeInv is an invariant.
LEMMA RequestTypeInvariance == RequestsSpec => []RequestTypeInv
BY RequestTypeInit, RequestTypeStep, PTL DEF RequestsSpec

\* The tables of attendance and of requests keep well-formed rows whatever
\* reviews, cancellations, punches and crashes interleave: RequestsTypeOK.
THEOREM RequestsTypeCorrect == RequestsSpec => []RequestsTypeOK
<1>1. RequestTypeInv => RequestsTypeOK
  BY DEF RequestTypeInv, RequestsTypeOK, TypeInv
<1> QED
  BY <1>1, RequestTypeInvariance, PTL

-----------------------------------------------------------------------------
(* Decisions.                                                              *)

\* Nothing but the save of a decision changes a decided request, and that only
\* if two handlers had it in hands.
LEMMA DecideStep ==
    ASSUME RequestTypeInv, DecideInv, [RequestsNext]_allVars
    PROVE  /\ DecideInv'
           /\ \A id \in RequestIds:
                (requestStatus[id] \in FinalStatuses /\ requestStatus'[id] # requestStatus[id])
                => id \in contended
<1> DEFINE Kept == \A id \in RequestIds:
              (requestStatus[id] \in FinalStatuses /\ requestStatus'[id] # requestStatus[id])
              => id \in contended
<1>0. /\ requestStatus \in [RequestIds -> RequestStatuses \cup {Null}]
      /\ review \in [Handlers -> Reviews]
      /\ \A h \in Handlers: ReviewSound(review[h])
      /\ "pending" \notin FinalStatuses /\ Null \notin FinalStatuses
  BY RequestsAssumption DEF RequestTypeInv, FinalStatuses, RequestStatuses
<1>1. ASSUME UNCHANGED <<requestStatus, review, contended>> PROVE DecideInv' /\ Kept
  BY <1>1 DEF DecideInv, Pending, InTwoHands
<1>2. ASSUME NEW id \in RequestIds, Create(id) PROVE DecideInv' /\ Kept
  <2>1. /\ requestStatus[id] = Null /\ UNCHANGED <<review, contended>>
        /\ \A i \in RequestIds: i # id => requestStatus'[i] = requestStatus[i]
    BY <1>0, <1>2 DEF Create
  <2>2. Null # "pending"
    BY RequestsAssumption DEF RequestStatuses
  <2>3. ASSUME NEW h \in Handlers PROVE Pending(h)'
    BY <1>0, <2>1, <2>2 DEF DecideInv, Pending, ReviewSound
  <2> QED
    BY <1>0, <2>1, <2>3 DEF DecideInv, InTwoHands
<1>3. ASSUME NEW h \in Handlers, NEW id \in RequestIds, NEW decision,
             ReadsPending(h, id, decision)
      PROVE  DecideInv' /\ Kept
  <2>1. /\ requestStatus[id] = "pending" /\ requestStatus' = requestStatus
        /\ contended \subseteq contended'
        /\ (\E g \in Handlers: review[g].pc = "save" /\ review[g].id = id) => id \in contended'
    BY <1>3 DEF ReadsPending
  <2>2. /\ review'[h].id = id /\ \A g \in Handlers \ {h}: review'[g] = review[g]
    BY <1>0, <1>3 DEF ReadsPending
  <2>3. ASSUME NEW g \in Handlers PROVE Pending(g)'
    BY <2>1, <2>2 DEF DecideInv, Pending
  <2>4. ASSUME NEW f \in Handlers, NEW g \in Handlers, f # g PROVE InTwoHands(f, g)'
    BY <2>1, <2>2, <2>4 DEF DecideInv, InTwoHands
  <2> QED
    BY <2>1, <2>3, <2>4 DEF DecideInv
<1>4. ASSUME NEW h \in Requests, SaveDecision(h) PROVE DecideInv' /\ Kept
  <2> DEFINE id == review[h].id
  <2>1. h \in Handlers /\ review[h].pc = "save" /\ id \in RequestIds
    BY <1>0, <1>4 DEF Handlers, SaveDecision, ReviewSound
  <2>2. /\ \A i \in RequestIds: i # id => requestStatus'[i] = requestStatus[i]
        /\ contended' = contended
    BY <1>0, <1>4 DEF SaveDecision
  <2>3. review'[h].pc # "save" /\ \A g \in Handlers \ {h}: review'[g] = review[g]
    <3>1. \/ review' = [review EXCEPT ![h] = [review[h] EXCEPT !.pc = "apply"]]
          \/ review' = [review EXCEPT ![h] = NoReview]
      BY <1>4 DEF SaveDecision, StartsApply, EndsReview
    <3> QED
      BY <1>0, <2>1, <3>1 DEF NoReview, Reviews
  <2>4. ASSUME NEW g \in Handlers PROVE Pending(g)'
    <3>1. g # h /\ review[g].pc = "save" /\ review[g].id = id => id \in contended
      BY <2>1 DEF DecideInv, InTwoHands
    <3> QED
      BY <1>0, <2>2, <2>3, <3>1 DEF DecideInv, Pending, ReviewSound
  <2>5. ASSUME NEW f \in Handlers, NEW g \in Handlers, f # g PROVE InTwoHands(f, g)'
    BY <2>2, <2>3, <2>5 DEF DecideInv, InTwoHands
  <2>6. Kept
    BY <1>0, <2>1, <2>2 DEF DecideInv, Pending
  <2> QED
    BY <2>4, <2>5, <2>6 DEF DecideInv
<1>5. ASSUME NEW h \in Requests, ReviewReturns(h) PROVE DecideInv' /\ Kept
  <2>1. /\ UNCHANGED <<requestStatus, contended>>
        /\ review'[h].pc # "save" /\ \A g \in Handlers \ {h}: review'[g] = review[g]
    BY <1>0, <1>5 DEF ReviewReturns, NoReview, Handlers
  <2> QED
    BY <2>1 DEF DecideInv, Pending, InTwoHands
<1>6. CASE RequestsCrash
  <2>1. UNCHANGED <<requestStatus, contended>> /\ \A g \in Handlers: review'[g].pc # "save"
    BY <1>6 DEF RequestsCrash, NoReview
  <2> QED
    BY <2>1 DEF DecideInv, Pending, InTwoHands
<1>7. CASE AttendanceStep
  BY <1>1, <1>7 DEF AttendanceStep, requestVars
<1>8. CASE UNCHANGED allVars
  BY <1>1, <1>8 DEF allVars, requestVars
<1> QED
  BY <1>2, <1>3, <1>4, <1>5, <1>6, <1>7, <1>8
  DEF RequestsNext, RequestCalls, Review, Cancel, AttendanceStep, Handlers

\* DecideInv is an invariant.
LEMMA DecideInvariance == RequestsSpec => []DecideInv
<1>1. RequestsInit => DecideInv
  BY DEF RequestsInit, DecideInv, Pending, InTwoHands, NoReview
<1>2. RequestTypeInv /\ DecideInv /\ [RequestsNext]_allVars => DecideInv'
  BY DecideStep
<1> QED
  BY <1>1, <1>2, RequestTypeInvariance, PTL DEF RequestsSpec

\* A request is decided once, by any number of handlers that review and cancel
\* it, unless two of them had both read it as pending: DecidedOnce.
THEOREM DecidedOnceTheorem == RequestsSpec => DecidedOnce
<1>1. RequestTypeInv /\ DecideInv /\ [RequestsNext]_allVars =>
        [\A id \in RequestIds:
           (requestStatus[id] \in FinalStatuses /\ requestStatus'[id] # requestStatus[id])
           => id \in contended]_allVars
  BY DecideStep
<1> QED
  BY <1>1, DecideInvariance, RequestTypeInvariance, PTL DEF RequestsSpec, DecidedOnce

-----------------------------------------------------------------------------
(* Regularizations.                                                        *)
(*                                                                         *)
(* A regularization is on its way from the save of the approval to the     *)
(* write of the record: in the changes a handler is to apply, then in the  *)
(* record it has computed.  Wherever it is, it is of a day in B; for       *)
(* OnlyApprovedIsApplied, B is the days of approved or contended requests. *)

\* The regularizations handler state o carries are of days in B.
OpOrigin(o, B) ==
    /\ \A i \in DOMAIN o.changes:
         o.changes[i].source = "regularization" => KeyOf(o.changes[i]) \in B
    /\ (o.pc \in Writing /\ o.data.source = "regularization") => o.key \in B

Origin(B) ==
    /\ \A k \in Keys:
         (records[k] # Null /\ records[k].source = "regularization") => k \in B
    /\ \A h \in Handlers: OpOrigin(op[h], B)

\* A handler that goes on with the same changes, and has no record to write.
LEMMA PlainOrigin ==
    ASSUME TypeInv, NEW B, Origin(B), NEW h \in Handlers,
           \A g \in Handlers \ {h}: op'[g] = op[g],
           op'[h].changes = op[h].changes, op'[h].pc \notin Writing
    PROVE  \A g \in Handlers: OpOrigin(op'[g], B)
BY DEF Origin, OpOrigin

\* A handler that leaves carries nothing.
LEMMA IdleOrigin ==
    ASSUME NEW B
    PROVE  OpOrigin(Idle, B)
BY DEF Idle, OpOrigin, Writing

\* The rest of the changes are of days in B if all of them are.
LEMMA TailOrigin ==
    ASSUME NEW B, NEW changes \in Seq(ApplyParams), changes # <<>>,
           \A i \in DOMAIN changes:
             changes[i].source = "regularization" => KeyOf(changes[i]) \in B
    PROVE  /\ \A i \in DOMAIN Tail(changes):
                Tail(changes)[i].source = "regularization" => KeyOf(Tail(changes)[i]) \in B
           /\ Head(changes).source = "regularization" => KeyOf(Head(changes)) \in B
<1>1. /\ Len(changes) \in Nat \ {0} /\ DOMAIN changes = 1..Len(changes)
      /\ DOMAIN Tail(changes) = 1..(Len(changes) - 1)
      /\ \A i \in 1..(Len(changes) - 1): Tail(changes)[i] = changes[i + 1]
      /\ Head(changes) = changes[1]
  OBVIOUS
<1>2. \A i \in 1..(Len(changes) - 1): i + 1 \in DOMAIN changes
  BY <1>1
<1>3. 1 \in DOMAIN changes
  BY <1>1
<1> QED
  BY <1>1, <1>2, <1>3

\* So are those of a handler that has finished a day.
LEMMA DoneWithOrigin ==
    ASSUME TypeInv, NEW B, Origin(B), NEW h \in Handlers, NEW k,
           op[h].kind = "apply" => op[h].changes # <<>>
    PROVE  OpOrigin(DoneWith(h, k), B)
<1>1. op[h] \in Ops /\ OpOrigin(op[h], B)
  BY DEF TypeInv, TypeOK, Origin
<1>2. DoneWith(h, k).pc \notin Writing
  BY <1>1 DEF DoneWith, Ops, Writing
<1>3. CASE op[h].kind = "apply"
  <2>1. DoneWith(h, k).changes = Tail(op[h].changes)
    BY <1>1, <1>3 DEF DoneWith, Ops
  <2>2. op[h].changes \in Seq(ApplyParams)
    BY <1>1 DEF Ops
  <2> QED
    BY <1>1, <1>2, <1>3, <2>1, <2>2, TailOrigin DEF OpOrigin
<1>4. CASE op[h].kind # "apply"
  <2>1. DoneWith(h, k).changes = op[h].changes
    BY <1>1, <1>4 DEF DoneWith, Ops
  <2> QED
    BY <1>1, <1>2, <2>1 DEF OpOrigin
<1> QED
  BY <1>3, <1>4

\* What recomputeRecord computes is no regularization.
LEMMA RecomputedSource ==
    ASSUME NEW k
    PROVE  Recomputed(k).source # "regularization"
<1>1. \A source: MapPunchSource(source) # "regularization"
  BY DEF MapPunchSource
<1> QED
  BY <1>1 DEF Recomputed

\* Steps on punches carry no regularization.
LEMMA IngestOrigin ==
    ASSUME TypeInv, NEW B, Origin(B), NEW h \in Handlers, IngestSteps(h)
    PROVE  Origin(B)'
<1> DEFINE o == op[h]
<1>0. o \in Ops /\ OpSound(o) /\ op \in [Handlers -> Ops] /\ OpOrigin(o, B)
  BY DEF TypeInv, TypeOK, Origin
<1>1. ASSUME NEW s, op' = [op EXCEPT ![h] = s], records' = records,
             s.changes = o.changes, s.pc \notin Writing
      PROVE  Origin(B)'
  <2>1. op'[h] = s /\ \A g \in Handlers \ {h}: op'[g] = op[g]
    BY <1>0, <1>1
  <2> QED
    BY <1>1, <2>1, PlainOrigin DEF Origin
<1>2. ASSUME op' = [op EXCEPT ![h] = Idle], records' = records
      PROVE  Origin(B)'
  BY <1>0, <1>2, IdleOrigin DEF Origin
<1>3. \A ks: /\ [PastItem(h) EXCEPT !.affected = ks].changes = o.changes
             /\ [PastItem(h) EXCEPT !.affected = ks].pc = "items"
             /\ PastItem(h).changes = o.changes /\ PastItem(h).pc = "items"
  BY <1>0 DEF PastItem, Ops
<1>4. CASE SkipPunch(h) \/ DuplicatePunch(h) \/ NewPunch(h)
  <2>1. PICK s: Goto(h, s) /\ s.changes = o.changes /\ s.pc \in {"items", "insert"}
    <3>1. /\ [o EXCEPT !.todo = Tail(o.todo)].changes = o.changes
          /\ [o EXCEPT !.todo = Tail(o.todo)].pc = o.pc
          /\ [o EXCEPT !.pc = "insert"].changes = o.changes
          /\ [o EXCEPT !.pc = "insert"].pc = "insert"
      BY <1>0 DEF Ops
    <3>2. CASE SkipPunch(h)
      BY <1>3, <3>1, <3>2 DEF SkipPunch, AtItem
    <3>3. CASE DuplicatePunch(h)
      BY <1>3, <3>3 DEF DuplicatePunch
    <3>4. CASE NewPunch(h)
      BY <3>1, <3>4 DEF NewPunch
    <3> QED
      BY <1>4, <3>2, <3>3, <3>4
  <2> QED
    BY <1>1, <2>1 DEF Goto, Writing
<1>5. CASE RejectPunch(h) \/ InsertPunchFails(h) \/ AllRecomputed(h)
  BY <1>2, <1>5 DEF RejectPunch, InsertPunchFails, AllRecomputed, Throw, Return, Leave
<1>6. CASE InsertPunch(h)
  <2> DEFINE s == [PastItem(h) EXCEPT !.affected = @ \cup {KeyOf(Head(o.todo))}]
  <2>1. s.changes = o.changes /\ s.pc = "items"
    BY <1>0 DEF PastItem, Ops
  <2>2. op' = [op EXCEPT ![h] = s] /\ records' = records
    BY <1>6 DEF InsertPunch
  <2> HIDE DEF s
  <2> QED
    BY <1>1, <2>1, <2>2 DEF Writing
<1>7. CASE RelabelDay(h)
  <2>1. PICK k, rows: Goto(h, [o EXCEPT !.pc = "relabel", !.key = k, !.rows = rows])
    BY <1>7 DEF RelabelDay
  <2> DEFINE s == [o EXCEPT !.pc = "relabel", !.key = k, !.rows = rows]
  <2>2. s.changes = o.changes /\ s.pc = "relabel"
    BY <1>0 DEF Ops
  <2>3. op' = [op EXCEPT ![h] = s] /\ records' = records
    BY <2>1 DEF Goto
  <2> HIDE DEF s
  <2> QED
    BY <1>1, <2>2, <2>3 DEF Writing
<1>8. CASE RelabelRow(h)
  <2>1. PICK r: op' = [op EXCEPT ![h].rows = @ \ {r}]
    BY <1>8 DEF RelabelRow
  <2> DEFINE s == [o EXCEPT !.rows = @ \ {r}]
  <2>2. s.changes = o.changes /\ s.pc = "relabel"
    BY <1>0, <1>8 DEF RelabelRow, Ops
  <2>3. op' = [op EXCEPT ![h] = s] /\ records' = records
    BY <1>8, <2>1 DEF RelabelRow
  <2> HIDE DEF s
  <2> QED
    BY <1>1, <2>2, <2>3 DEF Writing
<1>9. CASE RecomputeSkips(h)
  <2>1. PICK k \in Keys: AtRecompute(h, k) /\ Goto(h, DoneWith(h, k))
    BY <1>9 DEF RecomputeSkips
  <2>2. o.kind # "apply"
    BY <1>0, <2>1 DEF AtRecompute, AtKeys, OpSound
  <2>3. OpOrigin(DoneWith(h, k), B)
    BY <2>2, DoneWithOrigin
  <2> QED
    BY <1>0, <2>1, <2>3 DEF Goto, Origin
<1>10. CASE RecomputeStarts(h)
  <2>1. PICK k: Goto(h, [o EXCEPT !.pc = "read", !.key = k])
    BY <1>10 DEF RecomputeStarts
  <2> DEFINE s == [o EXCEPT !.pc = "read", !.key = k]
  <2>2. s.changes = o.changes /\ s.pc = "read"
    BY <1>0 DEF Ops
  <2>3. op' = [op EXCEPT ![h] = s] /\ records' = records
    BY <2>1 DEF Goto
  <2> HIDE DEF s
  <2> QED
    BY <1>1, <2>2, <2>3 DEF Writing
<1>11. CASE RecomputeReads(h)
  <2> DEFINE s == [o EXCEPT !.pc = "upsert", !.data = Recomputed(o.key)]
  <2>1. s.changes = o.changes /\ s.data.source # "regularization"
    BY <1>0, RecomputedSource DEF Ops
  <2>2. op' = [op EXCEPT ![h] = s] /\ records' = records
    BY <1>11 DEF RecomputeReads, Goto
  <2> HIDE DEF s
  <2>3. OpOrigin(s, B)
    BY <1>0, <2>1 DEF OpOrigin
  <2> QED
    BY <1>0, <2>2, <2>3 DEF Origin
<1> QED
  BY <1>4, <1>5, <1>6, <1>7, <1>8, <1>9, <1>10, <1>11 DEF IngestSteps

\* Steps of applyRecord and of the finalizer write what they carry, and the
\* finalizer carries no regularization.
LEMMA WriteOrigin ==
    ASSUME TypeInv, NEW B, Origin(B), NEW h \in Handlers, WriteSteps(h) \/ FinalizerSteps(h)
    PROVE  Origin(B)'
<1> DEFINE o == op[h]
<1>0. o \in Ops /\ OpSound(o) /\ op \in [Handlers -> Ops] /\ OpOrigin(o, B)
  BY DEF TypeInv, TypeOK, Origin
<1>1. ASSUME NEW s, op' = [op EXCEPT ![h] = s], records' = records, OpOrigin(s, B)
      PROVE  Origin(B)'
  BY <1>0, <1>1 DEF Origin
<1>2. CASE UpsertLooksUp(h)
  <2> DEFINE s == [o EXCEPT !.pc = "write", !.exists = (records[o.key] # Null)]
  <2>1. s.changes = o.changes /\ s.key = o.key /\ s.data = o.data /\ o.pc \in Writing
    BY <1>0, <1>2 DEF UpsertLooksUp, Ops, Writing
  <2>2. op' = [op EXCEPT ![h] = s] /\ records' = records
    BY <1>2 DEF UpsertLooksUp, Goto
  <2> HIDE DEF s
  <2>3. OpOrigin(s, B)
    BY <1>0, <2>1 DEF OpOrigin
  <2> QED
    BY <1>1, <2>2, <2>3
<1>3. CASE UpsertWrites(h)
  <2>1. /\ o.pc \in Writing /\ o.key \in Keys
        /\ o.kind = "apply" => o.changes # <<>>
    BY <1>0, <1>3 DEF UpsertWrites, OpSound, Writing
  <2>2. OpOrigin(DoneWith(h, o.key), B)
    BY <2>1, DoneWithOrigin
  <2>3. o.data.source = "regularization" => o.key \in B
    BY <1>0, <2>1 DEF OpOrigin
  <2>4. \A k \in Keys: records'[k] = IF k = o.key THEN o.data ELSE records[k]
    BY <1>3 DEF UpsertWrites, TypeInv, TypeOK
  <2>5. op' = [op EXCEPT ![h] = DoneWith(h, o.key)]
    BY <1>3 DEF UpsertWrites
  <2> QED
    BY <1>0, <2>2, <2>3, <2>4, <2>5 DEF Origin
<1>4. CASE ApplyReads(h)
  <2> DEFINE c == Head(o.changes)
             data == Applied(KeyOf(c), c.attendanceStatus, c.checkInAt, c.checkOutAt, c.source)
             s == [o EXCEPT !.pc = "upsert", !.key = KeyOf(c), !.data = data]
  <2>1. o.changes # <<>> /\ o.changes \in Seq(ApplyParams)
    BY <1>0, <1>4 DEF ApplyReads, Ops
  <2>2. c.source = "regularization" => KeyOf(c) \in B
    BY <1>0, <2>1, TailOrigin DEF OpOrigin
  <2>3. data.source = c.source
    BY DEF Applied
  <2> HIDE DEF data
  <2>4. s.changes = o.changes /\ s.key = KeyOf(c) /\ s.data = data
    BY <1>0 DEF Ops
  <2>5. op' = [op EXCEPT ![h] = s] /\ records' = records
    BY <1>4 DEF ApplyReads, Goto, data
  <2> HIDE DEF s
  <2>6. OpOrigin(s, B)
    BY <1>0, <2>2, <2>3, <2>4 DEF OpOrigin
  <2> QED
    BY <1>1, <2>5, <2>6
<1>5. CASE FinalizeEmployee(h)
  <2>1. PICK k: Goto(h, [o EXCEPT !.pc = "upsert", !.key = k,
                                  !.data = Applied(k, Undefined, Null, Null, "system")])
    BY <1>5 DEF FinalizeEmployee
  <2> DEFINE data == Applied(k, Undefined, Null, Null, "system")
             s == [o EXCEPT !.pc = "upsert", !.key = k, !.data = data]
  <2>2. data.source = "system"
    BY DEF Applied
  <2>3. op' = [op EXCEPT ![h] = s] /\ records' = records
    BY <2>1 DEF Goto
  <2> HIDE DEF data
  <2>4. s.changes = o.changes /\ s.data = data
    BY <1>0 DEF Ops
  <2> HIDE DEF s
  <2>5. OpOrigin(s, B)
    BY <1>0, <2>2, <2>4 DEF OpOrigin
  <2> QED
    BY <1>1, <2>3, <2>5
<1>6. CASE FinalizeDay(h)
  <2>1. PICK days, ks: Goto(h, [o EXCEPT !.days = days, !.affected = ks])
    BY <1>6 DEF FinalizeDay
  <2> DEFINE s == [o EXCEPT !.days = days, !.affected = ks]
  <2>2. s.changes = o.changes /\ s.pc = "days"
    BY <1>0, <1>6 DEF Ops, FinalizeDay
  <2>3. op' = [op EXCEPT ![h] = s] /\ records' = records
    BY <2>1 DEF Goto
  <2> HIDE DEF s
  <2>4. OpOrigin(s, B)
    BY <1>0, <2>2 DEF OpOrigin, Writing
  <2> QED
    BY <1>1, <2>3, <2>4
<1>7. CASE \/ UpsertFails(h) \/ ApplyFails(h) \/ AllApplied(h)
           \/ FinalizeEmployeeFails(h) \/ AllFinalized(h)
  <2>1. op' = [op EXCEPT ![h] = Idle] /\ records' = records
    BY <1>7 DEF UpsertFails, ApplyFails, AllApplied, FinalizeEmployeeFails, AllFinalized,
       Throw, Return, Leave
  <2> QED
    BY <1>1, <2>1, IdleOrigin
<1> QED
  BY <1>2, <1>3, <1>4, <1>5, <1>6, <1>7 DEF WriteSteps, FinalizerSteps

\* No step of Attendance makes up a regularization.
LEMMA OriginStep ==
    ASSUME TypeInv, NEW B, Origin(B), [Next]_vars
    PROVE  Origin(B)'
<1>0. op \in [Handlers -> Ops]
  BY DEF TypeInv, TypeOK
<1>1. ASSUME NEW h \in Handlers, NEW s, Begin(h, s), OpOrigin(s, B)
      PROVE  Origin(B)'
  BY <1>0, <1>1 DEF Begin, Origin
<1>2. ASSUME NEW h \in Handlers, NEW kind, NEW items, Ingest(h, kind, items)
      PROVE  Origin(B)'
  <2> DEFINE s == [Idle EXCEPT !.kind = kind, !.pc = "items", !.todo = items]
  <2>1. OpOrigin(s, B)
    BY DEF OpOrigin, Idle, Writing
  <2>2. Begin(h, s)
    BY <1>2 DEF Ingest
  <2> HIDE DEF s
  <2> QED
    BY <1>1, <2>1, <2>2
<1>3. ASSUME NEW h \in Handlers, Correct(h) PROVE Origin(B)'
  <2>1. PICK changes \in Corrections:
          Begin(h, [Idle EXCEPT !.kind = "apply", !.pc = "apply", !.changes = changes])
    BY <1>3 DEF Correct
  <2> DEFINE s == [Idle EXCEPT !.kind = "apply", !.pc = "apply", !.changes = changes]
  <2>2. s.changes = changes /\ s.pc = "apply"
    BY DEF Idle
  <2>3. Begin(h, s)
    BY <2>1
  <2> HIDE DEF s
  <2>4. OpOrigin(s, B)
    BY <2>2, CorrectionsAreManual DEF OpOrigin, Writing
  <2> QED
    BY <1>1, <2>3, <2>4
<1>4. ASSUME NEW h \in Crons, StartFinalizer(h) PROVE Origin(B)'
  <2> DEFINE s == [Idle EXCEPT !.kind = "final", !.pc = "days", !.days = RecentDays]
  <2>1. OpOrigin(s, B)
    BY DEF OpOrigin, Idle, Writing
  <2>2. Begin(h, s) /\ h \in Handlers
    BY <1>4 DEF StartFinalizer, Handlers
  <2> HIDE DEF s
  <2> QED
    BY <1>1, <2>1, <2>2
<1>5. ASSUME NEW h \in Requests, Request(h) PROVE Origin(B)'
  BY <1>2, <1>3, <1>5
  DEF Request, RecordPunch, RecordBatchPunches, RecordDevicePunches, Handlers
<1>6. ASSUME NEW h \in Handlers, Step(h) PROVE Origin(B)'
  BY <1>6, IngestOrigin, WriteOrigin DEF Step
<1>7. CASE Crash
  BY <1>7, IdleOrigin DEF Crash, Origin
<1>8. CASE DayPasses \/ UNCHANGED vars
  BY <1>8 DEF DayPasses, vars, Origin
<1> QED
  BY <1>4, <1>5, <1>6, <1>7, <1>8 DEF Next

\* The days an approval may have reached.
Backed ==
    {k \in Keys: \E id \in RequestIds:
        RequestKey(id) = k /\ (requestStatus[id] = "approved" \/ id \in contended)}

\* A day once backed stays so: an approval is only replaced by another
\* decision on a contended request.
LEMMA BackedStays ==
    ASSUME RequestTypeInv, DecideInv, [RequestsNext]_allVars
    PROVE  Backed \subseteq Backed'
<1>1. \A id \in RequestIds: requestStatus[id] = "approved" =>
        requestStatus'[id] = "approved" \/ id \in contended
  BY DecideStep DEF FinalStatuses
<1>2. contended \subseteq contended'
  BY DEF RequestsNext, RequestCalls, Create, Review, Cancel, ReadsPending, SaveDecision,
     ReviewReturns, RequestsCrash, requestVars, allVars
<1> QED
  BY <1>1, <1>2 DEF Backed, RequestKey

\* The record table and the handlers hold no other regularizations.
LEMMA BackedStep ==
    ASSUME RequestTypeInv, DecideInv, Origin(Backed), [RequestsNext]_allVars
    PROVE  Origin(Backed)'
<1> PICK B: B = Backed'
  OBVIOUS
<1>1. Origin(B)
  BY BackedStays DEF Origin, OpOrigin
<1> SUFFICES Origin(B)'
  BY DEF Origin, OpOrigin
<1>2. ASSUME [Next]_vars PROVE Origin(B)'
  BY <1>1, <1>2, OriginStep DEF RequestTypeInv
<1>3. ASSUME UNCHANGED vars PROVE Origin(B)'
  BY <1>2, <1>3
<1>4. ASSUME NEW h \in Requests, SaveDecision(h) PROVE Origin(B)'
  <2> DEFINE id == review[h].id
  <2>1. h \in Handlers /\ id \in RequestIds
    BY <1>4 DEF Handlers, SaveDecision, RequestTypeInv, ReviewSound
  <2>2. CASE EndsReview(h)
    BY <1>3, <1>4, <2>2 DEF SaveDecision, EndsReview, vars
  <2>3. CASE review[h].decision = "approved" /\ StartsApply(h, id)
    <3>1. requestStatus'[id] = "approved"
      BY <1>4, <2>1, <2>3 DEF SaveDecision, RequestTypeInv
    <3>2. RequestKey(id) \in B
      <4>1. RequestKey(id) \in Keys
        BY <2>1, RequestsAssumption DEF RequestKey, Bodies, Keys
      <4> QED
        BY <2>1, <3>1, <4>1 DEF Backed, RequestKey
    <3> DEFINE changes == <<ApprovedParams(BodyOf[id])>>
               s == [Idle EXCEPT !.kind = "apply", !.pc = "apply", !.changes = changes]
    <3>3. OpOrigin(s, B)
      <4>1. s.changes = changes /\ s.pc = "apply"
        BY DEF Idle
      <4>2. \A i \in DOMAIN changes: changes[i] = ApprovedParams(BodyOf[id])
        OBVIOUS
      <4>3. KeyOf(ApprovedParams(BodyOf[id])) = RequestKey(id)
        BY <2>1, ApprovedParamsType
      <4> HIDE DEF changes, s
      <4> QED
        BY <3>2, <4>1, <4>2, <4>3 DEF OpOrigin, Writing
    <3>4. op' = [op EXCEPT ![h] = s] /\ records' = records
      BY <1>4, <2>3 DEF StartsApply, SaveDecision
    <3> HIDE DEF s
    <3> QED
      BY <1>1, <2>1, <3>3, <3>4 DEF Origin, RequestTypeInv, TypeInv, TypeOK
  <2> QED
    BY <1>4, <2>2, <2>3 DEF SaveDecision
<1>5. CASE RequestsCrash
  BY <1>2, <1>5 DEF RequestsCrash, Next
<1>6. CASE AttendanceStep
  BY <1>2, <1>6, AttendanceSteps
<1>7. CASE \/ RequestCalls \/ \E h \in Requests: ReviewReturns(h)
           \/ UNCHANGED allVars
  BY <1>3, <1>7 DEF RequestCalls, Create, Review, Cancel, ReadsPending, ReviewReturns, allVars
<1> QED
  BY <1>4, <1>5, <1>6, <1>7 DEF RequestsNext, AttendanceStep

\* A day shows a regularization only because of an approval, for any number of
\* handlers, requests and crashes: OnlyApprovedIsApplied.
THEOREM OnlyApprovedTheorem == RequestsSpec => []OnlyApprovedIsApplied
<1>1. RequestsInit => Origin(Backed)
  BY IdleOrigin DEF RequestsInit, Init, Origin
<1>2. RequestTypeInv /\ DecideInv /\ Origin(Backed) /\ [RequestsNext]_allVars => Origin(Backed)'
  BY BackedStep
<1>3. Origin(Backed) => OnlyApprovedIsApplied
  BY DEF Origin, Backed, OnlyApprovedIsApplied
<1> QED
  BY <1>1, <1>2, <1>3, RequestTypeInvariance, DecideInvariance, PTL DEF RequestsSpec

-----------------------------------------------------------------------------
(* Approvals.                                                              *)
(*                                                                         *)
(* From the save of an approval to the write of its record the approving   *)
(* handler carries it.  It loses it only where applyRecord throws: in a    *)
(* shift lookup that fails, or in an insert for a day that got a record    *)
(* since upsert looked it up, which disturbs the day.                      *)

\* Handler h carries the approval of request id.
Carries(h, id) ==
    /\ review[h].pc = "apply" /\ review[h].id = id
    /\ op[h].kind = "apply" /\ op[h].changes = <<ApprovedParams(BodyOf[id])>>
    /\ op[h].pc \in Writing => op[h].key = RequestKey(id)

\* The approval of request id has to show on its day.
Awaited(id) ==
    /\ id \notin interrupted
    /\ requestStatus[id] = "approved" /\ BodyOf[id].type # "overtime"
    /\ RequestKey(id) \notin disturbed \cup ShiftLookupFails

ApplyInv ==
    /\ \A h \in Crons: review[h] = NoReview
    /\ \A h \in Handlers: review[h].pc = "save" => op[h].kind = "idle"
    /\ \A id \in RequestIds: Awaited(id) =>
         IsDecision(records[RequestKey(id)]) \/ \E h \in Handlers: Carries(h, id)

\* An approval puts its handler into applyRecord, like a correction does.
LEMMA ApprovalBegins ==
    ASSUME RequestTypeInv, ApplyInv, NEW h \in Requests, SaveDecision(h)
    PROVE  /\ h \in Handlers /\ review[h].id \in RequestIds
           /\ requestStatus' = [requestStatus EXCEPT ![review[h].id] = review[h].decision]
           /\ \/ EndsReview(h) /\ UNCHANGED vars
                 /\ (review[h].decision # "approved" \/ BodyOf[review[h].id].type = "overtime")
              \/ /\ review' = [review EXCEPT ![h].pc = "apply"]
                 /\ \E s: /\ Begin(h, s) /\ finalizing' = finalizing
                          /\ s.kind = "apply" /\ s.pc = "apply" /\ s.rows = {}
                          /\ s.changes = <<ApprovedParams(BodyOf[review[h].id])>>
<1>1. h \in Handlers /\ review[h].pc = "save" /\ review[h].id \in RequestIds
  BY DEF Handlers, SaveDecision, RequestTypeInv, ReviewSound
<1>2. /\ requestStatus' = [requestStatus EXCEPT ![review[h].id] = review[h].decision]
      /\ UNCHANGED <<today, punches, records, finalizing, crashes, disturbed>>
  BY DEF SaveDecision
<1>3. CASE review[h].decision = "approved" /\ BodyOf[review[h].id].type # "overtime"
  <2> DEFINE s == [Idle EXCEPT !.kind = "apply", !.pc = "apply",
                               !.changes = <<ApprovedParams(BodyOf[review[h].id])>>]
  <2>1. StartsApply(h, review[h].id)
    BY <1>3 DEF SaveDecision
  <2>2. Begin(h, s) /\ review' = [review EXCEPT ![h].pc = "apply"]
    BY <1>1, <1>2, <2>1 DEF StartsApply, Begin, ApplyInv
  <2>3. /\ s.kind = "apply" /\ s.pc = "apply" /\ s.rows = {}
        /\ s.changes = <<ApprovedParams(BodyOf[review[h].id])>>
    BY DEF Idle
  <2> HIDE DEF s
  <2> QED
    BY <1>1, <1>2, <2>2, <2>3
<1>4. CASE ~(review[h].decision = "approved" /\ BodyOf[review[h].id].type # "overtime")
  <2>1. EndsReview(h)
    BY <1>4 DEF SaveDecision
  <2> QED
    BY <1>1, <1>2, <1>4, <2>1 DEF EndsReview, vars
<1> QED
  BY <1>3, <1>4

\* What is proved of the records of Attendance holds with reviews and
\* cancellations as well.
LEMMA RequestsKeepRecords ==
    ASSUME RequestTypeInv, ApplyInv, DecisionInv, RecordInv, [RequestsNext]_allVars
    PROVE  DecisionInv' /\ RecordInv'
<1>0. TypeInv
  BY DEF RequestTypeInv
<1>1. ASSUME [Next]_vars PROVE DecisionInv' /\ RecordInv'
  BY <1>0, <1>1, DecisionStep, RecordStep
<1>2. ASSUME NEW h \in Requests, SaveDecision(h) PROVE DecisionInv' /\ RecordInv'
  <2>1. CASE UNCHANGED vars
    BY <1>1, <2>1
  <2>2. ASSUME NEW s, h \in Handlers, Begin(h, s), s.kind = "apply", s.pc = "apply", s.rows = {}
        PROVE  DecisionInv' /\ RecordInv'
    <3>1. RecordInv'
      <4>1. Local(s)
        BY <2>2 DEF Local, Recomputing, Writing
      <4> QED
        BY <1>0, <2>2, <4>1, BeginKeepsRecords DEF Writing
    <3>2. DecisionInv'
      <4>1. op'[h] = s /\ op' = [op EXCEPT ![h] = s] /\ UNCHANGED <<records, disturbed>>
        BY <1>0, <2>2 DEF Begin, TypeInv, TypeOK
      <4>2. Relies(h)'
        BY <2>2, <4>1, ApartRelies DEF Writing
      <4> QED
        BY <1>0, <2>2, <4>1, <4>2, QuietStep
    <3> QED
      BY <3>1, <3>2
  <2> QED
    BY <1>2, <2>1, <2>2, ApprovalBegins
<1>3. CASE RequestsCrash
  BY <1>1, <1>3 DEF RequestsCrash, Next
<1>4. CASE AttendanceStep
  BY <1>1, <1>4, AttendanceSteps
<1>5. CASE \/ RequestCalls \/ \E h \in Requests: ReviewReturns(h)
           \/ UNCHANGED allVars
  <2>1. UNCHANGED vars
    BY <1>5 DEF RequestCalls, Create, Review, Cancel, ReadsPending, ReviewReturns, allVars
  <2> QED
    BY <1>1, <2>1
<1> QED
  BY <1>2, <1>3, <1>4, <1>5 DEF RequestsNext, AttendanceStep

\* Until its record is written, the next await of the approving handler keeps
\* the approval.
LEMMA ApprovalGoesOn ==
    ASSUME RequestTypeInv, DecisionInv, RecordInv, NEW h \in Handlers, NEW id \in RequestIds,
           Carries(h, id), RequestKey(id) \notin disturbed' \cup ShiftLookupFails,
           disturbed \subseteq disturbed', Step(h), UNCHANGED requestVars
    PROVE  IsDecision(records'[RequestKey(id)]) \/ Carries(h, id)'
<1>k. PICK k: k = RequestKey(id)
  OBVIOUS
<1>o. PICK o: o = op[h]
  OBVIOUS
<1>1. /\ o \in Ops /\ OpSound(o) /\ Sees(h) /\ Relies(h) /\ op \in [Handlers -> Ops]
      /\ records \in [Keys -> Records \cup {Null}]
  BY <1>o DEF RequestTypeInv, TypeInv, TypeOK, RecordInv, DecisionInv
<1>2. /\ o.kind = "apply" /\ o.changes = <<ApprovedParams(BodyOf[id])>>
      /\ o.pc \in Writing => o.key = k
      /\ review[h].pc = "apply" /\ review[h].id = id /\ review' = review
      /\ k \in Keys /\ k \notin disturbed \cup ShiftLookupFails
  BY <1>k, <1>o, RequestsAssumption DEF Carries, requestVars, RequestKey, Bodies, Keys
<1>3. Head(o.changes) = ApprovedParams(BodyOf[id]) /\ KeyOf(Head(o.changes)) = k
      /\ o.changes # <<>>
  BY <1>2, <1>k, ApprovedParamsType
<1>4. ASSUME NEW s, Goto(h, s), s.kind = "apply", s.changes = o.changes,
             s.pc \in Writing => s.key = k
      PROVE  Carries(h, id)'
  <2>1. op'[h] = s
    BY <1>1, <1>4 DEF Goto
  <2> QED
    BY <1>2, <1>4, <1>k, <2>1 DEF Carries, RequestKey
<1>5. CASE ApplyReads(h)
  <2>1. PICK data: Goto(h, [o EXCEPT !.pc = "upsert", !.key = k, !.data = data])
    BY <1>3, <1>5, <1>o DEF ApplyReads
  <2>2. PICK s: s = [o EXCEPT !.pc = "upsert", !.key = k, !.data = data]
    OBVIOUS
  <2>3. s.kind = "apply" /\ s.changes = o.changes /\ s.key = k
    BY <1>1, <1>2, <2>2 DEF Ops
  <2> QED
    BY <1>4, <2>1, <2>2, <2>3
<1>6. CASE UpsertLooksUp(h)
  <2>1. PICK exists: Goto(h, [o EXCEPT !.pc = "write", !.exists = exists])
    BY <1>6, <1>o DEF UpsertLooksUp
  <2>2. PICK s: s = [o EXCEPT !.pc = "write", !.exists = exists]
    OBVIOUS
  <2>3. s.kind = "apply" /\ s.changes = o.changes /\ s.key = k
    BY <1>1, <1>2, <1>6, <1>o, <2>2 DEF Ops, UpsertLooksUp, Writing
  <2> QED
    BY <1>4, <2>1, <2>2, <2>3
<1>7. CASE UpsertWrites(h)
  <2>1. o.key = k /\ records' = [records EXCEPT ![k] = o.data] /\ o.pc = "write"
    BY <1>2, <1>7, <1>o DEF UpsertWrites, Writing
  <2>2. IsDecision(o.data)
    BY <1>1, <1>2, <1>o, <2>1 DEF Relies, Writing
  <2> QED
    BY <1>1, <1>2, <1>k, <2>1, <2>2
<1>8. ~UpsertFails(h)
  <2> SUFFICES ASSUME UpsertFails(h) PROVE FALSE
    OBVIOUS
  <2>1. o.pc = "write" /\ ~o.exists /\ records[o.key] # Null
    BY <1>o DEF UpsertFails
  <2>2. o.exists <=> records[k] # Null
    BY <1>1, <1>2, <1>o, <2>1 DEF Sees, Writing
  <2> QED
    BY <1>2, <2>1, <2>2 DEF Writing
<1>9. ~ApplyFails(h) /\ ~AllApplied(h)
  BY <1>2, <1>3, <1>o DEF ApplyFails, AllApplied
<1>10. ~IngestSteps(h) /\ ~FinalizerSteps(h)
  <2>1. o.pc \in {"apply", "upsert", "write"}
    BY <1>1, <1>2 DEF OpSound, Ops, Steps
  <2> QED
    BY <1>o, <2>1
    DEF IngestSteps, SkipPunch, RejectPunch, DuplicatePunch, NewPunch, InsertPunch,
        InsertPunchFails, RelabelDay, RelabelRow, AllRecomputed, RecomputeSkips,
        RecomputeStarts, RecomputeReads, AtItem, AtKeys, AtRecompute, FinalizerSteps,
        FinalizeDay, FinalizeEmployee, FinalizeEmployeeFails, AllFinalized
<1> QED
  BY <1>5, <1>6, <1>7, <1>8, <1>9, <1>10, <1>k DEF Step, WriteSteps

\* Handlers take their steps alone, and an idle one takes none.
LEMMA StepsAlone ==
    ASSUME TypeInv, NEW h \in Handlers, Step(h) \/ Request(h) \/ StartFinalizer(h)
    PROVE  \A g \in Handlers \ {h}: op'[g] = op[g]
<1>1. CASE Request(h) \/ StartFinalizer(h)
  <2>1. PICK s: Begin(h, s)
    BY <1>1 DEF Request, RecordPunch, RecordBatchPunches, RecordDevicePunches, Ingest, Correct,
                StartFinalizer
  <2> QED
    BY <2>1 DEF Begin, TypeInv, TypeOK
<1>2. CASE Step(h)
  <2>1. PICK s: op' = [op EXCEPT ![h] = s]
    BY <1>2, StepShape DEF Leave
  <2> QED
    BY <2>1 DEF TypeInv, TypeOK
<1> QED
  BY <1>1, <1>2

LEMMA IdleStands ==
    ASSUME TypeInv, NEW h \in Handlers, op[h].kind = "idle"
    PROVE  ~Step(h)
<1>1. op[h].pc = "idle"
  BY DEF TypeInv, OpSound
<1> QED
  BY <1>1
  DEF Step, IngestSteps, SkipPunch, RejectPunch, DuplicatePunch, NewPunch, InsertPunch,
      InsertPunchFails, RelabelDay, RelabelRow, AllRecomputed, RecomputeSkips,
      RecomputeStarts, RecomputeReads, AtItem, AtKeys, AtRecompute, FinalizerSteps,
      FinalizeDay, FinalizeEmployee, FinalizeEmployeeFails, AllFinalized,
      WriteSteps, UpsertLooksUp, UpsertWrites, UpsertFails, ApplyReads, ApplyFails, AllApplied

\* A day stays disturbed.
LEMMA DisturbedStays ==
    ASSUME [Next]_vars
    PROVE  disturbed \subseteq disturbed'
<1>1. ASSUME NEW h, Step(h) PROVE disturbed \subseteq disturbed'
  <2>1. CASE IngestSteps(h)
    BY <2>1
    DEF IngestSteps, SkipPunch, RejectPunch, DuplicatePunch, NewPunch, InsertPunch,
        InsertPunchFails, RelabelDay, RelabelRow, AllRecomputed, RecomputeSkips,
        RecomputeStarts, RecomputeReads, Goto, Writes, Throw, Return
  <2>2. CASE WriteSteps(h) \/ FinalizerSteps(h)
    BY <2>2
    DEF WriteSteps, UpsertLooksUp, UpsertWrites, UpsertFails, ApplyReads, ApplyFails,
        AllApplied, FinalizerSteps, FinalizeDay, FinalizeEmployee, FinalizeEmployeeFails,
        AllFinalized, Goto, Writes, Throw, Return
  <2> QED
    BY <1>1, <2>1, <2>2 DEF Step
<1>2. ASSUME NEW h, Request(h) \/ StartFinalizer(h) PROVE disturbed \subseteq disturbed'
  BY <1>2 DEF Request, RecordPunch, RecordBatchPunches, RecordDevicePunches, Ingest, Correct,
              StartFinalizer, Begin
<1> QED
  BY <1>1, <1>2 DEF Next, DayPasses, Crash, vars

\* ApplyInv is inductive: an approval in hands stays there until it shows on
\* its day, where nothing but a disturbance can then replace it.
LEMMA ApplyStep ==
    ASSUME RequestTypeInv, DecisionInv, RecordInv, ApplyInv, [RequestsNext]_allVars
    PROVE  ApplyInv'
<1>0. /\ TypeInv /\ review \in [Handlers -> Reviews] /\ Crons \cap Requests = {}
      /\ requestStatus \in [RequestIds -> RequestStatuses \cup {Null}]
      /\ op \in [Handlers -> Ops] /\ NoReview.pc = "idle"
  BY AttendanceAssumption DEF RequestTypeInv, TypeInv, TypeOK, NoReview
<1>d. \A id \in RequestIds: RequestKey(id) \in Keys
  BY RequestsAssumption DEF RequestKey, Bodies, Keys
<1>1. ASSUME [Next]_vars, requestStatus' = requestStatus, interrupted \subseteq interrupted',
             NEW id \in RequestIds, Awaited(id)'
      PROVE  /\ Awaited(id)
             /\ IsDecision(records[RequestKey(id)]) => IsDecision(records'[RequestKey(id)])
  <2>1. disturbed \subseteq disturbed'
    BY <1>1, DisturbedStays
  <2>2. Awaited(id) /\ RequestKey(id) \notin disturbed'
    BY <1>1, <2>1 DEF Awaited, RequestKey
  <2> QED
    BY <1>0, <1>1, <1>d, <2>2, DecisionsSurvive
<1>2. ASSUME UNCHANGED vars, requestStatus' = requestStatus, interrupted' = interrupted,
             NEW h \in Handlers, NEW r, review' = [review EXCEPT ![h] = r],
             op[h].kind = "idle", h \notin Crons
      PROVE  ApplyInv'
  <2>1. \A g \in Handlers \ {h}: review'[g] = review[g]
    BY <1>0, <1>2
  <2>2. op' = op /\ records' = records /\ [Next]_vars
    BY <1>2 DEF vars
  <2>3. ASSUME NEW id \in RequestIds, NEW g \in Handlers, Carries(g, id) PROVE Carries(g, id)'
    <3>1. g # h
      BY <1>2, <2>3 DEF Carries
    <3> QED
      BY <2>1, <2>2, <2>3, <3>1 DEF Carries, RequestKey
  <2>4. \A id \in RequestIds: Awaited(id)' =>
          IsDecision(records'[RequestKey(id)]) \/ \E g \in Handlers: Carries(g, id)'
    BY <1>1, <1>2, <2>2, <2>3 DEF ApplyInv
  <2>5. \A g \in Crons: review'[g] = NoReview
    BY <1>2, <2>1 DEF ApplyInv, Handlers
  <2>6. \A g \in Handlers: review'[g].pc = "save" => op'[g].kind = "idle"
    BY <1>2, <2>1, <2>2 DEF ApplyInv
  <2> QED
    BY <2>4, <2>5, <2>6 DEF ApplyInv, RequestKey, IsDecision
<1>3. ASSUME NEW id \in RequestIds, Create(id) PROVE ApplyInv'
  <2>1. /\ requestStatus'[id] # "approved"
        /\ \A i \in RequestIds \ {id}: requestStatus'[i] = requestStatus[i]
        /\ UNCHANGED <<op, records, disturbed, review, interrupted>>
    BY <1>0, <1>3 DEF Create, vars
  <2>2. \A i \in RequestIds: Awaited(i)' => Awaited(i)
    BY <2>1 DEF Awaited, RequestKey
  <2>3. \A i \in RequestIds, h \in Handlers: Carries(h, i)' <=> Carries(h, i)
    BY <2>1 DEF Carries, RequestKey
  <2> QED
    BY <2>1, <2>2, <2>3 DEF ApplyInv, RequestKey, IsDecision
<1>4. ASSUME NEW h \in Requests, NEW id \in RequestIds, NEW decision,
             ReadsPending(h, id, decision)
      PROVE  ApplyInv'
  <2>1. op[h].kind = "idle" /\ h \in Handlers /\ h \notin Crons
    BY <1>0, <1>4 DEF ReadsPending, Idle, Handlers
  <2> QED
    BY <1>2, <1>4, <2>1 DEF ReadsPending
<1>5. ASSUME NEW h \in Requests, ReviewReturns(h) PROVE ApplyInv'
  <2>1. op[h].kind = "idle" /\ h \in Handlers /\ h \notin Crons
    BY <1>0, <1>5 DEF ReviewReturns, Idle, Handlers
  <2> QED
    BY <1>2, <1>5, <2>1 DEF ReviewReturns
<1>6. ASSUME NEW h \in Requests, SaveDecision(h) PROVE ApplyInv'
  <2>i. PICK id: id = review[h].id
    OBVIOUS
  <2>0. h \in Handlers /\ h \notin Crons /\ id \in RequestIds
        /\ op[h].kind = "idle" /\ review[h].pc = "save" /\ interrupted' = interrupted
    BY <1>0, <1>6, <2>i, ApprovalBegins DEF SaveDecision, ApplyInv
  <2>1. /\ requestStatus'[id] = review[h].decision
        /\ \A j \in RequestIds \ {id}: requestStatus'[j] = requestStatus[j]
    BY <1>0, <1>6, <2>0, <2>i, ApprovalBegins
  <2>2. /\ \A g \in Handlers \ {h}: review'[g] = review[g] /\ op'[g] = op[g]
        /\ UNCHANGED <<records, disturbed>> /\ review'[h].pc # "save"
        /\ (review[h].decision # "approved" \/ BodyOf[id].type = "overtime") \/ Carries(h, id)'
    <3>1. CASE EndsReview(h) /\ UNCHANGED vars
                 /\ (review[h].decision # "approved" \/ BodyOf[id].type = "overtime")
      BY <1>0, <2>0, <3>1 DEF EndsReview, vars
    <3>2. ASSUME NEW s, Begin(h, s), s.kind = "apply", s.pc = "apply",
                 s.changes = <<ApprovedParams(BodyOf[id])>>,
                 review' = [review EXCEPT ![h].pc = "apply"]
          PROVE  /\ \A g \in Handlers \ {h}: review'[g] = review[g] /\ op'[g] = op[g]
                 /\ UNCHANGED <<records, disturbed>> /\ review'[h].pc # "save"
                 /\ Carries(h, id)'
      <4>1. op'[h] = s /\ UNCHANGED <<records, disturbed>>
            /\ \A g \in Handlers \ {h}: review'[g] = review[g] /\ op'[g] = op[g]
        BY <1>0, <2>0, <3>2 DEF Begin
      <4>2. review'[h].pc = "apply" /\ review'[h].id = id
        BY <1>0, <2>0, <2>i, <3>2 DEF Reviews
      <4> QED
        BY <3>2, <4>1, <4>2 DEF Carries, Writing
    <3> QED
      BY <1>6, <2>i, <3>1, <3>2, ApprovalBegins
  <2>3. ASSUME NEW j \in RequestIds, Awaited(j)'
        PROVE  IsDecision(records'[RequestKey(j)]) \/ \E g \in Handlers: Carries(g, j)'
    <3>1. CASE j = id
      BY <2>0, <2>1, <2>2, <2>3, <3>1 DEF Awaited
    <3>2. CASE j # id
      <4>1. Awaited(j)
        BY <2>0, <2>1, <2>2, <2>3, <3>2 DEF Awaited, RequestKey
      <4>2. ASSUME NEW g \in Handlers, Carries(g, j) PROVE Carries(g, j)'
        <5>1. g # h
          BY <2>0, <4>2 DEF Carries
        <5> QED
          BY <2>2, <4>2, <5>1 DEF Carries, RequestKey
      <4> QED
        BY <2>2, <4>1, <4>2 DEF ApplyInv
    <3> QED
      BY <3>1, <3>2
  <2>4. \A g \in Crons: review'[g] = NoReview
    BY <2>0, <2>2 DEF ApplyInv, Handlers
  <2>5. \A g \in Handlers: review'[g].pc = "save" => op'[g].kind = "idle"
    BY <2>2 DEF ApplyInv
  <2> QED
    BY <2>3, <2>4, <2>5 DEF ApplyInv, RequestKey, IsDecision
<1>7. CASE RequestsCrash
  <2>1. /\ [Next]_vars /\ requestStatus' = requestStatus /\ records' = records
        /\ interrupted \subseteq interrupted' /\ review' = [h \in Handlers |-> NoReview]
        /\ \A id \in RequestIds \ interrupted', h \in Handlers: ~Carries(h, id)
    BY <1>7 DEF RequestsCrash, Next, Crash, Carries
  <2>2. \A id \in RequestIds: Awaited(id)' => IsDecision(records'[RequestKey(id)])
    BY <1>1, <2>1 DEF ApplyInv, Awaited
  <2>3. \A h \in Crons: review'[h] = NoReview
    BY <2>1 DEF Handlers
  <2>4. \A h \in Handlers: review'[h].pc # "save"
    BY <1>0, <2>1
  <2> QED
    BY <2>2, <2>3, <2>4 DEF ApplyInv, RequestKey, IsDecision
<1>8. CASE AttendanceStep
  <2>1. [Next]_vars /\ UNCHANGED <<requestStatus, review, interrupted>> /\ UNCHANGED requestVars
    BY <1>8, AttendanceSteps DEF requestVars
  <2>2. ASSUME NEW h \in Handlers, review[h].pc = "save" PROVE op'[h].kind = "idle"
    <3>1. op[h].kind = "idle" /\ review[h] # NoReview
      BY <1>0, <2>2 DEF ApplyInv
    <3>2. op'[h] = op[h]
      <4>1. ASSUME NEW g \in Handlers,
                   \/ Step(g)
                   \/ review[g] = NoReview /\ Request(g)
                   \/ g \in Crons /\ StartFinalizer(g)
            PROVE  op'[h] = op[h]
        <5>1. g # h
          BY <1>0, <3>1, <4>1, IdleStands DEF ApplyInv
        <5> QED
          BY <1>0, <4>1, <5>1, StepsAlone
      <4>2. CASE DayPasses
        BY <4>2 DEF DayPasses
      <4> QED
        BY <1>8, <4>1, <4>2 DEF AttendanceStep, Handlers
    <3> QED
      BY <3>1, <3>2
  <2>3. ASSUME NEW id \in RequestIds, Awaited(id)'
        PROVE  IsDecision(records'[RequestKey(id)]) \/ \E h \in Handlers: Carries(h, id)'
    <3>1. /\ Awaited(id) /\ RequestKey(id) \notin disturbed' \cup ShiftLookupFails
          /\ IsDecision(records[RequestKey(id)]) => IsDecision(records'[RequestKey(id)])
      BY <1>1, <2>1, <2>3 DEF Awaited, RequestKey
    <3>2. ASSUME NEW h \in Handlers, Carries(h, id)
          PROVE  IsDecision(records'[RequestKey(id)]) \/ Carries(h, id)'
      <4>1. op[h].kind = "apply" /\ review[h] # NoReview
        BY <1>0, <3>2 DEF Carries
      <4>2. CASE Step(h)
        BY <2>1, <3>1, <3>2, <4>2, ApprovalGoesOn, DisturbedStays
      <4>3. CASE op'[h] = op[h]
        BY <2>1, <3>2, <4>3 DEF Carries, RequestKey
      <4>4. ASSUME NEW g \in Handlers, g # h, Step(g) \/ Request(g) \/ StartFinalizer(g)
            PROVE  op'[h] = op[h]
        BY <1>0, <4>4, StepsAlone
      <4>5. ~(Request(h) \/ StartFinalizer(h))
        BY <4>1 DEF Request, RecordPunch, RecordBatchPunches, RecordDevicePunches, Ingest,
                    Correct, StartFinalizer, Begin
      <4>6. CASE DayPasses
        BY <4>3, <4>6 DEF DayPasses
      <4> QED
        BY <1>8, <4>2, <4>3, <4>4, <4>5, <4>6 DEF AttendanceStep, Handlers
    <3> QED
      BY <3>1, <3>2 DEF ApplyInv
  <2>4. \A h \in Crons: review'[h] = NoReview
    BY <2>1 DEF ApplyInv
  <2>5. \A h \in Handlers: review'[h].pc = "save" => op'[h].kind = "idle"
    BY <2>1, <2>2
  <2> QED
    BY <2>3, <2>4, <2>5 DEF ApplyInv, RequestKey, IsDecision
<1>9. CASE UNCHANGED allVars
  BY <1>9 DEF allVars, vars, requestVars, ApplyInv, Awaited, Carries, RequestKey, IsDecision
<1> QED
  BY <1>3, <1>4, <1>5, <1>6, <1>7, <1>8, <1>9
  DEF RequestsNext, RequestCalls, Review, Cancel, AttendanceStep

\* No request is reviewed in the beginning.
LEMMA ApplyInit == RequestsInit => ApplyInv
BY RequestsAssumption
DEF RequestsInit, Init, ApplyInv, Awaited, NoReview, Handlers, RequestStatuses, FinalStatuses

\* Once the approving call is over, the day of an approved request shows a
\* decision, whatever punches, batches, corrections, reviews and finalizer
\* runs interleave with it: ApprovedIsApplied.
THEOREM ApprovedTheorem == RequestsSpec => []ApprovedIsApplied
<1>1. RequestsInit => DecisionInv
  BY DecisionInvInit DEF RequestsInit
<1>2. RequestsInit => RecordInv
  BY RecordInvInit DEF RequestsInit
<1>3. RequestTypeInv /\ DecisionInv /\ RecordInv /\ ApplyInv /\ [RequestsNext]_allVars
        => DecisionInv' /\ RecordInv' /\ ApplyInv'
  BY ApplyStep, RequestsKeepRecords
<1>4. ApplyInv => ApprovedIsApplied
  BY DEF ApplyInv, Awaited, Carries, ApprovedIsApplied
<1> QED
  BY <1>1, <1>2, <1>3, <1>4, ApplyInit, RequestTypeInvariance, PTL DEF RequestsSpec
=============================================================================
