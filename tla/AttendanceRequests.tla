-------------------------- MODULE AttendanceRequests -------------------------
(***************************************************************************)
(* AttendanceRequestService composed with AttendanceService: employees ask *)
(* for a regularization of a day, administrators approve or reject it, the *)
(* owner may cancel it, and an approval ends in applyRecord.  cancel and   *)
(* review read the request in one await and save it in another.            *)
(***************************************************************************)
EXTENDS Attendance

CONSTANTS
    RequestIds,         \* BOUND: the regularization requests
    BodyOf              \* what each of them asks for

RequestTypes ==
    {"missed_check_in", "missed_check_out", "manual_attendance", "absence", "overtime"}
FinalStatuses == {"approved", "rejected", "cancelled"}
RequestStatuses == {"pending"} \cup FinalStatuses

Bodies ==
    [user: Users, date: Dates, type: RequestTypes,
     requestedCheckInAt: Instant, requestedCheckOutAt: Instant,
     requestedStatus: AttendanceStatuses \cup {Null}]

ASSUME RequestsAssumption ==
    /\ BodyOf \in [RequestIds -> Bodies]
    /\ Null \notin RequestIds \cup RequestStatuses \cup AttendanceStatuses

\* manualCorrection and bulkCorrection pass a source of their own.
ASSUME CorrectionsAreManual ==
    \A changes \in Corrections: \A i \in DOMAIN changes: changes[i].source = "manual"

VARIABLES
    requestStatus,  \* attendance_requests: its status, Null before creation
    review,         \* per handler: the request it is reviewing or cancelling
    contended,      \* HISTORY: requests two handlers decided at the same time
    interrupted     \* HISTORY: requests whose approval a crash cut short

requestVars == <<requestStatus, review, contended, interrupted>>
allVars == <<vars, requestVars>>

NoReview == [pc |-> "idle", id |-> Null, decision |-> Null]

Reviews ==
    [pc: {"idle", "save", "apply"}, id: RequestIds \cup {Null},
     decision: FinalStatuses \cup {Null}]

RequestsTypeOK ==
    /\ TypeOK
    /\ requestStatus \in [RequestIds -> RequestStatuses \cup {Null}]
    /\ review \in [Handlers -> Reviews]
    /\ contended \subseteq RequestIds
    /\ interrupted \subseteq RequestIds

RequestsInit ==
    /\ Init
    /\ requestStatus = [id \in RequestIds |-> Null]
    /\ review = [h \in Handlers |-> NoReview]
    /\ contended = {}
    /\ interrupted = {}

-----------------------------------------------------------------------------
\* FAULT: a null column is passed on as null.
GivenNull(column) == column

\* A null column is left out of the parameters.
Given(column) == IF column = Null THEN Undefined ELSE column

\* The parameters applyApprovedRequest passes to applyRecord.
ApprovedParams(body) ==
    [user |-> body.user, date |-> body.date, source |-> "regularization",
     checkInAt |-> IF body.type \in {"missed_check_in", "manual_attendance"}
                   THEN Given(body.requestedCheckInAt) ELSE Undefined,
     checkOutAt |-> IF body.type \in {"missed_check_out", "manual_attendance"}
                    THEN Given(body.requestedCheckOutAt) ELSE Undefined,
     attendanceStatus |-> IF body.type = "absence" /\ body.requestedStatus = Null
                          THEN "absent" ELSE Given(body.requestedStatus)]

Create(id) ==
    /\ requestStatus[id] = Null
    /\ BodyOf[id].date <= today
    /\ requestStatus' = [requestStatus EXCEPT ![id] = "pending"]
    /\ UNCHANGED <<vars, review, contended, interrupted>>

\* FAULT: any created request passes.
ReadsAny(h, id, decision) ==
    /\ op[h] = Idle /\ review[h] = NoReview
    /\ requestStatus[id] # Null
    /\ review' = [review EXCEPT ![h] = [pc |-> "save", id |-> id, decision |-> decision]]
    /\ contended' = IF \E g \in Handlers: review[g].pc = "save" /\ review[g].id = id
                    THEN contended \cup {id} ELSE contended
    /\ UNCHANGED <<vars, requestStatus, interrupted>>

\* The read of cancel or review: only a pending request passes.
ReadsPending(h, id, decision) ==
    /\ op[h] = Idle /\ review[h] = NoReview
    /\ requestStatus[id] = "pending"
    /\ review' = [review EXCEPT ![h] = [pc |-> "save", id |-> id, decision |-> decision]]
    /\ contended' = IF \E g \in Handlers: review[g].pc = "save" /\ review[g].id = id
                    THEN contended \cup {id} ELSE contended
    /\ UNCHANGED <<vars, requestStatus, interrupted>>

Cancel(h, id) == ReadsPending(h, id, "cancelled")
Review(h, id) == \E decision \in {"approved", "rejected"}: ReadsPending(h, id, decision)

\* The call goes on to applyRecord.
StartsApply(h, id) ==
    /\ op' = [op EXCEPT ![h] =
                [Idle EXCEPT !.kind = "apply", !.pc = "apply",
                             !.changes = <<ApprovedParams(BodyOf[id])>>]]
    /\ review' = [review EXCEPT ![h].pc = "apply"]

EndsReview(h) == review' = [review EXCEPT ![h] = NoReview] /\ UNCHANGED op

\* FAULT: whatever the decision, it is applied.
SaveAndAlwaysApply(h) ==
    /\ review[h].pc = "save"
    /\ LET id == review[h].id
       IN  /\ requestStatus' = [requestStatus EXCEPT ![id] = review[h].decision]
           /\ IF BodyOf[id].type # "overtime" THEN StartsApply(h, id) ELSE EndsReview(h)
    /\ UNCHANGED <<today, punches, records, finalizing, crashes, disturbed,
                   contended, interrupted>>

\* FAULT: an approval without a requested status is not applied.
SaveAndApplyStatusOnly(h) ==
    /\ review[h].pc = "save"
    /\ LET id == review[h].id
       IN  /\ requestStatus' = [requestStatus EXCEPT ![id] = review[h].decision]
           /\ IF review[h].decision = "approved" /\ BodyOf[id].requestedStatus # Null
              THEN StartsApply(h, id) ELSE EndsReview(h)
    /\ UNCHANGED <<today, punches, records, finalizing, crashes, disturbed,
                   contended, interrupted>>

\* requestRepo.save writes the decision over whatever the row holds by now.
\* An approval goes on to applyRecord, except for overtime claims.
SaveDecision(h) ==
    /\ review[h].pc = "save"
    /\ LET id == review[h].id
           decision == review[h].decision
       IN  /\ requestStatus' = [requestStatus EXCEPT ![id] = decision]
           /\ IF decision = "approved" /\ BodyOf[id].type # "overtime"
              THEN StartsApply(h, id) ELSE EndsReview(h)
    /\ UNCHANGED <<today, punches, records, finalizing, crashes, disturbed,
                   contended, interrupted>>

\* applyRecord returned or threw.
ReviewReturns(h) ==
    /\ review[h].pc = "apply" /\ op[h] = Idle
    /\ review' = [review EXCEPT ![h] = NoReview]
    /\ UNCHANGED <<vars, requestStatus, contended, interrupted>>

RequestsCrash ==
    /\ Crash
    /\ review' = [h \in Handlers |-> NoReview]
    /\ interrupted' = interrupted \cup {id \in RequestIds:
         \E h \in Handlers: review[h].pc = "apply" /\ review[h].id = id}
    /\ UNCHANGED <<requestStatus, contended>>

RequestCalls ==
    \/ \E id \in RequestIds: Create(id)
    \/ \E h \in Requests, id \in RequestIds: Review(h, id) \/ Cancel(h, id)

RequestsNext ==
    \/ RequestCalls
    \/ \E h \in Requests: SaveDecision(h) \/ ReviewReturns(h)
    \/ RequestsCrash
    \/ /\ \/ \E h \in Requests: review[h] = NoReview /\ Request(h)
          \/ \E h \in Crons: StartFinalizer(h)
          \/ \E h \in Handlers: Step(h)
          \/ DayPasses
       /\ UNCHANGED requestVars

RequestsSpec == RequestsInit /\ [][RequestsNext]_allVars

-----------------------------------------------------------------------------
RequestKey(id) == <<BodyOf[id].user, BodyOf[id].date>>

\* A decided request keeps its decision, unless two handlers had both read
\* it as pending (cancel and review, or two reviews).
DecidedOnce ==
    [][\A id \in RequestIds:
          (requestStatus[id] \in FinalStatuses /\ requestStatus'[id] # requestStatus[id])
          => id \in contended]_allVars

\* Once the approving call is over, the day of an approved request shows a
\* decision: the approval's or a later administrator's, never what a punch
\* or the finalizer made of the day.  Left aside: calls a crash cut short,
\* days disturbed by an overlapping writer, overtime claims.
ApprovedIsApplied ==
    \A id \in RequestIds \ interrupted:
        (/\ requestStatus[id] = "approved" /\ BodyOf[id].type # "overtime"
         /\ RequestKey(id) \notin disturbed \cup ShiftLookupFails
         /\ \A h \in Handlers: review[h].id # id)
        => IsDecision(records[RequestKey(id)])

\* A day shows a regularization only because of an approval: one that was
\* rejected or cancelled, and never contended, leaves no trace on its day.
OnlyApprovedIsApplied ==
    \A k \in Keys:
        (records[k] # Null /\ records[k].source = "regularization") =>
            \E id \in RequestIds:
                /\ RequestKey(id) = k
                /\ requestStatus[id] = "approved" \/ id \in contended

\* attendance-request.service.ts lines 122 and 138: "Only pending requests
\* can be cancelled", "Request has already been reviewed".
OnlyPendingRequestsAreDecided ==
    [][\A id \in RequestIds:
          requestStatus[id] \in FinalStatuses => requestStatus'[id] = requestStatus[id]]_allVars
=============================================================================
