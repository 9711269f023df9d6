---------------------------- MODULE ServiceCalls ----------------------------
(***************************************************************************)
(* How the handlers of the services run: every request is handled in       *)
(* steps, one per await that writes, and the steps of different handlers   *)
(* interleave.  A handler keeps what it read in its local state.           *)
(***************************************************************************)
EXTENDS Integers

CONSTANTS
    Handlers,       \* BOUND: requests at a time
    Budgets,        \* BOUND: requests of every service, and crashes, of a behaviour
    Null,
    Undefined       \* a property a dto does not have

Services == {"directory", "employees", "calendar", "crash"}

ASSUME CallsAssumption ==
    /\ Budgets \subseteq [Services -> Nat]
    /\ Null # Undefined /\ Null \notin Handlers

VARIABLES
    op,         \* the local state of every handler; pc names its next step
    budget      \* requests and crashes left

calls == <<op, budget>>

Idle == [pc |-> "idle"]

CallsInit ==
    /\ op = [h \in Handlers |-> Idle]
    /\ budget \in Budgets

At(h, pc) == op[h].pc = pc

Expected(service) == budget[service] > 0

Spend(service) == budget' = [budget EXCEPT ![service] = @ - 1]

\* An idle handler takes a request.
Ready(h, service) == At(h, "idle") /\ Expected(service)

\* The request's reads and checks up to the first write are part of its first
\* step: they only throw.
Begin(h, service, state) ==
    /\ Spend(service)
    /\ op' = [op EXCEPT ![h] = state]

\* A request whose checks nothing can invalidate before its only write.
Instant(service) == Spend(service) /\ UNCHANGED op

Goto(h, state) ==
    /\ op' = [op EXCEPT ![h] = state]
    /\ UNCHANGED budget

\* The request is answered, with a result or an error.
Finish(h) == Goto(h, Idle)

Crash ==
    /\ Expected("crash")
    /\ Spend("crash")
    /\ op' = [h \in Handlers |-> Idle]

\* An id that is not used yet: a new uuid.
FreshId(table) == CHOOSE id \in DOMAIN table: table[id] = Null
HasFreshId(table) == \E id \in DOMAIN table: table[id] = Null

\* The row an id has before the run, and none for the others.
FirstRow(ids, row) ==
    LET first == CHOOSE id \in ids: TRUE
    IN  [id \in ids |-> IF id = first THEN row ELSE Null]

\* what dto says, or else what the row read earlier says: dto ?? read.
Given(value, read) == IF value = Undefined THEN read ELSE value
=============================================================================
