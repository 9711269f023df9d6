---------------------------- MODULE LedgerProofs ----------------------------
(***************************************************************************)
(* LeaveLedger proved for any employees, types, entitlements, months and   *)
(* numbers of handlers, transactions and crashes.                          *)
(*                                                                         *)
(* The properties are about the rows of the ledger.  Each invariant adds   *)
(* what a handler between its check and its insert relies on: RunInv that  *)
(* it works off what it found, OnceInv that what it checked is still so,   *)
(* MethodInv how the types it read credit, LumpInv that its lump is the    *)
(* only one.                                                               *)
(***************************************************************************)
EXTENDS LeaveLedger, TLAPS

\* What the pc of a handler says of its other fields.
OpSound(o) ==
    /\ o.pc \in {"save", "credit"} => o.key \in Keys /\ o.total \in Totals
    /\ o.pc \in {"find", "accrue", "insert"} => o.month \in Months
    /\ o.pc = "insert" => o.key \in o.todo

\* Allocations are never removed.
FoundAllocated(h) ==
    op[h].pc \in {"accrue", "insert"} =>
        /\ op[h].todo \subseteq op[h].found
        /\ \A k \in op[h].found: allocations[k] # Null /\ k[2] \in op[h].typeIds

TypeInv ==
    /\ TypeOK
    /\ \A h \in Handlers: OpSound(op[h]) /\ FoundAllocated(h)

-----------------------------------------------------------------------------
(* Types.                                                                  *)

\* What an insert into the ledger does to it.
LEMMA CreditAdds ==
    ASSUME IsABag(ledger), NEW entry, Credit(entry)
    PROVE  /\ IsABag(ledger)'
           /\ BagToSet(ledger)' = BagToSet(ledger) \cup {entry}
           /\ \A e: Copies(e)' = Copies(e) + IF e = entry THEN 1 ELSE 0
BY DEF Credit, IsABag, BagToSet, Copies, BagIn, SetToBag, (+)

\* How many rows there are of an entry is a number, zero if there is none.
LEMMA CopiesCount ==
    ASSUME IsABag(ledger), NEW entry
    PROVE  Copies(entry) \in Nat /\ (Copies(entry) = 0 <=> entry \notin BagToSet(ledger))
BY DEF IsABag, BagToSet, Copies, BagIn

\* An entitlement is no Null.
LEMMA NullIsNoTotal == Null \notin Totals /\ Totals \subseteq Int
<1>1. Totals \subseteq Int /\ Null \notin Int
  BY LeaveAssumption
<1> QED
  BY <1>1

\* Idle handlers are sound.
LEMMA IdleSound == Idle \in Ops /\ OpSound(Idle)
BY DEF Idle, Ops, OpSound

\* A step of one handler that keeps what it says of the others.
LEMMA OneMoves ==
    ASSUME TypeInv, NEW h \in Handlers, NEW state \in Ops, Goto(h, state), OpSound(state),
           \A k \in Keys: allocations[k] # Null => allocations'[k] # Null,
           state.pc \in {"accrue", "insert"} =>
              /\ state.todo \subseteq state.found
              /\ \A k \in state.found: allocations'[k] # Null /\ k[2] \in state.typeIds
    PROVE  /\ op' \in [Handlers -> Ops]
           /\ \A g \in Handlers: op'[g] = IF g = h THEN state ELSE op[g]
           /\ \A g \in Handlers: OpSound(op'[g]) /\ FoundAllocated(g)'
<1>1. \A g \in Handlers: op'[g] = IF g = h THEN state ELSE op[g]
  BY DEF Goto, TypeInv, TypeOK
<1>2. op' \in [Handlers -> Ops]
  BY DEF Goto, TypeInv, TypeOK
<1>3. ASSUME NEW g \in Handlers PROVE OpSound(op'[g]) /\ FoundAllocated(g)'
  <2>1. CASE g = h
    BY <1>1, <2>1 DEF FoundAllocated
  <2>2. CASE g # h
    <3>1. op'[g] = op[g] /\ op[g] \in Ops
      BY <1>1, <2>2 DEF TypeInv, TypeOK
    <3> QED
      BY <3>1 DEF TypeInv, FoundAllocated, Ops
  <2> QED
    BY <2>1, <2>2
<1> QED
  BY <1>1, <1>2, <1>3

\* A row that an action inserts is one of the table.
LEMMA EntryTyped ==
    ASSUME NEW key \in Keys, NEW entryType \in {"allocation", "accrual"} \cup TransactionTypes,
           NEW amount \in Int, NEW month \in Months \cup {Null}
    PROVE  /\ Entry(key, entryType, amount, month) \in Entries
           /\ Entry(key, entryType, amount, month).key = key
           /\ Entry(key, entryType, amount, month).entryType = entryType
           /\ Entry(key, entryType, amount, month).month = month
           /\ Entry(key, entryType, amount, month).amountDays = amount
BY DEF Entry, Entries

\* The rows that are inserted.
LEMMA LumpRow ==
    ASSUME TypeInv, NEW h \in Handlers, LumpCredits(h)
    PROVE  \E key \in Keys, total \in Totals:
             /\ key = op[h].key /\ total = op[h].total
             /\ Entry(key, "allocation", total, Null) \in Entries
             /\ Credit(Entry(key, "allocation", total, Null))
<1> PICK key \in Keys, total \in Totals: key = op[h].key /\ total = op[h].total
  BY DEF LumpCredits, TypeInv, OpSound
<1>1. Entry(key, "allocation", total, Null) \in Entries
  BY EntryTyped, LeaveAssumption
<1>2. Credit(Entry(key, "allocation", total, Null))
  BY DEF LumpCredits, Credit
<1> QED
  BY <1>1, <1>2

LEMMA AccrualRow ==
    ASSUME TypeInv, NEW h \in Handlers, RunInserts(h)
    PROVE  \E key \in Keys, month \in Months, amount \in Int:
             /\ key = op[h].key /\ month = op[h].month
             /\ amount \in MonthlyCredits(allocations[key])
             /\ Entry(key, "accrual", amount, month) \in Entries
             /\ Credit(Entry(key, "accrual", amount, month))
<1> PICK key \in Keys, month \in Months: key = op[h].key /\ month = op[h].month
  BY DEF RunInserts, TypeInv, TypeOK, Ops, OpSound
<1>1. allocations[key] \in Totals
  BY DEF RunInserts, TypeInv, TypeOK, OpSound, FoundAllocated
<1>2. MonthlyCredits(allocations[key]) \subseteq Int
  <2> PICK total \in Int: total = allocations[key]
    BY <1>1, NullIsNoTotal
  <2>1. total \div 12 \in Int
    OBVIOUS
  <2> QED
    BY <2>1 DEF MonthlyCredits
<1>3. PICK amount \in MonthlyCredits(allocations[key]):
        Credit(Entry(key, "accrual", amount, month))
  BY DEF RunInserts, Credit
<1>4. Entry(key, "accrual", amount, month) \in Entries
  BY <1>2, EntryTyped
<1> QED
  BY <1>2, <1>3, <1>4

\* Steps of a handler keep the types.
LEMMA StepKeepsTypes ==
    ASSUME TypeInv, NEW h \in Handlers, Step(h)
    PROVE  TypeInv'
<1> USE DEF history
<1>0. /\ TypeOK /\ op[h] \in Ops /\ OpSound(op[h]) /\ FoundAllocated(h)
      /\ Idle \in Ops /\ OpSound(Idle) /\ Idle.pc = "idle"
      /\ allocations \in [Keys -> Totals \cup {Null}] /\ Null \notin Totals
  BY IdleSound, NullIsNoTotal DEF TypeInv, TypeOK, Idle
<1>1. ASSUME NEW state \in Ops, Goto(h, state), OpSound(state),
             state.pc \in {"accrue", "insert"} =>
                /\ state.todo \subseteq state.found
                /\ \A k \in state.found: allocations[k] # Null /\ k[2] \in state.typeIds,
             UNCHANGED <<types, allocations, transactions, crashes, switched, interrupted>>,
             overlapped' \subseteq Keys \X Months,
             IsABag(ledger)' /\ BagToSet(ledger)' \subseteq Entries
      PROVE  TypeInv'
  <2>1. /\ op' \in [Handlers -> Ops]
        /\ \A g \in Handlers: OpSound(op'[g]) /\ FoundAllocated(g)'
    BY <1>1, OneMoves
  <2>2. TypeOK'
    BY <1>0, <1>1, <2>1 DEF TypeOK, OpSound
  <2> QED
    BY <2>1, <2>2 DEF TypeInv
<1>2. ASSUME UNCHANGED ledger PROVE IsABag(ledger)' /\ BagToSet(ledger)' \subseteq Entries
  BY <1>0, <1>2 DEF TypeOK, IsABag, BagToSet
<1>3. CASE AllocationSaves(h)
  <2> DEFINE state == IF op[h].lump /\ op[h].total > 0
                      THEN [op[h] EXCEPT !.pc = "credit"] ELSE Idle
  <2>1. state \in Ops /\ OpSound(state) /\ state.pc \in {"credit", "idle"}
    BY <1>0, <1>3 DEF AllocationSaves, Ops, OpSound
  <2>2. op[h].key \in Keys /\ op[h].total \in Totals
    BY <1>0, <1>3 DEF AllocationSaves, OpSound
  <2>3. allocations' = [allocations EXCEPT ![op[h].key] = op[h].total]
    BY <1>3 DEF AllocationSaves
  <2>4. Goto(h, state)
    BY <1>3 DEF AllocationSaves
  <2>5. \A k \in Keys: allocations[k] # Null => allocations'[k] # Null
    BY <1>0, <2>2, <2>3
  <2> HIDE DEF state
  <2>6. /\ op' \in [Handlers -> Ops]
        /\ \A g \in Handlers: OpSound(op'[g]) /\ FoundAllocated(g)'
    BY <2>1, <2>4, <2>5, OneMoves
  <2>7. allocations' \in [Keys -> Totals \cup {Null}]
    BY <1>0, <2>2, <2>3
  <2>8. UNCHANGED <<types, ledger, transactions, crashes, switched, interrupted, overlapped>>
    BY <1>3 DEF AllocationSaves
  <2>9. TypeOK'
    BY <1>0, <1>2, <2>6, <2>7, <2>8 DEF TypeOK, OpSound
  <2> QED
    BY <2>6, <2>9 DEF TypeInv
<1>4. CASE AllocationFails(h)
  BY <1>0, <1>1, <1>2, <1>4 DEF AllocationFails, TypeOK
<1>5. CASE LumpCredits(h)
  <2> PICK key \in Keys, total \in Totals:
             /\ Entry(key, "allocation", total, Null) \in Entries
             /\ Credit(Entry(key, "allocation", total, Null))
    BY <1>5, LumpRow
  <2>1. IsABag(ledger)' /\ BagToSet(ledger)' \subseteq Entries
    BY <1>0, CreditAdds DEF TypeOK
  <2> QED
    BY <1>0, <1>1, <1>5, <2>1 DEF LumpCredits, TypeOK
<1>6. CASE RunReadsAllocations(h)
  <2> DEFINE found == {k \in Keys: allocations[k] # Null /\ k[2] \in op[h].typeIds}
             state == [op[h] EXCEPT !.pc = "accrue", !.found = found, !.todo = found]
  <2>1. state \in Ops /\ OpSound(state)
    BY <1>0, <1>6 DEF RunReadsAllocations, Ops, OpSound
  <2>2. /\ state.todo \subseteq state.found
        /\ \A k \in state.found: allocations[k] # Null /\ k[2] \in state.typeIds
    BY <1>0 DEF Ops
  <2>3. Goto(h, state)
    BY <1>6 DEF RunReadsAllocations
  <2>4. UNCHANGED <<types, allocations, ledger, transactions, crashes, switched, interrupted,
                    overlapped>>
    BY <1>6 DEF RunReadsAllocations
  <2> HIDE DEF state
  <2> QED
    BY <1>0, <1>1, <1>2, <2>1, <2>2, <2>3, <2>4 DEF TypeOK
<1>7. CASE RunSkips(h)
  <2> PICK key \in op[h].todo: Goto(h, [op[h] EXCEPT !.todo = @ \ {key}])
    BY <1>7 DEF RunSkips
  <2> DEFINE state == [op[h] EXCEPT !.todo = @ \ {key}]
  <2>1. /\ state \in Ops /\ OpSound(state)
        /\ state.todo \subseteq state.found
        /\ \A k \in state.found: allocations[k] # Null /\ k[2] \in state.typeIds
    BY <1>0, <1>7 DEF RunSkips, Ops, OpSound, FoundAllocated
  <2>2. UNCHANGED <<types, allocations, ledger, transactions, crashes, switched, interrupted,
                    overlapped>>
    BY <1>7 DEF RunSkips
  <2> HIDE DEF state
  <2> QED
    BY <1>0, <1>1, <1>2, <2>1, <2>2 DEF TypeOK, state
<1>8. CASE RunChecks(h)
  <2> PICK key \in op[h].todo:
        /\ Goto(h, [op[h] EXCEPT !.pc = "insert", !.key = key])
        /\ overlapped' \subseteq overlapped \cup {<<key, op[h].month>>}
    BY <1>8 DEF RunChecks
  <2> DEFINE state == [op[h] EXCEPT !.pc = "insert", !.key = key]
  <2>1. /\ state \in Ops /\ OpSound(state)
        /\ state.todo \subseteq state.found
        /\ \A k \in state.found: allocations[k] # Null /\ k[2] \in state.typeIds
        /\ key \in Keys /\ op[h].month \in Months
    BY <1>0, <1>8 DEF RunChecks, Ops, OpSound, FoundAllocated
  <2>2. UNCHANGED <<types, allocations, ledger, transactions, crashes, switched, interrupted>>
    BY <1>8 DEF RunChecks
  <2>3. overlapped' \subseteq Keys \X Months
    BY <1>0, <2>1 DEF TypeOK
  <2> HIDE DEF state
  <2> QED
    BY <1>0, <1>1, <1>2, <2>1, <2>2, <2>3 DEF state
<1>9. CASE RunInserts(h)
  <2> PICK key \in Keys, month \in Months, amount \in Int:
             /\ Entry(key, "accrual", amount, month) \in Entries
             /\ Credit(Entry(key, "accrual", amount, month))
    BY <1>9, AccrualRow
  <2> DEFINE state == [op[h] EXCEPT !.pc = "accrue", !.key = Null, !.todo = @ \ {op[h].key}]
  <2>1. /\ state \in Ops /\ OpSound(state)
        /\ state.todo \subseteq state.found
        /\ \A k \in state.found: allocations[k] # Null /\ k[2] \in state.typeIds
    BY <1>0, <1>9 DEF RunInserts, Ops, OpSound, FoundAllocated
  <2>2. Goto(h, state)
    BY <1>9 DEF RunInserts
  <2>3. /\ UNCHANGED <<types, allocations, transactions, crashes,
                        switched, interrupted, overlapped>>
        /\ IsABag(ledger)' /\ BagToSet(ledger)' \subseteq Entries
    BY <1>0, <1>9, CreditAdds DEF RunInserts, TypeOK
  <2> HIDE DEF state
  <2> QED
    BY <1>0, <1>1, <2>1, <2>2, <2>3 DEF TypeOK
<1>10. CASE RunReturns(h)
  BY <1>0, <1>1, <1>2, <1>10 DEF RunReturns, TypeOK
<1> QED
  BY <1>3, <1>4, <1>5, <1>6, <1>7, <1>8, <1>9, <1>10 DEF Step

\* Requests on leave types touch nothing but their type.
LEMMA TypeRequestTouches ==
    ASSUME TypeInv, TypeRequests
    PROVE  /\ UNCHANGED <<allocations, ledger, op, transactions, crashes, interrupted, overlapped>>
           /\ types' \in [Types -> LeaveTypes \cup {Null}]
           /\ switched \subseteq switched' /\ switched' \subseteq Types
           /\ \A t \in Types: types[t] # Null =>
                /\ types'[t] # Null
                /\ t \notin switched' => types'[t].accrualMethod = types[t].accrualMethod
<1> USE DEF TypeRequests, history
<1>0. /\ types \in [Types -> LeaveTypes \cup {Null}]
      /\ switched \subseteq Types /\ Null \notin LeaveTypes
  BY LeaveAssumption DEF TypeInv, TypeOK
<1>1. ASSUME NEW t \in Types, RemoveType(t)
      PROVE  /\ types[t] \in LeaveTypes /\ [types[t] EXCEPT !.deleted = TRUE] \in LeaveTypes
             /\ types' = [types EXCEPT ![t] = [types[t] EXCEPT !.deleted = TRUE]]
  BY <1>0, <1>1 DEF RemoveType, Live, LeaveTypes
<1>2. ASSUME NEW t \in Types, NEW method \in AccrualMethods, NEW entitlement \in Totals,
             CreateType(t, method, entitlement)
      PROVE  /\ types[t] = Null
             /\ \E type \in LeaveTypes: types' = [types EXCEPT ![t] = type]
  BY <1>0, <1>2 DEF CreateType, LeaveTypes
<1>3. ASSUME NEW t \in Types, NEW method \in AccrualMethods, NEW entitlement \in Totals,
             UpdateType(t, method, entitlement)
      PROVE  /\ types[t] \in LeaveTypes
             /\ \E type \in LeaveTypes: /\ types' = [types EXCEPT ![t] = type]
                                        /\ type.accrualMethod = method
  <2> DEFINE type == [types[t] EXCEPT !.accrualMethod = method,
                                      !.annualEntitlementDays = entitlement]
  <2>1. types[t] \in LeaveTypes /\ type \in LeaveTypes /\ type.accrualMethod = method
    BY <1>0, <1>3 DEF UpdateType, Live, LeaveTypes
  <2>2. types' = [types EXCEPT ![t] = type]
    BY <1>0, <1>3 DEF UpdateType
  <2> QED
    BY <2>1, <2>2
<1>4. CASE \E t \in Types: RemoveType(t)
  <2> PICK t \in Types: RemoveType(t)
    BY <1>4
  <2>1. [types[t] EXCEPT !.deleted = TRUE].accrualMethod = types[t].accrualMethod
    BY <1>1 DEF LeaveTypes
  <2> QED
    BY <1>0, <1>1, <2>1 DEF RemoveType
<1>5. CASE \E t \in Types, method \in AccrualMethods, entitlement \in Totals:
             CreateType(t, method, entitlement)
  BY <1>0, <1>2, <1>5 DEF CreateType
<1>6. CASE \E t \in Types, method \in AccrualMethods, entitlement \in Totals:
             UpdateType(t, method, entitlement)
  <2> PICK t \in Types, method \in AccrualMethods, entitlement \in Totals:
             UpdateType(t, method, entitlement)
    BY <1>6
  <2> PICK type \in LeaveTypes: /\ types' = [types EXCEPT ![t] = type]
                                /\ type.accrualMethod = method
    BY <1>3
  <2>1. t \notin switched' => types[t].accrualMethod = method
    BY DEF UpdateType
  <2>2. /\ UNCHANGED <<allocations, ledger, op, transactions, crashes, interrupted, overlapped>>
        /\ switched \subseteq switched' /\ switched' \subseteq Types
    BY <1>0 DEF UpdateType
  <2> QED
    BY <1>0, <2>1, <2>2
<1> QED
  BY <1>4, <1>5, <1>6

\* What allocate hands to its insert.
LEMMA AllocateReads ==
    ASSUME TypeInv, NEW h \in Handlers, NEW key \in Keys, NEW given \in Totals \cup {Null},
           Allocate(h, key, given)
    PROVE  \E state \in Ops:
             /\ Goto(h, state)
             /\ OpSound(state) /\ state.pc = "save" /\ state.key = key
             /\ types[key[2]] \in LeaveTypes
             /\ state.lump <=> types[key[2]].accrualMethod = "annual_lump"
<1> DEFINE type == types[key[2]]
           state == [Idle EXCEPT !.pc = "save", !.key = key,
                                 !.total = TotalOrDefault(given, type),
                                 !.lump = (type.accrualMethod = "annual_lump")]
<1>1. type \in LeaveTypes
  BY DEF Allocate, Live, Keys, TypeInv, TypeOK
<1>2. TotalOrDefault(given, type) \in Totals
  BY <1>1 DEF TotalOrDefault, LeaveTypes
<1>3. /\ state \in Ops /\ OpSound(state) /\ state.pc = "save" /\ state.key = key
      /\ state.lump <=> type.accrualMethod = "annual_lump"
  BY <1>2 DEF Idle, Ops, OpSound
<1>4. Goto(h, state)
  BY DEF Allocate
<1> HIDE DEF state
<1> QED
  BY <1>1, <1>3, <1>4

\* A manual transaction.
LEMMA TransactionRow ==
    ASSUME TypeInv, NEW key \in Keys, NEW type \in TransactionTypes, NEW amount \in Amounts
    PROVE  Entry(key, type, amount, Null) \in Entries
<1>1. amount \in Int
  BY LeaveAssumption
<1> QED
  BY <1>1, EntryTyped

\* The requests that credit keep the types.
LEMMA CreditRequestKeepsTypes ==
    ASSUME TypeInv, CreditRequests
    PROVE  TypeInv'
<1> USE DEF history
<1>0. TypeOK /\ IsABag(ledger) /\ BagToSet(ledger) \subseteq Entries
  BY DEF TypeInv, TypeOK
<1>1. ASSUME NEW h \in Handlers, NEW state \in Ops, Goto(h, state), OpSound(state),
             state.pc \in {"save", "find"},
             UNCHANGED <<types, allocations, ledger, transactions, crashes, history>>
      PROVE  TypeInv'
  <2>1. /\ op' \in [Handlers -> Ops]
        /\ \A g \in Handlers: OpSound(op'[g]) /\ FoundAllocated(g)'
    BY <1>1, OneMoves
  <2>2. TypeOK'
    BY <1>0, <1>1, <2>1 DEF TypeOK, OpSound
  <2> QED
    BY <2>1, <2>2 DEF TypeInv
<1>2. ASSUME NEW h \in Handlers, NEW key \in Keys, NEW given \in Totals \cup {Null},
             Allocate(h, key, given)
      PROVE  TypeInv'
  BY <1>1, <1>2, AllocateReads DEF Allocate
<1>3. ASSUME NEW h \in Handlers, NEW month \in Months, RunReadsTypes(h, month) PROVE TypeInv'
  <2> DEFINE typeIds == {t \in Types: Live(t) /\ types[t].accrualMethod = "monthly_accrual"}
             state == [Idle EXCEPT !.pc = "find", !.month = month, !.typeIds = typeIds]
  <2>1. state \in Ops /\ OpSound(state) /\ state.pc = "find"
    BY DEF Idle, Ops, OpSound
  <2>2. Goto(h, state)
    BY <1>3 DEF RunReadsTypes
  <2> HIDE DEF state
  <2> QED
    BY <1>1, <1>3, <2>1, <2>2 DEF RunReadsTypes
<1>4. ASSUME NEW key \in Keys, NEW type \in TransactionTypes, NEW amount \in Amounts,
             Transact(key, type, amount)
      PROVE  TypeInv'
  <2>1. IsABag(ledger)' /\ BagToSet(ledger)' \subseteq Entries
    BY <1>0, <1>4, TransactionRow, CreditAdds DEF Transact
  <2>2. transactions' \in 0..MaxTransactions
    BY <1>0, <1>4, LeaveAssumption DEF Transact, TypeOK
  <2>3. UNCHANGED <<types, allocations, op, crashes, history>>
    BY <1>4 DEF Transact
  <2>4. TypeOK'
    BY <1>0, <2>1, <2>2, <2>3 DEF TypeOK
  <2> QED
    BY <2>3, <2>4 DEF TypeInv, FoundAllocated
<1> QED
  BY <1>2, <1>3, <1>4 DEF CreditRequests

\* Every step keeps the types.
LEMMA TypeStep == TypeInv /\ [Next]_vars => TypeInv'
<1> SUFFICES ASSUME TypeInv, [Next]_vars PROVE TypeInv'
  OBVIOUS
<1> USE DEF history
<1>0. TypeOK /\ IsABag(ledger) /\ BagToSet(ledger) \subseteq Entries
  BY DEF TypeInv, TypeOK
<1>1. CASE TypeRequests
  <2>1. TypeOK'
    BY <1>0, <1>1, TypeRequestTouches DEF TypeOK
  <2> QED
    BY <1>1, <2>1, TypeRequestTouches DEF TypeInv, FoundAllocated
<1>2. CASE Crash
  <2>1. op' = [h \in Handlers |-> Idle] /\ Idle.pc = "idle"
    BY <1>2 DEF Crash, Idle
  <2>2. \A h \in Handlers: OpSound(op'[h]) /\ FoundAllocated(h)'
    BY <2>1 DEF OpSound, FoundAllocated
  <2>3. {op[h].key: h \in {g \in Handlers: op[g].pc = "credit"}} \subseteq Keys
    BY DEF TypeInv, OpSound
  <2>4. interrupted' \subseteq Keys /\ crashes' \in 0..MaxCrashes
    BY <1>0, <1>2, <2>3, LeaveAssumption DEF Crash, TypeOK
  <2>5. op' \in [Handlers -> Ops] /\ \A h \in Handlers: op'[h].pc \notin {"save", "credit"}
    BY <2>1, IdleSound
  <2>6. UNCHANGED <<types, allocations, ledger, transactions, switched, overlapped>>
    BY <1>2 DEF Crash
  <2>7. TypeOK'
    BY <1>0, <2>4, <2>5, <2>6 DEF TypeOK
  <2> QED
    BY <2>2, <2>7 DEF TypeInv
<1>3. CASE UNCHANGED vars
  BY <1>3 DEF vars, TypeInv, TypeOK, FoundAllocated
<1> QED
  BY <1>1, <1>2, <1>3, CreditRequestKeepsTypes, StepKeepsTypes DEF Next

\* Initially the tables are empty.
LEMMA TypeInit == Init => TypeInv
<1> SUFFICES ASSUME Init PROVE TypeInv
  OBVIOUS
<1>1. \A h \in Handlers: op[h] = Idle /\ op[h].pc = "idle"
  BY DEF Init, Idle
<1>2. op \in [Handlers -> Ops]
  BY IdleSound DEF Init
<1>3. IsABag(ledger) /\ BagToSet(ledger) = {}
  BY DEF Init, IsABag, BagToSet, EmptyBag, SetToBag
<1>4. transactions \in 0..MaxTransactions /\ crashes \in 0..MaxCrashes
  BY LeaveAssumption DEF Init
<1>5. TypeOK
  BY <1>1, <1>2, <1>3, <1>4 DEF Init, TypeOK
<1> QED
  BY <1>1, <1>5 DEF TypeInv, OpSound, FoundAllocated

\* TypeInv is an invariant.
LEMMA TypeInvariance == Spec => []TypeInv
BY TypeInit, TypeStep, PTL DEF Spec

\* The tables of leave, the bag of the ledger's rows included, keep their
\* types: a row is only credited to an allocation there is (allocate,
\* runMonthlyAccrual, transact).
THEOREM LedgerTypeCorrect == Spec => []TypeOK
<1>1. TypeInv => TypeOK
  BY DEF TypeInv
<1> QED
  BY <1>1, TypeInvariance, PTL

-----------------------------------------------------------------------------
(* What a step may do.                                                     *)

\* A handler that is to write after a step was to before, or has just checked.
LEMMA WritersStay ==
    ASSUME TypeInv, [Next]_vars, NEW h \in Handlers
    PROVE  \/ op'[h] = op[h]
           \/ op'[h].pc = "idle"
           \/ /\ op'[h].pc = "save"
              /\ \E key \in Keys, given \in Totals \cup {Null}: Allocate(h, key, given)
           \/ op'[h].pc = "find" /\ \E month \in Months: RunReadsTypes(h, month)
           \/ op'[h].pc = "credit" /\ AllocationSaves(h)
           \/ op'[h].pc = "insert" /\ RunChecks(h)
           \/ op'[h].pc = "accrue" /\ (RunReadsAllocations(h) \/ RunSkips(h) \/ RunInserts(h))
<1> USE DEF Goto
<1>0. op \in [Handlers -> Ops] /\ op[h] \in Ops /\ Idle.pc = "idle"
  BY DEF TypeInv, TypeOK, Idle
<1>1. ASSUME NEW g \in Handlers, g # h, Step(g) PROVE op'[h] = op[h]
  BY <1>0, <1>1
  DEF Step, AllocationSaves, AllocationFails, LumpCredits, RunReadsAllocations, RunSkips,
      RunChecks, RunInserts, RunReturns
<1>2. ASSUME Step(h)
      PROVE  \/ op'[h].pc = "idle"
             \/ op'[h].pc = "credit" /\ AllocationSaves(h)
             \/ op'[h].pc = "insert" /\ RunChecks(h)
             \/ op'[h].pc = "accrue" /\ (RunReadsAllocations(h) \/ RunSkips(h) \/ RunInserts(h))
  <2>1. CASE AllocationSaves(h)
    BY <1>0, <2>1 DEF AllocationSaves, Ops
  <2>2. CASE AllocationFails(h) \/ LumpCredits(h) \/ RunReturns(h)
    BY <1>0, <2>2 DEF AllocationFails, LumpCredits, RunReturns
  <2>3. CASE RunReadsAllocations(h)
    BY <1>0, <2>3 DEF RunReadsAllocations, Ops
  <2>4. CASE RunSkips(h)
    BY <1>0, <2>4 DEF RunSkips, Ops
  <2>5. CASE RunChecks(h)
    BY <1>0, <2>5 DEF RunChecks, Ops
  <2>6. CASE RunInserts(h)
    BY <1>0, <2>6 DEF RunInserts, Ops
  <2> QED
    BY <1>2, <2>1, <2>2, <2>3, <2>4, <2>5, <2>6 DEF Step
<1>3. ASSUME NEW g \in Handlers, g # h,
             \/ \E key \in Keys, given \in Totals \cup {Null}: Allocate(g, key, given)
             \/ \E month \in Months: RunReadsTypes(g, month)
      PROVE  op'[h] = op[h]
  BY <1>0, <1>3 DEF Allocate, RunReadsTypes
<1>4. CASE TypeRequests
  BY <1>4, TypeRequestTouches
<1>5. CASE \/ \E key \in Keys, type \in TransactionTypes, amount \in Amounts:
                Transact(key, type, amount)
           \/ UNCHANGED vars
  BY <1>5 DEF Transact, vars
<1>6. CASE Crash
  BY <1>0, <1>6 DEF Crash
<1>7. ASSUME NEW key \in Keys, NEW given \in Totals \cup {Null}, Allocate(h, key, given)
      PROVE  op'[h].pc = "save"
  BY <1>0, <1>7, AllocateReads
<1>8. ASSUME NEW month \in Months, RunReadsTypes(h, month)
      PROVE  op'[h].pc = "find"
  BY <1>0, <1>8 DEF RunReadsTypes, Idle
<1> QED
  BY <1>1, <1>2, <1>3, <1>4, <1>5, <1>6, <1>7, <1>8 DEF Next, CreditRequests

\* Rows of a kind come from the inserts of that kind.
LEMMA RowsOfKind ==
    ASSUME TypeInv, [Next]_vars, NEW kind \in {"allocation", "accrual"},
           kind = "allocation" => \A h \in Handlers: ~LumpCredits(h),
           kind = "accrual" => \A h \in Handlers: ~RunInserts(h)
    PROVE  \A e: e.entryType = kind =>
             /\ Copies(e)' = Copies(e)
             /\ e \in BagToSet(ledger)' <=> e \in BagToSet(ledger)
<1>0. IsABag(ledger)
  BY DEF TypeInv, TypeOK
<1>1. ASSUME NEW entry, entry.entryType # kind, Credit(entry)
      PROVE  \A e: e.entryType = kind =>
               /\ Copies(e)' = Copies(e)
               /\ e \in BagToSet(ledger)' <=> e \in BagToSet(ledger)
  <2>1. /\ BagToSet(ledger)' = BagToSet(ledger) \cup {entry}
        /\ \A e: Copies(e)' = Copies(e) + IF e = entry THEN 1 ELSE 0
    BY <1>0, <1>1, CreditAdds
  <2> SUFFICES ASSUME NEW e, e.entryType = kind
               PROVE  /\ Copies(e)' = Copies(e)
                      /\ e \in BagToSet(ledger)' <=> e \in BagToSet(ledger)
    OBVIOUS
  <2>2. e # entry
    BY <1>1
  <2>3. Copies(e) \in Nat /\ Copies(e)' = Copies(e) + IF e = entry THEN 1 ELSE 0
    BY <1>0, <2>1, CopiesCount
  <2> QED
    BY <2>1, <2>2, <2>3
<1>2. ASSUME UNCHANGED ledger
      PROVE  \A e: e.entryType = kind =>
               /\ Copies(e)' = Copies(e)
               /\ e \in BagToSet(ledger)' <=> e \in BagToSet(ledger)
  BY <1>2 DEF Copies, BagToSet, BagIn
<1>3. ASSUME NEW h \in Handlers, LumpCredits(h)
      PROVE  \A e: e.entryType = kind =>
               /\ Copies(e)' = Copies(e)
               /\ e \in BagToSet(ledger)' <=> e \in BagToSet(ledger)
  <2> PICK key \in Keys, total \in Totals: Credit(Entry(key, "allocation", total, Null))
    BY <1>3, LumpRow
  <2>1. kind = "accrual" /\ Entry(key, "allocation", total, Null).entryType = "allocation"
    BY <1>3 DEF Entry
  <2> QED
    BY <1>1, <2>1
<1>4. ASSUME NEW h \in Handlers, RunInserts(h)
      PROVE  \A e: e.entryType = kind =>
               /\ Copies(e)' = Copies(e)
               /\ e \in BagToSet(ledger)' <=> e \in BagToSet(ledger)
  <2> PICK key \in Keys, month \in Months, amount \in Int:
        Credit(Entry(key, "accrual", amount, month))
    BY <1>4, AccrualRow
  <2>1. kind = "allocation" /\ Entry(key, "accrual", amount, month).entryType = "accrual"
    BY <1>4 DEF Entry
  <2> QED
    BY <1>1, <2>1
<1>5. ASSUME NEW key \in Keys, NEW type \in TransactionTypes, NEW amount \in Amounts,
             Transact(key, type, amount)
      PROVE  \A e: e.entryType = kind =>
               /\ Copies(e)' = Copies(e)
               /\ e \in BagToSet(ledger)' <=> e \in BagToSet(ledger)
  <2>1. Entry(key, type, amount, Null).entryType # kind
    BY DEF Entry, TransactionTypes
  <2> QED
    BY <1>1, <1>5, <2>1 DEF Transact
<1>6. ASSUME NEW h \in Handlers, Step(h), ~LumpCredits(h), ~RunInserts(h)
      PROVE  UNCHANGED ledger
  BY <1>6
  DEF Step, AllocationSaves, AllocationFails, RunReadsAllocations, RunSkips, RunChecks, RunReturns
<1>7. ASSUME \/ TypeRequests \/ Crash \/ UNCHANGED vars
             \/ \E h \in Handlers, key \in Keys, given \in Totals \cup {Null}:
                  Allocate(h, key, given)
             \/ \E h \in Handlers, month \in Months: RunReadsTypes(h, month)
      PROVE  UNCHANGED ledger
  BY <1>7, TypeRequestTouches DEF Crash, vars, Allocate, RunReadsTypes
<1> QED
  BY <1>2, <1>3, <1>4, <1>5, <1>6, <1>7 DEF Next, CreditRequests

\* Who writes the other tables and the history.
LEMMA TablesStay ==
    ASSUME TypeInv, [Next]_vars
    PROVE  /\ (\A h \in Handlers: ~AllocationSaves(h)) => allocations' = allocations
           /\ (\A h \in Handlers: ~RunChecks(h)) => overlapped' = overlapped
           /\ overlapped \subseteq overlapped'
           /\ ~Crash => interrupted' = interrupted
           /\ ~TypeRequests => UNCHANGED <<types, switched>>
<1> USE DEF history
<1>1. ASSUME NEW h \in Handlers, Step(h)
      PROVE  /\ UNCHANGED <<types, interrupted, switched>>
             /\ ~AllocationSaves(h) => allocations' = allocations
             /\ ~RunChecks(h) => overlapped' = overlapped
             /\ overlapped \subseteq overlapped'
  BY <1>1
  DEF Step, AllocationSaves, AllocationFails, LumpCredits, RunReadsAllocations, RunSkips,
      RunChecks, RunInserts, RunReturns
<1>2. ASSUME CreditRequests \/ UNCHANGED vars
      PROVE  UNCHANGED <<types, interrupted, switched, allocations, overlapped>>
  BY <1>2 DEF CreditRequests, Allocate, RunReadsTypes, Transact, vars
<1>3. ASSUME TypeRequests
      PROVE  UNCHANGED <<interrupted, allocations, overlapped>>
  BY <1>3, TypeRequestTouches
<1>4. ASSUME Crash
      PROVE  UNCHANGED <<types, switched, allocations, overlapped>>
  BY <1>4 DEF Crash
<1> QED
  BY <1>1, <1>2, <1>3, <1>4 DEF Next

-----------------------------------------------------------------------------
(* A month is credited once.                                               *)

\* What a run about to insert has checked is still so, unless another one had
\* checked the same.
StillDue(h) ==
    (op[h].pc = "insert" /\ <<op[h].key, op[h].month>> \notin overlapped) =>
        ~Accrued(op[h].key, op[h].month)

TwoRunsOverlap(g, h) ==
    (/\ op[g].pc = "insert" /\ op[h].pc = "insert"
     /\ op[g].key = op[h].key /\ op[g].month = op[h].month)
    => <<op[h].key, op[h].month>> \in overlapped

OnceInv ==
    /\ AccruedOncePerMonth
    /\ \A h \in Handlers: StillDue(h)
    /\ \A g, h \in Handlers: g # h => TwoRunsOverlap(g, h)

\* Accruals and Accrued are about rows of the kind accrual.
LEMMA AccrualsStay ==
    ASSUME TypeInv, [Next]_vars, \A h \in Handlers: ~RunInserts(h)
    PROVE  /\ \A key, month: CreditedOnce(key, month)' <=> CreditedOnce(key, month)
           /\ \A key, month: Accrued(key, month)' <=> Accrued(key, month)
<1>1. \A e: e.entryType = "accrual" =>
        /\ Copies(e)' = Copies(e)
        /\ e \in BagToSet(ledger)' <=> e \in BagToSet(ledger)
  BY RowsOfKind
<1>2. \A key, month: Accruals(key, month)' = Accruals(key, month)
  BY <1>1 DEF Accruals
<1>3. \A key, month: \A e \in Accruals(key, month): e.entryType = "accrual"
  BY DEF Accruals
<1>4. ASSUME NEW key, NEW month PROVE CreditedOnce(key, month)' <=> CreditedOnce(key, month)
  BY <1>1, <1>2, <1>3 DEF CreditedOnce
<1>5. ASSUME NEW key, NEW month PROVE Accrued(key, month)' <=> Accrued(key, month)
  BY <1>1 DEF Accrued
<1> QED
  BY <1>4, <1>5

\* An insert of a run credits its own allocation and month and no other.
LEMMA RunInsertsOne ==
    ASSUME TypeInv, NEW h \in Handlers, RunInserts(h)
    PROVE  \E key \in Keys, month \in Months:
             /\ key = op[h].key /\ month = op[h].month
             /\ Accrued(key, month)'
             /\ ~Accrued(key, month) => CreditedOnce(key, month)'
             /\ \A k, m: <<k, m>> # <<key, month>> =>
                  /\ CreditedOnce(k, m)' <=> CreditedOnce(k, m)
                  /\ Accrued(k, m)' <=> Accrued(k, m)
<1> PICK key \in Keys, month \in Months, amount \in Int:
      /\ key = op[h].key /\ month = op[h].month
      /\ Credit(Entry(key, "accrual", amount, month))
  BY AccrualRow
<1> DEFINE entry == Entry(key, "accrual", amount, month)
<1>0. IsABag(ledger)
  BY DEF TypeInv, TypeOK
<1>1. entry.key = key /\ entry.month = month /\ entry.entryType = "accrual"
  BY DEF Entry
<1> HIDE DEF entry
<1>2. /\ BagToSet(ledger)' = BagToSet(ledger) \cup {entry}
      /\ \A e: Copies(e)' = Copies(e) + IF e = entry THEN 1 ELSE 0
  BY <1>0, CreditAdds DEF entry
<1>3. \A e: e # entry => Copies(e)' = Copies(e)
  <2> SUFFICES ASSUME NEW e, e # entry PROVE Copies(e)' = Copies(e)
    OBVIOUS
  <2>1. Copies(e) \in Nat /\ Copies(e)' = Copies(e) + IF e = entry THEN 1 ELSE 0
    BY <1>0, <1>2, CopiesCount
  <2> QED
    BY <2>1
<1>4. Accrued(key, month)'
  BY <1>1, <1>2 DEF Accrued
<1>5. ASSUME ~Accrued(key, month) PROVE CreditedOnce(key, month)'
  <2>1. Accruals(key, month)' = {entry}
    BY <1>1, <1>2, <1>5 DEF Accrued, Accruals
  <2>2. entry \notin BagToSet(ledger)
    BY <1>1, <1>5 DEF Accrued
  <2>3. Copies(entry) = 0
    BY <1>0, <2>2, CopiesCount
  <2>4. Copies(entry)' = Copies(entry) + IF entry = entry THEN 1 ELSE 0
    BY <1>2
  <2>5. Copies(entry)' = 1
    BY <2>3, <2>4
  <2> QED
    BY <2>1, <2>5 DEF CreditedOnce
<1>6. ASSUME NEW k, NEW m, <<k, m>> # <<key, month>>
      PROVE  /\ CreditedOnce(k, m)' <=> CreditedOnce(k, m)
             /\ Accrued(k, m)' <=> Accrued(k, m)
  <2>1. Accruals(k, m)' = Accruals(k, m) /\ entry \notin Accruals(k, m)
    BY <1>1, <1>2, <1>6 DEF Accruals
  <2>2. Accrued(k, m)' <=> Accrued(k, m)
    BY <1>1, <1>2, <1>6 DEF Accrued
  <2>3. \A e \in Accruals(k, m): Copies(e)' = Copies(e)
    BY <1>3, <2>1
  <2> QED
    BY <2>1, <2>2, <2>3 DEF CreditedOnce
<1> QED
  BY <1>4, <1>5, <1>6

\* A handler about to insert that has not just checked was about to before.
LEMMA InsertersStay ==
    ASSUME TypeInv, [Next]_vars, NEW h \in Handlers, op'[h].pc = "insert"
    PROVE  op'[h] = op[h] \/ RunChecks(h)
BY WritersStay

\* Every step keeps OnceInv.
LEMMA OnceStep == TypeInv /\ OnceInv /\ [Next]_vars => OnceInv'
<1> SUFFICES ASSUME TypeInv, OnceInv, [Next]_vars PROVE OnceInv'
  OBVIOUS
<1>0. overlapped \subseteq overlapped'
  BY TablesStay
<1>1. CASE \E h \in Handlers: RunChecks(h)
  <2> PICK h \in Handlers: RunChecks(h)
    BY <1>1
  <2>1. PICK key \in op[h].todo:
          /\ ~Accrued(key, op[h].month)
          /\ op' = [op EXCEPT ![h] = [op[h] EXCEPT !.pc = "insert", !.key = key]]
          /\ (\E g \in Handlers: /\ op[g].pc = "insert" /\ op[g].key = key
                                 /\ op[g].month = op[h].month)
             => <<key, op[h].month>> \in overlapped'
    BY DEF RunChecks, Goto
  <2>2. PICK month \in Months: month = op[h].month
    BY DEF RunChecks, TypeInv, OpSound
  <2>3. op[h].pc = "accrue" /\ \A g \in Handlers: ~RunInserts(g)
    <3>1. op[h].pc = "accrue" /\ ledger' = ledger /\ IsABag(ledger)
      BY DEF RunChecks, TypeInv, TypeOK
    <3>2. ASSUME NEW g \in Handlers, RunInserts(g) PROVE FALSE
      <4>1. PICK k \in Keys, m \in Months, amount \in Int: Credit(Entry(k, "accrual", amount, m))
        BY <3>2, AccrualRow
      <4> DEFINE entry == Entry(k, "accrual", amount, m)
      <4>2. Copies(entry)' = Copies(entry) + IF entry = entry THEN 1 ELSE 0
        BY <3>1, <4>1, CreditAdds
      <4>3. Copies(entry)' = Copies(entry) /\ Copies(entry) \in Nat
        BY <3>1, CopiesCount DEF Copies
      <4> HIDE DEF entry
      <4> QED
        BY <4>2, <4>3
    <3> QED
      BY <3>1, <3>2
  <2>4. /\ op'[h].pc = "insert" /\ op'[h].key = key /\ op'[h].month = month
        /\ \A g \in Handlers: g # h => op'[g] = op[g]
    BY <2>1, <2>2 DEF TypeInv, TypeOK, Ops
  <2>5. AccruedOncePerMonth'
    BY <1>0, <2>3, AccrualsStay DEF OnceInv, AccruedOncePerMonth
  <2>6. ASSUME NEW g \in Handlers PROVE StillDue(g)'
    <3>1. CASE g = h
      BY <2>1, <2>2, <2>3, <2>4, <3>1, AccrualsStay DEF StillDue
    <3>2. CASE g # h
      BY <1>0, <2>3, <2>4, <3>2, AccrualsStay DEF OnceInv, StillDue
    <3> QED
      BY <3>1, <3>2
  <2>7. ASSUME NEW f \in Handlers, NEW g \in Handlers, f # g PROVE TwoRunsOverlap(f, g)'
    BY <1>0, <2>1, <2>2, <2>4, <2>7 DEF OnceInv, TwoRunsOverlap
  <2> QED
    BY <2>5, <2>6, <2>7 DEF OnceInv
<1>2. CASE \A h \in Handlers: ~RunChecks(h)
  <2>1. overlapped' = overlapped
    BY <1>2, TablesStay
  <2>2. \A h \in Handlers: op'[h].pc = "insert" => op'[h] = op[h]
    BY <1>2, InsertersStay
  <2>3. ASSUME NEW f \in Handlers, NEW g \in Handlers, f # g PROVE TwoRunsOverlap(f, g)'
    BY <2>1, <2>2, <2>3 DEF OnceInv, TwoRunsOverlap
  <2>4. CASE \A h \in Handlers: ~RunInserts(h)
    <3>1. AccruedOncePerMonth'
      BY <2>1, <2>4, AccrualsStay DEF OnceInv, AccruedOncePerMonth
    <3>2. ASSUME NEW g \in Handlers PROVE StillDue(g)'
      BY <2>1, <2>2, <2>4, AccrualsStay DEF OnceInv, StillDue
    <3> QED
      BY <2>3, <3>1, <3>2 DEF OnceInv
  <2>5. ASSUME NEW h \in Handlers, RunInserts(h) PROVE OnceInv'
    <3> PICK key \in Keys, month \in Months:
          /\ key = op[h].key /\ month = op[h].month
          /\ ~Accrued(key, month) => CreditedOnce(key, month)'
          /\ \A k, m: <<k, m>> # <<key, month>> =>
               /\ CreditedOnce(k, m)' <=> CreditedOnce(k, m)
               /\ Accrued(k, m)' <=> Accrued(k, m)
      BY <2>5, RunInsertsOne
    <3>1. op[h].pc = "insert" /\ op'[h].pc # "insert"
      BY <2>5 DEF RunInserts, Goto, TypeInv, TypeOK, Ops
    <3>2. ASSUME NEW k \in Keys, NEW m \in Months, <<k, m>> \notin overlapped'
          PROVE  CreditedOnce(k, m)'
      <4>1. CASE <<k, m>> = <<key, month>>
        BY <2>1, <3>1, <3>2, <4>1 DEF OnceInv, StillDue
      <4>2. CASE <<k, m>> # <<key, month>>
        BY <2>1, <3>2, <4>2 DEF OnceInv, AccruedOncePerMonth
      <4> QED
        BY <4>1, <4>2
    <3>3. ASSUME NEW g \in Handlers PROVE StillDue(g)'
      <4> SUFFICES ASSUME op'[g].pc = "insert", <<op'[g].key, op'[g].month>> \notin overlapped'
                   PROVE  ~Accrued(op[g].key, op[g].month)'
        BY DEF StillDue
      <4>1. op'[g] = op[g] /\ g # h /\ op[g].pc = "insert"
        BY <2>2, <3>1
      <4>2. ~(op[g].key = key /\ op[g].month = month)
        BY <2>1, <3>1, <4>1 DEF OnceInv, TwoRunsOverlap
      <4>3. <<op[g].key, op[g].month>> # <<key, month>>
        BY <4>2
      <4>4. ~Accrued(op[g].key, op[g].month)
        BY <2>1, <4>1 DEF OnceInv, StillDue
      <4>5. PICK k \in Keys, m \in Months: k = op[g].key /\ m = op[g].month
        BY <4>1 DEF TypeInv, TypeOK, Ops, OpSound
      <4> QED
        BY <4>1, <4>3, <4>4, <4>5
    <3> QED
      BY <2>3, <3>2, <3>3 DEF OnceInv, AccruedOncePerMonth
  <2> QED
    BY <2>4, <2>5
<1> QED
  BY <1>1, <1>2

\* Initially there is no row.
LEMMA OnceInit == Init => OnceInv
BY DEF Init, OnceInv, AccruedOncePerMonth, CreditedOnce, Accruals, StillDue, TwoRunsOverlap, Idle,
       BagToSet, EmptyBag, SetToBag

\* However often the run of a month is started, cut short and started again, an
\* allocation is credited the month once unless two of them had both looked for
\* the credit and neither had inserted it (runMonthlyAccrual).
THEOREM AccruedOnceTheorem == Spec => []AccruedOncePerMonth
<1>1. OnceInv => AccruedOncePerMonth
  BY DEF OnceInv
<1> QED
  BY <1>1, TypeInvariance, OnceInit, OnceStep, PTL DEF Spec

-----------------------------------------------------------------------------
(* A run that returns has credited everything.                             *)

\* What a run found and has worked off is credited.
WorkedOff(h) ==
    op[h].pc \in {"accrue", "insert"} =>
        \A k \in op[h].found \ op[h].todo: allocations[k] = 0 \/ Accrued(k, op[h].month)

RunInv == \A h \in Handlers: WorkedOff(h)

\* A credit stays, and so does what was allocated.
LEMMA CreditsStay ==
    ASSUME TypeInv, [Next]_vars
    PROVE  /\ \A k, m: Accrued(k, m) => Accrued(k, m)'
           /\ \A k \in Keys: allocations[k] # Null => allocations'[k] = allocations[k]
<1>1. ASSUME NEW k, NEW m, Accrued(k, m) PROVE Accrued(k, m)'
  <2>1. CASE \A h \in Handlers: ~RunInserts(h)
    BY <1>1, <2>1, AccrualsStay
  <2>2. ASSUME NEW h \in Handlers, RunInserts(h) PROVE Accrued(k, m)'
    <3> PICK key \in Keys, month \in Months:
          /\ Accrued(key, month)'
          /\ <<k, m>> # <<key, month>> => (Accrued(k, m)' <=> Accrued(k, m))
      BY <2>2, RunInsertsOne
    <3> QED
      BY <1>1
  <2> QED
    BY <2>1, <2>2
<1>2. CASE \A h \in Handlers: ~AllocationSaves(h)
  BY <1>1, <1>2, TablesStay
<1>3. ASSUME NEW h \in Handlers, AllocationSaves(h)
      PROVE  \A k \in Keys: allocations[k] # Null => allocations'[k] = allocations[k]
  BY <1>3 DEF AllocationSaves, TypeInv, TypeOK
<1> QED
  BY <1>1, <1>2, <1>3

\* Every step keeps RunInv.
LEMMA RunStep == TypeInv /\ RunInv /\ [Next]_vars => RunInv'
<1> SUFFICES ASSUME TypeInv, RunInv, [Next]_vars, NEW h \in Handlers,
                    op'[h].pc \in {"accrue", "insert"}
             PROVE  \A k \in op'[h].found \ op'[h].todo:
                      allocations'[k] = 0 \/ Accrued(k, op[h].month)'
  BY DEF RunInv, WorkedOff
<1>0. op \in [Handlers -> Ops] /\ op[h] \in Ops
  BY DEF TypeInv, TypeOK
<1>1. ASSUME op[h].pc \in {"accrue", "insert"}, op'[h].month = op[h].month,
             NEW k \in op[h].found \ op[h].todo
      PROVE  allocations'[k] = 0 \/ Accrued(k, op[h].month)'
  <2>1. k \in Keys /\ allocations[k] # Null
    BY <1>0, <1>1 DEF TypeInv, FoundAllocated, Ops
  <2>2. PICK month: month = op[h].month
    OBVIOUS
  <2>3. allocations[k] = 0 \/ Accrued(k, month)
    BY <1>1, <2>2 DEF RunInv, WorkedOff
  <2> QED
    BY <1>1, <2>1, <2>2, <2>3, CreditsStay
<1>2. CASE op'[h] = op[h]
  BY <1>1, <1>2
<1>3. CASE RunReadsAllocations(h)
  <2>1. op'[h].found = op'[h].todo
    BY <1>0, <1>3 DEF RunReadsAllocations, Goto, Ops
  <2> QED
    BY <2>1
<1>4. CASE RunSkips(h)
  <2>1. PICK key \in op[h].todo:
          /\ Accrued(key, op[h].month) \/ allocations[key] = 0
          /\ Goto(h, [op[h] EXCEPT !.todo = @ \ {key}])
    BY <1>4 DEF RunSkips
  <2>2. /\ op[h].pc = "accrue" /\ op'[h].month = op[h].month
        /\ op'[h].found = op[h].found /\ op'[h].todo = op[h].todo \ {key}
    BY <1>0, <1>4, <2>1 DEF RunSkips, Goto, Ops
  <2>3. PICK month: month = op[h].month
    OBVIOUS
  <2>4. key \in Keys /\ allocations[key] # Null
    BY <1>0, <2>2 DEF TypeInv, FoundAllocated, Ops
  <2>5. allocations'[key] = 0 \/ Accrued(key, op[h].month)'
    BY <2>1, <2>2, <2>3, <2>4, CreditsStay
  <2> QED
    BY <1>1, <2>2, <2>5
<1>5. CASE RunChecks(h)
  <2>1. /\ op[h].pc = "accrue" /\ op'[h].month = op[h].month
        /\ op'[h].found = op[h].found /\ op'[h].todo = op[h].todo
    BY <1>0, <1>5 DEF RunChecks, Goto, Ops
  <2> QED
    BY <1>1, <2>1
<1>6. CASE RunInserts(h)
  <2>1. PICK key \in Keys, month \in Months:
          key = op[h].key /\ month = op[h].month /\ Accrued(key, month)'
    BY <1>6, RunInsertsOne
  <2>2. /\ op[h].pc = "insert" /\ op'[h].month = op[h].month
        /\ op'[h].found = op[h].found /\ op'[h].todo = op[h].todo \ {key}
    BY <1>0, <1>6, <2>1 DEF RunInserts, Goto, Ops
  <2>3. Accrued(key, op[h].month)'
    BY <2>1, <2>2
  <2> QED
    BY <1>1, <2>2, <2>3
<1> QED
  BY <1>2, <1>3, <1>4, <1>5, <1>6, WritersStay

\* Initially nothing runs.
LEMMA RunInit == Init => RunInv
BY DEF Init, RunInv, WorkedOff, Idle

\* A run that returns has credited everything it found, a run that takes up
\* what a crash left included (runMonthlyAccrual).
THEOREM CompletedRunsTheorem == Spec => CompletedRunsCreditAll
<1>1. ASSUME TypeInv, RunInv, NEW h \in Handlers, RunReturns(h)
      PROVE  \A key \in op[h].found: allocations[key] = 0 \/ Accrued(key, op[h].month)
  BY <1>1 DEF RunInv, WorkedOff, RunReturns
<1>2. TypeInv /\ RunInv /\ [Next]_vars =>
        [\A h \in Handlers:
           RunReturns(h) => \A key \in op[h].found:
             allocations[key] = 0 \/ Accrued(key, op[h].month)]_vars
  BY <1>1
<1> QED
  BY <1>2, TypeInvariance, RunInit, RunStep, PTL DEF Spec, CompletedRunsCreditAll

-----------------------------------------------------------------------------
(* An entitlement is credited one way.                                     *)

\* How a type credits, as long as its method is not changed.
Pays(t, method) ==
    t \in switched \/ (types[t] # Null /\ types[t].accrualMethod = method)

RowPaid(e) ==
    /\ e.entryType = "allocation" => Pays(e.key[2], "annual_lump")
    /\ e.entryType = "accrual" => Pays(e.key[2], "monthly_accrual")

\* A handler credits the way the type it read does.
HandlerPays(h) ==
    /\ op[h].pc \in {"find", "accrue", "insert"} =>
         \A t \in op[h].typeIds: Pays(t, "monthly_accrual")
    /\ op[h].pc \in {"save", "credit"} =>
         /\ types[op[h].key[2]] # Null
         /\ op[h].lump => Pays(op[h].key[2], "annual_lump")
         /\ ~op[h].lump => Pays(op[h].key[2], "monthly_accrual")
    /\ op[h].pc = "credit" => op[h].lump

MethodInv ==
    /\ \A e \in BagToSet(ledger): RowPaid(e)
    /\ \A h \in Handlers: HandlerPays(h)
    /\ \A k \in Keys: allocations[k] # Null => types[k[2]] # Null

\* Types are never created again, and a change of method is on record.
LEMMA PaysStays ==
    ASSUME TypeInv, [Next]_vars, NEW t \in Types
    PROVE  /\ types[t] # Null => types'[t] # Null
           /\ \A method: Pays(t, method) => Pays(t, method)'
<1>1. CASE TypeRequests
  BY <1>1, TypeRequestTouches DEF Pays
<1>2. CASE ~TypeRequests
  BY <1>2, TablesStay DEF Pays
<1> QED
  BY <1>1, <1>2

\* Where a new row comes from.
LEMMA NewRows ==
    ASSUME TypeInv, [Next]_vars, NEW e \in BagToSet(ledger)'
    PROVE  \/ e \in BagToSet(ledger)
           \/ e.entryType \notin {"allocation", "accrual"}
           \/ /\ e.entryType = "allocation"
              /\ \E h \in Handlers: LumpCredits(h) /\ e.key = op[h].key
           \/ /\ e.entryType = "accrual"
              /\ \E h \in Handlers: RunInserts(h) /\ e.key = op[h].key
<1>0. IsABag(ledger)
  BY DEF TypeInv, TypeOK
<1>1. CASE e.entryType = "allocation"
  <2>1. CASE \A h \in Handlers: ~LumpCredits(h)
    BY <1>1, <2>1, RowsOfKind
  <2>2. ASSUME NEW h \in Handlers, LumpCredits(h)
        PROVE  e \in BagToSet(ledger) \/ e.key = op[h].key
    <3> PICK key \in Keys, total \in Totals:
          key = op[h].key /\ Credit(Entry(key, "allocation", total, Null))
      BY <2>2, LumpRow
    <3> QED
      BY <1>0, CreditAdds DEF Entry
  <2> QED
    BY <1>1, <2>1, <2>2
<1>2. CASE e.entryType = "accrual"
  <2>1. CASE \A h \in Handlers: ~RunInserts(h)
    BY <1>2, <2>1, RowsOfKind
  <2>2. ASSUME NEW h \in Handlers, RunInserts(h)
        PROVE  e \in BagToSet(ledger) \/ e.key = op[h].key
    <3> PICK key \in Keys, month \in Months, amount \in Int:
          key = op[h].key /\ Credit(Entry(key, "accrual", amount, month))
      BY <2>2, AccrualRow
    <3> QED
      BY <1>0, CreditAdds DEF Entry
  <2> QED
    BY <1>2, <2>1, <2>2
<1> QED
  BY <1>1, <1>2

\* Every step keeps MethodInv.
LEMMA MethodStep == TypeInv /\ MethodInv /\ [Next]_vars => MethodInv'
<1> SUFFICES ASSUME TypeInv, MethodInv, [Next]_vars PROVE MethodInv'
  OBVIOUS
<1>0. /\ op \in [Handlers -> Ops]
      /\ \A h \in Handlers: op[h] \in Ops /\ OpSound(op[h]) /\ FoundAllocated(h)
      /\ \A k \in Keys: k[2] \in Types
  BY DEF TypeInv, TypeOK, Keys
<1>1. ASSUME NEW e \in BagToSet(ledger)' PROVE RowPaid(e)'
  <2>1. CASE e \in BagToSet(ledger)
    <3>1. e.key \in Keys
      BY <2>1 DEF TypeInv, TypeOK, Entries
    <3> QED
      BY <1>0, <2>1, <3>1, PaysStays DEF MethodInv, RowPaid
  <2>2. CASE e.entryType = "allocation" /\ \E h \in Handlers: LumpCredits(h) /\ e.key = op[h].key
    <3> PICK h \in Handlers, k \in Keys: k = e.key /\ k = op[h].key /\ op[h].pc = "credit"
      BY <1>0, <2>2 DEF LumpCredits, OpSound
    <3>1. Pays(k[2], "annual_lump")
      BY DEF MethodInv, HandlerPays
    <3> QED
      BY <1>0, <2>2, <3>1, PaysStays DEF RowPaid
  <2>3. CASE e.entryType = "accrual" /\ \E h \in Handlers: RunInserts(h) /\ e.key = op[h].key
    <3> PICK h \in Handlers: e.key = op[h].key /\ op[h].pc = "insert"
      BY <2>3 DEF RunInserts
    <3>1. e.key \in Keys /\ e.key[2] \in op[h].typeIds
      BY <1>0 DEF OpSound, FoundAllocated, Ops
    <3>2. Pays(e.key[2], "monthly_accrual")
      BY <3>1 DEF MethodInv, HandlerPays
    <3> QED
      BY <1>0, <2>3, <3>1, <3>2, PaysStays DEF RowPaid
  <2>4. CASE e.entryType \notin {"allocation", "accrual"}
    BY <2>4 DEF RowPaid
  <2> QED
    BY <2>1, <2>2, <2>3, <2>4, NewRows
<1>2. ASSUME NEW h \in Handlers PROVE HandlerPays(h)'
  <2>1. CASE op'[h].pc = op[h].pc /\ op'[h].key = op[h].key /\ op'[h].lump = op[h].lump
             /\ op'[h].typeIds = op[h].typeIds
    BY <1>0, <2>1, PaysStays DEF MethodInv, HandlerPays, OpSound, Ops
  <2>2. CASE op'[h].pc = "idle"
    BY <2>2 DEF HandlerPays
  <2>3. ASSUME NEW key \in Keys, NEW given \in Totals \cup {Null}, Allocate(h, key, given)
        PROVE  HandlerPays(h)'
    <3>1. /\ op'[h].pc = "save" /\ op'[h].key = key
          /\ types[key[2]] \in LeaveTypes
          /\ op'[h].lump <=> types[key[2]].accrualMethod = "annual_lump"
      BY <1>0, <2>3, AllocateReads DEF Goto
    <3>2. types' = types /\ Null \notin LeaveTypes
      BY <2>3, LeaveAssumption DEF Allocate
    <3> QED
      BY <3>1, <3>2 DEF HandlerPays, Pays, LeaveTypes, AccrualMethods
  <2>4. ASSUME NEW month \in Months, RunReadsTypes(h, month) PROVE HandlerPays(h)'
    BY <1>0, <2>4 DEF RunReadsTypes, Goto, Idle, Live, HandlerPays, Pays
  <2>5. CASE AllocationSaves(h) /\ op'[h].pc = "credit"
    <3>1. /\ op[h].pc = "save" /\ op[h].lump
          /\ op'[h].lump = op[h].lump /\ op'[h].key = op[h].key
          /\ types' = types /\ switched' = switched
      BY <1>0, <2>5 DEF AllocationSaves, Goto, Idle, Ops, history
    <3> QED
      BY <2>5, <3>1 DEF MethodInv, HandlerPays, Pays
  <2>6. CASE RunReadsAllocations(h) \/ RunSkips(h) \/ RunInserts(h) \/ RunChecks(h)
    <3>1. /\ op[h].pc \in {"find", "accrue", "insert"} /\ op'[h].typeIds = op[h].typeIds
          /\ op'[h].pc \in {"accrue", "insert"}
      <4>1. CASE RunReadsAllocations(h)
        BY <1>0, <4>1 DEF RunReadsAllocations, Goto, Ops
      <4>2. CASE RunSkips(h)
        BY <1>0, <4>2 DEF RunSkips, Goto, Ops
      <4>3. CASE RunInserts(h)
        BY <1>0, <4>3 DEF RunInserts, Goto, Ops
      <4>4. CASE RunChecks(h)
        BY <1>0, <4>4 DEF RunChecks, Goto, Ops
      <4> QED
        BY <2>6, <4>1, <4>2, <4>3, <4>4
    <3>2. op[h].typeIds \subseteq Types
      BY <1>0 DEF Ops
    <3> QED
      BY <3>1, <3>2, PaysStays DEF MethodInv, HandlerPays
  <2> QED
    BY <2>1, <2>2, <2>3, <2>4, <2>5, <2>6, WritersStay
<1>3. ASSUME NEW k \in Keys, allocations'[k] # Null PROVE types'[k[2]] # Null
  <2>1. CASE allocations[k] # Null
    BY <1>0, <2>1, PaysStays DEF MethodInv
  <2>2. CASE allocations[k] = Null
    <3> PICK h \in Handlers: AllocationSaves(h)
      BY <1>3, <2>2, TablesStay
    <3>1. k = op[h].key /\ op[h].pc = "save"
      BY <1>3, <2>2 DEF AllocationSaves, TypeInv, TypeOK
    <3> QED
      BY <1>0, <3>1, PaysStays DEF MethodInv, HandlerPays
  <2> QED
    BY <2>1, <2>2
<1> QED
  BY <1>1, <1>2, <1>3 DEF MethodInv

\* Initially there is no row.
LEMMA MethodInit == Init => MethodInv
BY DEF Init, MethodInv, HandlerPays, Idle, BagToSet, EmptyBag, SetToBag

\* An entitlement is credited as a lump sum or month by month, never both,
\* whatever was read when, unless the method of its type was changed
\* (allocate, runMonthlyAccrual).
THEOREM NeverBothWaysTheorem == Spec => []NeverBothWays
<1>1. MethodInv => NeverBothWays
  BY DEF MethodInv, RowPaid, Pays, NeverBothWays
<1> QED
  BY <1>1, TypeInvariance, MethodInit, MethodStep, PTL DEF Spec

-----------------------------------------------------------------------------
(* A lump sum is credited once and in full.                                *)

\* No lump sum has been credited to an allocation.
NoLump(key) == \A e \in BagToSet(ledger): ~(e.key = key /\ e.entryType = "allocation")

LumpDue(key) ==
    types[key[2]].accrualMethod = "annual_lump" /\ allocations[key] > 0

LumpRight(key) ==
    LET lump == Entry(key, "allocation", allocations[key], Null)
    IN  \A e \in BagToSet(ledger) \cup {lump}:
          (e.key = key /\ e.entryType = "allocation") =>
              Copies(e) = IF e = lump /\ LumpDue(key) THEN 1 ELSE 0

\* The insert of the allocation has succeeded for one handler only, and only
\* that one credits its lump sum.
Crediting(h) ==
    op[h].pc = "credit" =>
        /\ allocations[op[h].key] = op[h].total /\ op[h].total > 0
        /\ NoLump(op[h].key)

OneCredits(g, h) ==
    ~(op[g].pc = "credit" /\ op[h].pc = "credit" /\ op[g].key = op[h].key)

LumpInv ==
    /\ LumpCreditedOnce
    /\ \A key \in Keys: allocations[key] = Null => NoLump(key)
    /\ \A h \in Handlers: Crediting(h)
    /\ \A g, h \in Handlers: g # h => OneCredits(g, h)

\* Rows that are no lump sums, and no new allocations, leave it all as it was.
LEMMA LumpsStay ==
    ASSUME TypeInv, MethodInv, LumpInv, [Next]_vars,
           \A h \in Handlers: ~LumpCredits(h) /\ ~AllocationSaves(h)
    PROVE  LumpInv'
<1>0. \A k \in Keys: k[2] \in Types
  BY DEF Keys
<1>1. \A e: e.entryType = "allocation" =>
        /\ Copies(e)' = Copies(e)
        /\ e \in BagToSet(ledger)' <=> e \in BagToSet(ledger)
  BY RowsOfKind
<1>2. allocations' = allocations
  BY TablesStay
<1>3. \A h \in Handlers: op'[h].pc = "credit" => op'[h] = op[h]
  BY WritersStay
<1>4. \A k \in Keys: NoLump(k) => NoLump(k)'
  BY <1>1 DEF NoLump
<1>5. ASSUME NEW h \in Handlers PROVE Crediting(h)'
  <2> SUFFICES ASSUME op'[h].pc = "credit" PROVE Crediting(h)'
    BY DEF Crediting
  <2>1. op'[h] = op[h] /\ op[h].pc = "credit"
    BY <1>3
  <2>2. PICK k \in Keys: k = op[h].key
    BY <2>1 DEF TypeInv, OpSound
  <2> QED
    BY <1>2, <1>4, <2>1, <2>2 DEF LumpInv, Crediting
<1>6. ASSUME NEW g \in Handlers, NEW h \in Handlers, g # h PROVE OneCredits(g, h)'
  BY <1>3, <1>6 DEF LumpInv, OneCredits
<1>7. ASSUME NEW key \in Keys, allocations[key] # Null, key[2] \notin switched',
             key \notin interrupted',
             \A h \in Handlers: ~(op'[h].pc = "credit" /\ op'[h].key = key)
      PROVE  LumpRight(key)'
  <2>1. key[2] \notin switched /\ types[key[2]] # Null
    BY <1>0, <1>7, TablesStay, TypeRequestTouches DEF MethodInv
  <2>2. types'[key[2]].accrualMethod = types[key[2]].accrualMethod
    BY <1>0, <1>7, <2>1, TablesStay, TypeRequestTouches
  <2>3. key \notin interrupted /\ \A h \in Handlers: ~(op[h].pc = "credit" /\ op[h].key = key)
    <3>1. CASE Crash
      BY <1>7, <3>1 DEF Crash
    <3>2. CASE ~Crash
      <4>1. interrupted' = interrupted
        BY <3>2, TablesStay
      <4>2. ASSUME NEW h \in Handlers, op[h].pc = "credit" PROVE op'[h] = op[h]
        <5>1. ~Step(h)
          BY <4>2
          DEF Step, AllocationSaves, AllocationFails, LumpCredits, RunReadsAllocations,
              RunSkips, RunChecks, RunInserts, RunReturns
        <5>2. op[h] # Idle
          BY <4>2 DEF Idle
        <5>3. ASSUME NEW g \in Handlers, g # h, Step(g) PROVE op'[h] = op[h]
          BY <5>3
          DEF Step, AllocationSaves, AllocationFails, LumpCredits, RunReadsAllocations,
              RunSkips, RunChecks, RunInserts, RunReturns, Goto, TypeInv, TypeOK
        <5>4. ASSUME CreditRequests PROVE op'[h] = op[h]
          BY <5>2, <5>4
          DEF CreditRequests, Allocate, RunReadsTypes, Transact, Goto, TypeInv, TypeOK
        <5> QED
          BY <3>2, <5>1, <5>3, <5>4, TypeRequestTouches DEF Next, vars
      <4> QED
        BY <1>7, <4>1, <4>2
    <3> QED
      BY <3>1, <3>2
  <2>4. LumpRight(key)
    BY <1>7, <2>1, <2>3 DEF LumpInv, LumpCreditedOnce, LumpRight, LumpDue
  <2>5. PICK lump: lump = Entry(key, "allocation", allocations[key], Null)
    OBVIOUS
  <2>6. LumpDue(key)' <=> LumpDue(key)
    BY <1>2, <2>2 DEF LumpDue
  <2>7. lump.entryType = "allocation"
    BY <2>5 DEF Entry
  <2> QED
    BY <1>1, <1>2, <2>4, <2>5, <2>6, <2>7 DEF LumpRight
<1>8. LumpCreditedOnce'
  BY <1>2, <1>7 DEF LumpCreditedOnce, LumpRight, LumpDue
<1> QED
  BY <1>2, <1>4, <1>5, <1>6, <1>8 DEF LumpInv

\* A new allocation has no lump sum yet; one that is due is to be credited by
\* the handler that inserted it.
LEMMA SaveKeepsLumps ==
    ASSUME TypeInv, MethodInv, LumpInv, NEW h \in Handlers, AllocationSaves(h)
    PROVE  LumpInv'
<1>0. /\ op \in [Handlers -> Ops] /\ op[h] \in Ops /\ op[h].pc = "save"
      /\ allocations \in [Keys -> Totals \cup {Null}]
      /\ op[h].key \in Keys /\ op[h].total \in Totals /\ allocations[op[h].key] = Null
      /\ Null \notin Totals /\ Totals \subseteq Int /\ IsABag(ledger)
      /\ \A g \in Handlers: OpSound(op[g])
  BY NullIsNoTotal DEF AllocationSaves, TypeInv, TypeOK, OpSound
<1> PICK key \in Keys, total \in Totals: key = op[h].key /\ total = op[h].total
  BY <1>0
<1>1. /\ UNCHANGED <<types, ledger, switched, interrupted>>
      /\ allocations'[key] = total
      /\ \A k \in Keys: k # key => allocations'[k] = allocations[k]
      /\ \A g \in Handlers: g # h => op'[g] = op[g]
  BY <1>0 DEF AllocationSaves, Goto, history
<1>2. \/ op[h].lump /\ total > 0 /\ op'[h].pc = "credit" /\ op'[h].key = key
         /\ op'[h].total = total
      \/ ~(op[h].lump /\ total > 0) /\ op'[h].pc = "idle"
  BY <1>0 DEF AllocationSaves, Goto, Idle, Ops
<1>3. \A k: NoLump(k)' <=> NoLump(k)
  BY <1>1 DEF NoLump, BagToSet
<1>4. NoLump(key)
  BY <1>0 DEF LumpInv
<1>5. \A g \in Handlers: op[g].pc = "credit" => op[g].key \in Keys /\ op[g].key # key
  BY <1>0 DEF LumpInv, Crediting, OpSound
<1>6. ASSUME NEW g \in Handlers PROVE Crediting(g)'
  <2>1. CASE g = h
    BY <1>1, <1>2, <1>3, <1>4, <2>1 DEF Crediting
  <2>2. CASE g # h
    BY <1>1, <1>3, <1>5, <2>2 DEF LumpInv, Crediting
  <2> QED
    BY <2>1, <2>2
<1>7. ASSUME NEW f \in Handlers, NEW g \in Handlers, f # g PROVE OneCredits(f, g)'
  BY <1>1, <1>2, <1>5, <1>7 DEF LumpInv, OneCredits
<1>8. ASSUME NEW k \in Keys, allocations'[k] # Null, k[2] \notin switched',
             k \notin interrupted',
             \A g \in Handlers: ~(op'[g].pc = "credit" /\ op'[g].key = k)
      PROVE  LumpRight(k)'
  <2>1. CASE k = key
    <3>1. ~(op[h].lump /\ total > 0)
      BY <1>2, <1>8, <2>1
    <3>2. types[k[2]] # Null /\ (~op[h].lump => types[k[2]].accrualMethod = "monthly_accrual")
      BY <1>0, <1>1, <1>8, <2>1 DEF MethodInv, HandlerPays, Pays
    <3>3. ~LumpDue(k)'
      BY <1>1, <2>1, <3>1, <3>2 DEF LumpDue
    <3>4. \A e: (e.key = k /\ e.entryType = "allocation") => Copies(e)' = 0
      <4>1. \A e: Copies(e)' = Copies(e)
        BY <1>1 DEF Copies, BagIn, BagToSet
      <4> QED
        BY <1>0, <1>4, <2>1, <4>1, CopiesCount DEF NoLump
    <3> QED
      BY <3>3, <3>4 DEF LumpRight
  <2>2. CASE k # key
    <3>1. LumpRight(k)
      BY <1>0, <1>1, <1>8, <2>2 DEF LumpInv, LumpCreditedOnce, LumpRight, LumpDue
    <3> QED
      BY <1>1, <2>2, <3>1 DEF LumpRight, LumpDue, Copies, BagIn, BagToSet
  <2> QED
    BY <2>1, <2>2
<1>9. LumpCreditedOnce'
  BY <1>8 DEF LumpCreditedOnce, LumpRight, LumpDue
<1>10. \A k \in Keys: allocations'[k] = Null => NoLump(k)'
  BY <1>0, <1>1, <1>3 DEF LumpInv
<1> QED
  BY <1>6, <1>7, <1>9, <1>10 DEF LumpInv

\* The lump sum that a handler credits is the first of its allocation.
LEMMA CreditKeepsLumps ==
    ASSUME TypeInv, MethodInv, LumpInv, NEW h \in Handlers, LumpCredits(h)
    PROVE  LumpInv'
<1>0. /\ op \in [Handlers -> Ops] /\ op[h] \in Ops /\ op[h].pc = "credit"
      /\ Null \notin Totals /\ IsABag(ledger)
      /\ \A g \in Handlers: OpSound(op[g])
  BY NullIsNoTotal DEF LumpCredits, TypeInv, TypeOK
<1> PICK key \in Keys, total \in Totals:
           /\ key = op[h].key /\ total = op[h].total
           /\ Credit(Entry(key, "allocation", total, Null))
  BY LumpRow
<1> DEFINE lump == Entry(key, "allocation", total, Null)
<1>1. lump.key = key /\ lump.entryType = "allocation"
  BY DEF Entry
<1> HIDE DEF lump
<1>2. /\ BagToSet(ledger)' = BagToSet(ledger) \cup {lump}
      /\ \A e: Copies(e)' = Copies(e) + IF e = lump THEN 1 ELSE 0
  BY <1>0, CreditAdds DEF lump
<1>3. /\ UNCHANGED <<types, allocations, switched, interrupted>>
      /\ op'[h].pc = "idle"
      /\ \A g \in Handlers: g # h => op'[g] = op[g]
  BY <1>0 DEF LumpCredits, Goto, Idle, history
<1>4. allocations[key] = total /\ total > 0 /\ NoLump(key)
  BY <1>0 DEF LumpInv, Crediting
<1>5. \A e: Copies(e) \in Nat /\ (Copies(e) = 0 <=> e \notin BagToSet(ledger))
  BY <1>0, CopiesCount
<1>6. \A e: e # lump => Copies(e)' = Copies(e)
  BY <1>2, <1>5
<1>7. Copies(lump)' = 1
  <2>1. Copies(lump) = 0
    BY <1>1, <1>4, <1>5 DEF NoLump
  <2>2. Copies(lump)' = Copies(lump) + IF lump = lump THEN 1 ELSE 0
    BY <1>2
  <2> QED
    BY <2>1, <2>2
<1>8. \A k: k # key => (NoLump(k)' <=> NoLump(k))
  BY <1>1, <1>2 DEF NoLump
<1>9. \A g \in Handlers: (g # h /\ op[g].pc = "credit") => op[g].key # key /\ op[g].key \in Keys
  BY <1>0 DEF LumpInv, OneCredits, OpSound
<1>10. ASSUME NEW g \in Handlers PROVE Crediting(g)'
  <2> SUFFICES ASSUME op'[g].pc = "credit" PROVE Crediting(g)'
    BY DEF Crediting
  <2>1. g # h /\ op'[g] = op[g] /\ op[g].key # key
    BY <1>3, <1>9
  <2>2. PICK k \in Keys: k = op[g].key
    BY <1>9, <2>1
  <2> QED
    BY <1>3, <1>8, <2>1, <2>2 DEF LumpInv, Crediting
<1>11. ASSUME NEW f \in Handlers, NEW g \in Handlers, f # g PROVE OneCredits(f, g)'
  BY <1>3, <1>11 DEF LumpInv, OneCredits
<1>12. ASSUME NEW k \in Keys, allocations'[k] # Null, k[2] \notin switched',
              k \notin interrupted',
              \A g \in Handlers: ~(op'[g].pc = "credit" /\ op'[g].key = k)
       PROVE  LumpRight(k)'
  <2>1. CASE k = key
    <3>1. LumpDue(key)'
      <4>1. types[key[2]].accrualMethod = "annual_lump"
        BY <1>0, <1>3, <1>12, <2>1 DEF MethodInv, HandlerPays, Pays
      <4> QED
        BY <1>3, <1>4, <4>1 DEF LumpDue
    <3>2. lump = Entry(key, "allocation", allocations'[key], Null)
      BY <1>3, <1>4 DEF lump
    <3>3. \A e: (e.key = key /\ e.entryType = "allocation") =>
            Copies(e)' = IF e = lump THEN 1 ELSE 0
      BY <1>4, <1>5, <1>6, <1>7 DEF NoLump
    <3> QED
      BY <2>1, <3>1, <3>2, <3>3 DEF LumpRight
  <2>2. CASE k # key
    <3>1. \A g \in Handlers: ~(op[g].pc = "credit" /\ op[g].key = k)
      BY <1>3, <1>12, <2>2
    <3>2. LumpRight(k)
      BY <1>3, <1>12, <3>1 DEF LumpInv, LumpCreditedOnce, LumpRight, LumpDue
    <3>3. \A e: e.key = k =>
            /\ Copies(e)' = Copies(e)
            /\ e \in BagToSet(ledger)' <=> e \in BagToSet(ledger)
      BY <1>1, <1>2, <1>6, <2>2
    <3>4. Entry(k, "allocation", allocations[k], Null).key = k
      BY DEF Entry
    <3> QED
      BY <1>3, <3>2, <3>3, <3>4 DEF LumpRight, LumpDue
  <2> QED
    BY <2>1, <2>2
<1>13. LumpCreditedOnce'
  BY <1>12 DEF LumpCreditedOnce, LumpRight, LumpDue
<1>14. ASSUME NEW k \in Keys, allocations'[k] = Null PROVE NoLump(k)'
  <2>1. k # key
    BY <1>0, <1>3, <1>4, <1>14
  <2> QED
    BY <1>3, <1>8, <1>14, <2>1 DEF LumpInv
<1> QED
  BY <1>10, <1>11, <1>13, <1>14 DEF LumpInv

\* Initially there is neither an allocation nor a row.
LEMMA LumpInit == Init => LumpInv
BY DEF Init, LumpInv, LumpCreditedOnce, NoLump, Crediting, OneCredits, Idle, BagToSet, EmptyBag,
       SetToBag

\* An annual lump sum is credited once and in full and a monthly entitlement
\* not at all at its creation, whoever else allocates at the same time; left
\* aside are types whose method was changed and calls cut short between the
\* two inserts (allocate).
THEOREM LumpCreditedOnceTheorem == Spec => []LumpCreditedOnce
<1>1. TypeInv /\ MethodInv /\ LumpInv /\ [Next]_vars => LumpInv'
  BY LumpsStay, SaveKeepsLumps, CreditKeepsLumps
<1>2. LumpInv => LumpCreditedOnce
  BY DEF LumpInv
<1> QED
  BY <1>1, <1>2, TypeInvariance, MethodInit, MethodStep, LumpInit, PTL DEF Spec
=============================================================================
