-------------------------- MODULE AttendanceDayProofs --------------------------
(***************************************************************************)
(* The status rule and the minute counts of a day, proved for every shift  *)
(* and every pair of instants, and what debouncing makes of a day, for any *)
(* punches.                                                                *)
(***************************************************************************)
EXTENDS AttendanceDay, OrderLemmas

-----------------------------------------------------------------------------
(* Minutes.                                                                *)

\* Math.round(ms / 60000) is off by at most half a minute.
LEMMA RoundMinutesIsClose ==
    ASSUME NEW s \in Int
    PROVE  /\ RoundMinutes(s) \in Int
           /\ s - 30 < 60 * RoundMinutes(s)
           /\ 60 * RoundMinutes(s) <= s + 30
BY DEF RoundMinutes

\* Math.round(ms / 60000) keeps the order of spans.
LEMMA RoundMinutesIsMonotone ==
    ASSUME NEW s \in Int, NEW t \in Int, s <= t
    PROVE  RoundMinutes(s) <= RoundMinutes(t)
BY RoundMinutesIsClose

-----------------------------------------------------------------------------
(* One day.                                                                *)

ShiftOK == shift \in ShiftRows \cup {Null}

\* The shift never changes.
LEMMA ShiftStays == Spec => []ShiftOK
<1>1. Init => ShiftOK
  BY DayAssumption DEF Init, ShiftOK
<1>2. ShiftOK /\ [Next]_vars => ShiftOK'
  BY DEF ShiftOK, Next, PunchArrives, vars
<1> QED
  BY <1>1, <1>2, PTL DEF Spec

\* What computeMetrics counts for two instants of a day with a shift: the
\* limits are integers, and the counts are rounded spans cut off at zero.
LEMMA MetricsOfTwoInstants ==
    ASSUME NEW s \in ShiftRows, NEW a \in Nat, NEW b \in Nat
    PROVE  /\ ShiftStart(s) + 60 * s.graceInMinutes \in Int
           /\ ShiftEnd(s) - 60 * s.graceOutMinutes \in Int
           /\ WorkedMinutes(a, b, s) =
                AtLeastZero(RoundMinutes(b - a) - s.breakMinutes)
           /\ LateMinutes(a, s) =
                AtLeastZero(RoundMinutes(a - (ShiftStart(s) + 60 * s.graceInMinutes)))
           /\ EarlyLeaveMinutes(b, s) =
                AtLeastZero(RoundMinutes((ShiftEnd(s) - 60 * s.graceOutMinutes) - b))
<1>1. a # Null /\ b # Null /\ s # Null
  BY NullIsNoValue
<1>2. ShiftStart(s) \in Int /\ ShiftEnd(s) \in Int
  BY DEF ShiftRows, ShiftStart, ShiftEnd, BuildDateTime, MinutesPerDay, Overnight
<1>3. 60 * s.graceInMinutes \in Int /\ 60 * s.graceOutMinutes \in Int
  BY DEF ShiftRows
<1> QED
  BY <1>1, <1>2, <1>3 DEF WorkedMinutes, LateMinutes, EarlyLeaveMinutes

\* Cutting off at zero keeps the order.
LEMMA AtLeastZeroIsMonotone ==
    ASSUME NEW m \in Int, NEW n \in Int, m <= n
    PROVE  AtLeastZero(m) \in Nat /\ AtLeastZero(n) \in Nat
           /\ AtLeastZero(m) <= AtLeastZero(n)
BY DEF AtLeastZero

\* BaseStatus of a day with both instants, by its three counts.
LEMMA StatusOfTwoInstants ==
    ASSUME NEW s \in ShiftRows \cup {Null}, NEW a \in Nat, NEW b \in Nat
    PROVE  BaseStatus(a, b, s) =
             IF WorkedMinutes(a, b, s) < HalfDay(s) THEN "absent"
             ELSE IF WorkedMinutes(a, b, s) < FullDay(s)
                     /\ EarlyLeaveMinutes(b, s) > 0 THEN "half_day"
             ELSE IF LateMinutes(a, s) > 0 THEN "late" ELSE "present"
BY NullIsNoValue DEF BaseStatus

\* The counts are naturals; arriving earlier and leaving later only adds to
\* the worked minutes and takes from the late and early-leave minutes.
LEMMA CountsAreMonotone ==
    ASSUME NEW s \in ShiftRows \cup {Null}, NEW a \in Nat, NEW b \in Nat,
           NEW c \in Nat, NEW d \in Nat, a <= b, c <= d
    PROVE  /\ WorkedMinutes(a, d, s) \in Nat /\ WorkedMinutes(b, c, s) \in Nat
           /\ LateMinutes(a, s) \in Nat /\ LateMinutes(b, s) \in Nat
           /\ EarlyLeaveMinutes(c, s) \in Nat /\ EarlyLeaveMinutes(d, s) \in Nat
           /\ FullDay(s) \in Int /\ HalfDay(s) \in Int
           /\ WorkedMinutes(b, c, s) <= WorkedMinutes(a, d, s)
           /\ LateMinutes(a, s) <= LateMinutes(b, s)
           /\ EarlyLeaveMinutes(d, s) <= EarlyLeaveMinutes(c, s)
<1>1. RoundMinutes(c - b) \in Int /\ RoundMinutes(d - a) \in Int
      /\ RoundMinutes(c - b) <= RoundMinutes(d - a)
  BY RoundMinutesIsClose, RoundMinutesIsMonotone
<1>2. CASE s = Null
  <2>1. a # Null /\ b # Null /\ c # Null /\ d # Null
    BY NullIsNoValue
  <2> QED
    BY <1>1, <1>2, <2>1, AtLeastZeroIsMonotone
    DEF WorkedMinutes, LateMinutes, EarlyLeaveMinutes, FullDay, HalfDay
<1>3. CASE s \in ShiftRows
  <2> DEFINE from == ShiftStart(s) + 60 * s.graceInMinutes
             until == ShiftEnd(s) - 60 * s.graceOutMinutes
  <2>1. from \in Int /\ until \in Int /\ s.breakMinutes \in Int
    BY <1>3, MetricsOfTwoInstants DEF ShiftRows
  <2>2. /\ WorkedMinutes(a, d, s) = AtLeastZero(RoundMinutes(d - a) - s.breakMinutes)
        /\ WorkedMinutes(b, c, s) = AtLeastZero(RoundMinutes(c - b) - s.breakMinutes)
        /\ LateMinutes(a, s) = AtLeastZero(RoundMinutes(a - from))
        /\ LateMinutes(b, s) = AtLeastZero(RoundMinutes(b - from))
        /\ EarlyLeaveMinutes(c, s) = AtLeastZero(RoundMinutes(until - c))
        /\ EarlyLeaveMinutes(d, s) = AtLeastZero(RoundMinutes(until - d))
    BY <1>3, MetricsOfTwoInstants
  <2> HIDE DEF from, until
  <2>3. RoundMinutes(a - from) \in Int /\ RoundMinutes(b - from) \in Int
        /\ RoundMinutes(a - from) <= RoundMinutes(b - from)
    <3>1. a - from \in Int /\ b - from \in Int /\ a - from <= b - from
      BY <2>1
    <3> QED
      BY <3>1, RoundMinutesIsClose, RoundMinutesIsMonotone, Zenon
  <2>4. RoundMinutes(until - c) \in Int /\ RoundMinutes(until - d) \in Int
        /\ RoundMinutes(until - d) <= RoundMinutes(until - c)
    <3>1. until - d \in Int /\ until - c \in Int /\ until - d <= until - c
      BY <2>1
    <3> QED
      BY <3>1, RoundMinutesIsClose, RoundMinutesIsMonotone, Zenon
  <2>5. /\ AtLeastZero(RoundMinutes(d - a) - s.breakMinutes) \in Nat
        /\ AtLeastZero(RoundMinutes(c - b) - s.breakMinutes) \in Nat
        /\ AtLeastZero(RoundMinutes(c - b) - s.breakMinutes)
             <= AtLeastZero(RoundMinutes(d - a) - s.breakMinutes)
    BY <1>1, <2>1, AtLeastZeroIsMonotone
  <2>6. /\ AtLeastZero(RoundMinutes(a - from)) \in Nat
        /\ AtLeastZero(RoundMinutes(b - from)) \in Nat
        /\ AtLeastZero(RoundMinutes(a - from)) <= AtLeastZero(RoundMinutes(b - from))
    BY <2>3, AtLeastZeroIsMonotone
  <2>7. /\ AtLeastZero(RoundMinutes(until - c)) \in Nat
        /\ AtLeastZero(RoundMinutes(until - d)) \in Nat
        /\ AtLeastZero(RoundMinutes(until - d)) <= AtLeastZero(RoundMinutes(until - c))
    BY <2>4, AtLeastZeroIsMonotone
  <2>8. FullDay(s) \in Int /\ HalfDay(s) \in Int
    BY <1>3, NullIsNoValue DEF FullDay, HalfDay, ShiftRows
  <2> QED
    BY <2>2, <2>5, <2>6, <2>7, <2>8
<1> QED
  BY <1>2, <1>3

\* A longer stay is at least as good as a shorter one.
LEMMA LongerStay ==
    ASSUME NEW s \in ShiftRows \cup {Null}, NEW a \in Nat, NEW b \in Nat,
           NEW c \in Nat, NEW d \in Nat, a <= b, c <= d
    PROVE  Rank[BaseStatus(b, c, s)] <= Rank[BaseStatus(a, d, s)]
<1> DEFINE status(worked, early, late) ==
             IF worked < HalfDay(s) THEN "absent"
             ELSE IF worked < FullDay(s) /\ early > 0 THEN "half_day"
             ELSE IF late > 0 THEN "late" ELSE "present"
<1>1. FullDay(s) \in Int /\ HalfDay(s) \in Int
  BY CountsAreMonotone
<1>2. ASSUME NEW w1 \in Nat, NEW w2 \in Nat, NEW e1 \in Nat, NEW e2 \in Nat,
             NEW l1 \in Nat, NEW l2 \in Nat, w1 <= w2, e2 <= e1, l2 <= l1
      PROVE  Rank[status(w1, e1, l1)] <= Rank[status(w2, e2, l2)]
  BY <1>1, <1>2 DEF Rank
<1>3. /\ BaseStatus(b, c, s) =
           status(WorkedMinutes(b, c, s), EarlyLeaveMinutes(c, s), LateMinutes(b, s))
      /\ BaseStatus(a, d, s) =
           status(WorkedMinutes(a, d, s), EarlyLeaveMinutes(d, s), LateMinutes(a, s))
  BY StatusOfTwoInstants
<1> QED
  <2> HIDE DEF status
  <2> QED
    BY <1>2, <1>3, CountsAreMonotone

\* The status rule is fair, for every shift and all instants: the property
\* LongerStayNeverWorse of computeMetrics.
THEOREM LongerStayTheorem == Spec => []LongerStayNeverWorse
<1>1. ShiftOK => LongerStayNeverWorse
  <2> SUFFICES ASSUME ShiftOK, NEW a \in Instants, NEW b \in Instants,
                      NEW c \in Instants, a <= b
               PROVE  /\ Rank[BaseStatus(b, c, shift)] <= Rank[BaseStatus(a, c, shift)]
                      /\ Rank[BaseStatus(c, a, shift)] <= Rank[BaseStatus(c, b, shift)]
    BY DEF LongerStayNeverWorse
  <2>1. a \in Nat /\ b \in Nat /\ c \in Nat /\ c <= c
    BY DayAssumption
  <2> QED
    BY <2>1, LongerStay DEF ShiftOK
<1> QED
  BY <1>1, ShiftStays, PTL

\* The minutes computeMetrics counts for a day add up, for every shift and
\* all instants: the property MinutesAddUp.
THEOREM MinutesAddUpTheorem == Spec => []MinutesAddUp
<1>1. ShiftOK => MinutesAddUp
  <2> DEFINE from == ShiftStart(shift) + 60 * shift.graceInMinutes
             until == ShiftEnd(shift) - 60 * shift.graceOutMinutes
  <2> SUFFICES ASSUME shift \in ShiftRows, NEW a \in Instants, NEW b \in Instants,
                      from <= a, b <= until, WorkedMinutes(a, b, shift) > 0
               PROVE  60 * (WorkedMinutes(a, b, shift) + shift.breakMinutes
                            + LateMinutes(a, shift) + EarlyLeaveMinutes(b, shift))
                        \in (until - from - 90)..(until - from + 90)
    BY DEF ShiftOK, MinutesAddUp, ComputeMetrics
  <2>1. a \in Nat /\ b \in Nat /\ from \in Int /\ until \in Int
        /\ shift.breakMinutes \in Int
    BY DayAssumption, MetricsOfTwoInstants DEF ShiftRows
  <2>2. /\ WorkedMinutes(a, b, shift)
             = AtLeastZero(RoundMinutes(b - a) - shift.breakMinutes)
        /\ LateMinutes(a, shift) = AtLeastZero(RoundMinutes(a - from))
        /\ EarlyLeaveMinutes(b, shift) = AtLeastZero(RoundMinutes(until - b))
    BY <2>1, MetricsOfTwoInstants
  <2> HIDE DEF from, until
  <2>3. /\ RoundMinutes(b - a) \in Int
        /\ (b - a) - 30 < 60 * RoundMinutes(b - a)
        /\ 60 * RoundMinutes(b - a) <= (b - a) + 30
    <3>1. b - a \in Int
      BY <2>1
    <3> QED
      BY <3>1, RoundMinutesIsClose, Zenon
  <2>4. /\ RoundMinutes(a - from) \in Nat
        /\ (a - from) - 30 < 60 * RoundMinutes(a - from)
        /\ 60 * RoundMinutes(a - from) <= (a - from) + 30
    <3>1. a - from \in Int /\ 0 <= a - from
      BY <2>1
    <3>2. /\ RoundMinutes(a - from) \in Int
          /\ (a - from) - 30 < 60 * RoundMinutes(a - from)
          /\ 60 * RoundMinutes(a - from) <= (a - from) + 30
      BY <3>1, RoundMinutesIsClose, Zenon
    <3> QED
      BY <3>1, <3>2
  <2>5. /\ RoundMinutes(until - b) \in Nat
        /\ (until - b) - 30 < 60 * RoundMinutes(until - b)
        /\ 60 * RoundMinutes(until - b) <= (until - b) + 30
    <3>1. until - b \in Int /\ 0 <= until - b
      BY <2>1
    <3>2. /\ RoundMinutes(until - b) \in Int
          /\ (until - b) - 30 < 60 * RoundMinutes(until - b)
          /\ 60 * RoundMinutes(until - b) <= (until - b) + 30
      BY <3>1, RoundMinutesIsClose, Zenon
    <3> QED
      BY <3>1, <3>2
  <2>6. /\ WorkedMinutes(a, b, shift) + shift.breakMinutes = RoundMinutes(b - a)
        /\ LateMinutes(a, shift) = RoundMinutes(a - from)
        /\ EarlyLeaveMinutes(b, shift) = RoundMinutes(until - b)
    BY <2>1, <2>2, <2>3, <2>4, <2>5 DEF AtLeastZero
  <2>7. 60 * (RoundMinutes(b - a) + RoundMinutes(a - from) + RoundMinutes(until - b))
          \in (until - from - 90)..(until - from + 90)
    BY <2>1, <2>3, <2>4, <2>5
  <2> QED
    BY <2>1, <2>3, <2>4, <2>5, <2>6, <2>7
<1> QED
  BY <1>1, ShiftStays, PTL

-----------------------------------------------------------------------------
(* Debouncing.  dedupeClosePunches is a recursion over what is left of the *)
(* day.  FirstsOfRuns says without recursion what it keeps: there is       *)
(* exactly one such set for every day.                                     *)

Punches == [at: Nat]

\* K is what is left of S: kept punches are the debounce apart, and each
\* one dropped follows a kept one within the debounce.
FirstsOfRuns(K, S) ==
    /\ K \subseteq S
    /\ \A e, f \in K: e.at < f.at => f.at - e.at >= Debounce
    /\ \A e \in S \ K: \E k \in K: k.at < e.at /\ e.at - k.at < Debounce

\* A day that is not empty has an earliest punch.
LEMMA EarliestPunch ==
    ASSUME NEW S \in SUBSET Punches, S # {}
    PROVE  Earliest(S) \in S /\ \A f \in S: Earliest(S).at <= f.at
<1> DEFINE T == {e.at: e \in S}
<1>1. T \subseteq Nat /\ T # {}
  BY DEF Punches
<1>2. PICK m \in T: \A n \in T: m <= n
  <2> HIDE DEF T
  <2> QED
    BY <1>1, LeastNatural
<1>3. \E e \in S: \A f \in S: e.at <= f.at
  BY <1>2
<1> QED
  BY <1>3 DEF Earliest

\* A finite day that is not empty has a latest one.
LEMMA LatestPunch ==
    ASSUME NEW S \in SUBSET Punches, IsFiniteSet(S), S # {}
    PROVE  Latest(S) \in S /\ \A f \in S: f.at <= Latest(S).at
<1> DEFINE at == [e \in S |-> e.at]
<1>1. \A e \in S: at[e] = e.at /\ at[e] \in Nat
  BY DEF Punches
<1>2. \E e \in S: \A f \in S: at[f] <= at[e]
  <2> HIDE DEF at
  <2> QED
    BY <1>1, FiniteHasGreatest
<1>3. \E e \in S: \A f \in S: f.at <= e.at
  BY <1>1, <1>2
<1> QED
  BY <1>3 DEF Latest

\* One step of the recursion: the first punch is kept, and of the punches
\* the debounce or more after it, what is left of them.
LEMMA FirstThenRest ==
    ASSUME NEW S \in SUBSET Punches, S # {}, NEW K,
           FirstsOfRuns(K, {e \in S: e.at - Earliest(S).at >= Debounce})
    PROVE  FirstsOfRuns({Earliest(S)} \cup K, S)
<1> DEFINE first == Earliest(S)
           rest == {e \in S: e.at - first.at >= Debounce}
<1>1. first \in S /\ \A f \in S: first.at <= f.at
  BY EarliestPunch
<1> HIDE DEF first
<1>2. FirstsOfRuns(K, rest)
  BY DEF first
<1>3. Debounce \in Nat /\ Debounce > 0 /\ \A e \in S: e.at \in Nat
  BY DayAssumption DEF Punches
<1>4. {first} \cup K \subseteq S
  BY <1>1, <1>2 DEF FirstsOfRuns
<1>5. ASSUME NEW e \in {first} \cup K, NEW f \in {first} \cup K, e.at < f.at
      PROVE  f.at - e.at >= Debounce
  <2>1. f # first
    BY <1>1, <1>3, <1>4, <1>5
  <2>2. f \in K /\ f \in rest
    BY <1>2, <2>1 DEF FirstsOfRuns
  <2>3. CASE e = first
    BY <2>2, <2>3
  <2>4. CASE e \in K
    BY <1>2, <1>5, <2>2, <2>4 DEF FirstsOfRuns
  <2> QED
    BY <2>3, <2>4
<1>6. ASSUME NEW e \in S, e \notin {first} \cup K
      PROVE  \E k \in {first} \cup K: k.at < e.at /\ e.at - k.at < Debounce
  <2>1. CASE e \in rest
    BY <1>2, <1>6, <2>1 DEF FirstsOfRuns
  <2>2. CASE e \notin rest
    <3>1. e.at - first.at < Debounce /\ first.at <= e.at
      BY <1>1, <1>3, <2>2
    <3>2. e.at # first.at
      BY <1>1, <1>6 DEF Punches
    <3> QED
      BY <1>1, <1>3, <3>1, <3>2
  <2> QED
    BY <2>1, <2>2
<1> QED
  BY <1>4, <1>5, <1>6 DEF FirstsOfRuns, first

\* What is left of a day is one set only.
LEMMA FirstsAreUnique ==
    ASSUME NEW S \in SUBSET Punches, NEW K, NEW L,
           FirstsOfRuns(K, S), FirstsOfRuns(L, S)
    PROVE  K = L
<1> DEFINE D == (K \ L) \cup (L \ K)
           T == {e.at: e \in D}
<1> SUFFICES ASSUME K # L PROVE FALSE
  OBVIOUS
<1>1. D \subseteq S /\ D # {} /\ \A e \in S: e.at \in Nat
  BY DEF FirstsOfRuns, Punches
<1>2. PICK m \in T: \A n \in T: m <= n
  <2>1. T \subseteq Nat /\ T # {}
    BY <1>1
  <2> HIDE DEF T
  <2> QED
    BY <2>1, LeastNatural
<1>3. PICK e \in D: \A f \in D: e.at <= f.at
  BY <1>2
<1>4. ASSUME NEW A, NEW B, FirstsOfRuns(A, S), FirstsOfRuns(B, S), e \in A \ B,
             D = (A \ B) \cup (B \ A)
      PROVE  FALSE
  <2>1. PICK k \in B: k.at < e.at /\ e.at - k.at < Debounce
    BY <1>4 DEF FirstsOfRuns
  <2>2. k \in S /\ k.at \in Nat /\ e.at \in Nat
    BY <1>1, <1>4, <2>1 DEF FirstsOfRuns
  <2>3. k \notin D
    BY <1>3, <2>1, <2>2
  <2>4. k \in A
    BY <1>4, <2>1, <2>3
  <2>5. e.at - k.at >= Debounce
    BY <1>4, <2>1, <2>4 DEF FirstsOfRuns
  <2> QED
    BY DayAssumption, <2>1, <2>2, <2>5
<1>5. CASE e \in K \ L
  BY <1>4, <1>5
<1>6. CASE e \in L \ K
  <2>1. D = (L \ K) \cup (K \ L)
    OBVIOUS
  <2> QED
    BY <1>4, <1>6, <2>1
<1> QED
  BY <1>3, <1>5, <1>6

\* After its first punch less of a day is left.
LEMMA RestIsSmaller ==
    ASSUME NEW S \in SUBSET Punches, S # {}
    PROVE  LET rest == {e \in S: e.at - Earliest(S).at >= Debounce}
           IN  rest \subseteq S /\ rest # S
<1>1. Earliest(S) \in S /\ Earliest(S).at \in Nat
  BY EarliestPunch DEF Punches
<1> QED
  BY <1>1, DayAssumption

\* Every finite day has its firsts of runs.
LEMMA FirstsExist ==
    ASSUME NEW S \in SUBSET Punches, IsFiniteSet(S)
    PROVE  \E K: FirstsOfRuns(K, S)
<1> DEFINE F == {D \in SUBSET S: ~ \E K: FirstsOfRuns(K, D)}
<1> SUFFICES ASSUME F # {} PROVE FALSE
  OBVIOUS
<1>1. \A D \in F: IsFiniteSet(D)
  BY FS_Subset
<1>2. PICK D \in F: \A E \in F: (E \subseteq D) => E = D
  <2> HIDE DEF F
  <2> QED
    BY <1>1, SmallestSet
<1>3. D \in SUBSET Punches /\ D # {}
  <2>1. FirstsOfRuns({}, {})
    BY DEF FirstsOfRuns
  <2> QED
    BY <2>1
<1> DEFINE rest == {e \in D: e.at - Earliest(D).at >= Debounce}
<1>4. rest \notin F
  BY <1>2, <1>3, RestIsSmaller
<1>5. PICK K: FirstsOfRuns(K, rest)
  BY <1>4
<1>6. FirstsOfRuns({Earliest(D)} \cup K, D)
  BY <1>3, <1>5, FirstThenRest
<1> QED
  BY <1>6

\* What dedupeClosePunches keeps of a finite day are the firsts of its runs.
\* The recursion has a solution, the function that gives every part of the
\* day its firsts of runs; and any solution of it gives the same.
LEMMA DedupeKeepsFirsts ==
    ASSUME NEW S \in SUBSET Punches, IsFiniteSet(S)
    PROVE  FirstsOfRuns(Effective(S), S)
<1> DEFINE body(f, R) ==
             IF R = {} THEN {}
             ELSE LET first == Earliest(R)
                  IN  {first} \cup f[{e \in R: e.at - first.at >= Debounce}]
           Solves(f) == f = [R \in SUBSET S |-> body(f, R)]
           keep == CHOOSE f: Solves(f)
           g == [R \in SUBSET S |-> CHOOSE K: FirstsOfRuns(K, R)]
<1>1. ASSUME NEW R \in SUBSET S PROVE FirstsOfRuns(g[R], R)
  <2>1. R \in SUBSET Punches /\ IsFiniteSet(R)
    BY FS_Subset
  <2>2. \E K: FirstsOfRuns(K, R)
    BY <2>1, FirstsExist
  <2> QED
    BY <2>2
<1>2. FirstsOfRuns({}, {})
  BY DEF FirstsOfRuns
<1>3. Solves(g)
  <2>1. ASSUME NEW R \in SUBSET S PROVE g[R] = body(g, R)
    <3>1. R \in SUBSET Punches /\ FirstsOfRuns(g[R], R)
      BY <1>1
    <3>2. CASE R = {}
      <4> HIDE DEF g
      <4>1. g[R] = {}
        BY <1>2, <3>1, <3>2, FirstsAreUnique
      <4> QED
        BY <3>2, <4>1
    <3>3. CASE R # {}
      <4> DEFINE rest == {e \in R: e.at - Earliest(R).at >= Debounce}
      <4>1. rest \in SUBSET S
        OBVIOUS
      <4>2. FirstsOfRuns(g[rest], rest)
        BY <1>1, <4>1
      <4> HIDE DEF g
      <4>3. FirstsOfRuns({Earliest(R)} \cup g[rest], R)
        BY <3>1, <3>3, <4>2, FirstThenRest
      <4>4. g[R] = {Earliest(R)} \cup g[rest]
        BY <3>1, <4>3, FirstsAreUnique
      <4> QED
        BY <3>3, <4>4
    <3> QED
      BY <3>2, <3>3
  <2>2. g = [R \in SUBSET S |-> g[R]]
    OBVIOUS
  <2> HIDE DEF g, body
  <2> QED
    BY <2>1, <2>2
<1>4. Solves(keep)
  <2> HIDE DEF Solves, g
  <2> QED
    BY <1>3
<1>5. Effective(S) = S \cap keep[S]
  BY DEF Effective, DedupeClosePunches
<1> HIDE DEF keep
<1>6. ASSUME NEW R \in SUBSET S PROVE keep[R] = body(keep, R)
  BY <1>4
<1> DEFINE F == {D \in SUBSET S: ~ FirstsOfRuns(keep[D], D)}
<1>7. F = {}
  <2> SUFFICES ASSUME F # {} PROVE FALSE
    OBVIOUS
  <2>1. \A D \in F: IsFiniteSet(D)
    BY FS_Subset
  <2>2. PICK D \in F: \A E \in F: (E \subseteq D) => E = D
    <3> HIDE DEF F
    <3> QED
      BY <2>1, SmallestSet
  <2>3. D \in SUBSET Punches /\ D # {} /\ D \in SUBSET S
    <3>1. keep[{}] = {}
      BY <1>6
    <3> QED
      BY <1>2, <3>1
  <2> DEFINE rest == {e \in D: e.at - Earliest(D).at >= Debounce}
  <2>4. rest \notin F /\ rest \in SUBSET S
    BY <2>2, <2>3, RestIsSmaller
  <2>5. FirstsOfRuns(keep[rest], rest)
    BY <2>4
  <2>6. FirstsOfRuns({Earliest(D)} \cup keep[rest], D)
    BY <2>3, <2>5, FirstThenRest
  <2>7. keep[D] = {Earliest(D)} \cup keep[rest]
    BY <1>6, <2>3
  <2> QED
    BY <2>6, <2>7
<1>8. FirstsOfRuns(keep[S], S)
  BY <1>7
<1>9. S \cap keep[S] = keep[S]
  BY <1>8 DEF FirstsOfRuns
<1> QED
  BY <1>5, <1>8, <1>9

-----------------------------------------------------------------------------
(* The day's check-in and check-out.                                       *)

DayOK == day \in SUBSET Punches /\ IsFiniteSet(day)

\* The stored punches are finitely many: they come one by one.
LEMMA DayInvariance == Spec => []DayOK
<1>1. Init => DayOK
  BY FS_EmptySet DEF Init, DayOK
<1>2. ASSUME DayOK, [Next]_vars PROVE DayOK'
  <2>1. CASE Next
    <3>1. PICK at \in PunchTimes: PunchArrives(at)
      BY <2>1 DEF Next
    <3>2. [at |-> at] \in Punches
      <4>1. at \in Nat
        <5>1. SecondsPerDay - 1 \in Int
          BY DEF SecondsPerDay, MinutesPerDay
        <5> QED
          BY <5>1, DayAssumption
      <4> QED
        BY <4>1 DEF Punches
    <3>3. IsFiniteSet(day \cup {[at |-> at]})
      BY <1>2, FS_AddElement DEF DayOK
    <3> QED
      BY <1>2, <3>1, <3>2, <3>3 DEF DayOK, PunchArrives
  <2>2. CASE UNCHANGED vars
    BY <1>2, <2>2 DEF DayOK, vars
  <2> QED
    BY <1>2, <2>1, <2>2
<1> QED
  BY <1>1, <1>2, PTL DEF Spec

\* dedupeClosePunches keeps the first punch of every run, for any punches
\* and any debounce: the property DebounceKeepsFirstOfRun.
THEOREM DebounceTheorem == Spec => []DebounceKeepsFirstOfRun
<1>1. DayOK => DebounceKeepsFirstOfRun
  BY DedupeKeepsFirsts DEF DayOK, DebounceKeepsFirstOfRun, FirstsOfRuns
<1> QED
  BY <1>1, DayInvariance, PTL

\* The first punch is never dropped: it is the check-in.
LEMMA CheckInIsFirst ==
    ASSUME NEW S \in SUBSET Punches, IsFiniteSet(S), S # {}
    PROVE  Earliest(S) \in Effective(S) /\ CheckInAt(S) = Earliest(S).at
<1>1. Earliest(S) \in S /\ \A f \in S: Earliest(S).at <= f.at
  BY EarliestPunch
<1>2. FirstsOfRuns(Effective(S), S)
  BY DedupeKeepsFirsts
<1>3. Earliest(S) \in Effective(S)
  <2> SUFFICES ASSUME Earliest(S) \in S \ Effective(S) PROVE FALSE
    BY <1>1
  <2>1. PICK k \in Effective(S): k.at < Earliest(S).at
    BY <1>2 DEF FirstsOfRuns
  <2>2. k \in S /\ k.at \in Nat /\ Earliest(S).at \in Nat
    BY <1>1, <1>2 DEF FirstsOfRuns, Punches
  <2> QED
    BY <1>1, <2>1, <2>2
<1> DEFINE ins == {e \in Effective(S): OrderLabel(e, S) = "in"}
<1>4. ins = {Earliest(S)}
  BY <1>3 DEF OrderLabel
<1>5. Earliest(ins) = Earliest(S)
  <2>1. ins \in SUBSET Punches /\ ins # {}
    BY <1>1, <1>4
  <2>2. Earliest(ins) \in ins
    <3> HIDE DEF ins
    <3> QED
      BY <2>1, EarliestPunch
  <2> QED
    BY <1>4, <2>2
<1>6. CheckInAt(S) = Earliest(ins).at
  BY <1>4 DEF CheckInAt, FirstPunchAt
<1> QED
  BY <1>3, <1>5, <1>6

\* The check-out is the latest of the other kept punches, if there is one.
LEMMA CheckOutIsLast ==
    ASSUME NEW S \in SUBSET Punches, IsFiniteSet(S)
    PROVE  /\ CheckOutAt(S) # Null =>
                 \E e \in Effective(S) \ {Earliest(S)}: CheckOutAt(S) = e.at
           /\ \A e \in Effective(S) \ {Earliest(S)}:
                 /\ CheckOutAt(S) # Null
                 /\ CheckOutAt(S) \in Nat
                 /\ e.at <= CheckOutAt(S)
<1> DEFINE outs == {e \in Effective(S): OrderLabel(e, S) = "out"}
<1>1. outs = Effective(S) \ {Earliest(S)}
  BY DEF OrderLabel
<1>2. outs \in SUBSET Punches /\ IsFiniteSet(outs)
  <2>1. outs \in SUBSET S
    BY DedupeKeepsFirsts DEF FirstsOfRuns
  <2> HIDE DEF outs
  <2> QED
    BY <2>1, FS_Subset
<1>3. CheckOutAt(S) = LastPunchAt(outs)
  BY DEF CheckOutAt
<1> HIDE DEF outs
<1>4. CASE outs = {}
  BY <1>1, <1>3, <1>4 DEF LastPunchAt
<1>5. CASE outs # {}
  <2>1. Latest(outs) \in outs /\ \A f \in outs: f.at <= Latest(outs).at
    BY <1>2, <1>5, LatestPunch
  <2>2. Latest(outs).at \in Nat
    BY <1>2, <2>1 DEF Punches
  <2>3. CheckOutAt(S) = Latest(outs).at
    BY <1>3, <1>5 DEF LastPunchAt
  <2>4. CheckOutAt(S) # Null
    BY <2>2, <2>3, NullIsNoValue
  <2> QED
    BY <1>1, <2>1, <2>2, <2>3, <2>4
<1> QED
  BY <1>4, <1>5

\* Relabelling and debouncing together make the day span from its very
\* first punch to within the debounce of its very last, for any punches: the
\* property DeviceDaySpan.
THEOREM DeviceDaySpanTheorem == Spec => []DeviceDaySpan
<1>1. ASSUME DayOK PROVE DeviceDaySpan
  <2> DEFINE cin == CheckInAt(day)
             cout == CheckOutAt(day)
             last == IF cout = Null THEN cin ELSE cout
             first == Earliest(day)
             kept == Effective(day)
  <2> SUFFICES ASSUME day # {}
               PROVE  /\ cin = first.at
                      /\ cout # Null => cout - cin >= Debounce
                      /\ \A e \in day: e.at < last + Debounce
    BY DEF DeviceDaySpan
  <2>1. day \in SUBSET Punches /\ IsFiniteSet(day)
    BY <1>1 DEF DayOK
  <2>2. first \in kept /\ cin = first.at
    BY <2>1, CheckInIsFirst
  <2>3. /\ kept \subseteq day
        /\ \A e, f \in kept: e.at < f.at => f.at - e.at >= Debounce
        /\ \A e \in day \ kept: \E k \in kept: k.at < e.at /\ e.at - k.at < Debounce
    BY <2>1, DedupeKeepsFirsts DEF FirstsOfRuns
  <2>4. /\ cout # Null => \E e \in kept \ {first}: cout = e.at
        /\ \A e \in kept \ {first}: cout # Null /\ cout \in Nat /\ e.at <= cout
    BY <2>1, CheckOutIsLast
  <2>5. first \in day /\ \A e \in day: first.at <= e.at
    BY <2>1, EarliestPunch
  <2>6. \A e \in day: e.at \in Nat /\ (e # first => e.at # first.at)
    BY <2>1, <2>5 DEF Punches
  <2>7. Debounce \in Nat /\ Debounce > 0
    BY DayAssumption
  <2> HIDE DEF cin, cout, first, kept
  <2>8. ASSUME cout # Null PROVE cout - cin >= Debounce
    <3>1. PICK e \in kept \ {first}: cout = e.at
      BY <2>4, <2>8
    <3>2. first.at < e.at
      BY <2>3, <2>5, <2>6, <3>1
    <3> QED
      BY <2>2, <2>3, <3>1, <3>2
  <2>9. ASSUME NEW k \in kept PROVE k.at <= last /\ last \in Nat
    <3>1. CASE k = first /\ cout = Null
      BY <2>2, <2>5, <2>6, <3>1
    <3>2. CASE k = first /\ cout # Null
      BY <2>2, <2>4, <2>5, <2>6, <2>7, <2>8, <3>2
    <3>3. CASE k # first
      BY <2>4, <2>9, <3>3
    <3> QED
      BY <3>1, <3>2, <3>3
  <2>10. ASSUME NEW e \in day PROVE e.at < last + Debounce
    <3>1. CASE e \in kept
      BY <2>6, <2>7, <2>9, <3>1
    <3>2. CASE e \notin kept
      <4>1. PICK k \in kept: e.at - k.at < Debounce
        BY <2>3, <3>2
      <4>2. k.at <= last /\ last \in Nat /\ k.at \in Nat /\ e.at \in Nat
        BY <2>3, <2>6, <2>9
      <4> HIDE DEF last
      <4> QED
        BY <2>7, <4>1, <4>2
    <3> QED
      BY <3>1, <3>2
  <2> QED
    BY <2>2, <2>8, <2>10
<1> QED
  BY <1>1, DayInvariance, PTL

-----------------------------------------------------------------------------
(* A punch at an end of the day.                                           *)

\* After all others, a punch is kept or not; the others are as before.
LEMMA FirstsBeforeLast ==
    ASSUME NEW S \in SUBSET Punches, NEW K, FirstsOfRuns(K, S),
           NEW e \in Punches, \A f \in S: f.at < e.at
    PROVE  \E L: K \subseteq L /\ FirstsOfRuns(L, S \cup {e})
<1>1. e.at \in Nat /\ (\A f \in S: f.at \in Nat) /\ K \subseteq S /\ e \notin S
  BY DEF FirstsOfRuns, Punches
<1>2. CASE \E k \in K: e.at - k.at < Debounce
  <2>1. FirstsOfRuns(K, S \cup {e})
    BY <1>1, <1>2 DEF FirstsOfRuns
  <2> QED
    BY <2>1
<1>3. CASE \A k \in K: e.at - k.at >= Debounce
  <2>1. \A k, l \in K \cup {e}: k.at < l.at => l.at - k.at >= Debounce
    <3> SUFFICES ASSUME NEW k \in K \cup {e}, NEW l \in K \cup {e}, k.at < l.at
                 PROVE  l.at - k.at >= Debounce
      OBVIOUS
    <3>1. k # e
      BY <1>1
    <3>2. CASE l = e
      BY <1>3, <3>1, <3>2
    <3>3. CASE l # e
      BY <3>1, <3>3 DEF FirstsOfRuns
    <3> QED
      BY <3>2, <3>3
  <2>2. FirstsOfRuns(K \cup {e}, S \cup {e})
    BY <1>1, <2>1 DEF FirstsOfRuns
  <2> QED
    BY <2>2
<1>4. \A k \in K: e.at - k.at < Debounce \/ e.at - k.at >= Debounce
  BY <1>1, DayAssumption
<1> QED
  BY <1>2, <1>3, <1>4

\* The debounce or more before all others, it is kept with them.
LEMMA FirstsAfterFirst ==
    ASSUME NEW S \in SUBSET Punches, NEW K, FirstsOfRuns(K, S),
           NEW e \in Punches, \A f \in S: e.at + Debounce <= f.at
    PROVE  FirstsOfRuns(K \cup {e}, S \cup {e})
<1>1. e.at \in Nat /\ (\A f \in S: f.at \in Nat) /\ K \subseteq S
      /\ Debounce \in Nat /\ Debounce > 0
  BY DayAssumption DEF FirstsOfRuns, Punches
<1>2. \A k, l \in K \cup {e}: k.at < l.at => l.at - k.at >= Debounce
  <2> SUFFICES ASSUME NEW k \in K \cup {e}, NEW l \in K \cup {e}, k.at < l.at
               PROVE  l.at - k.at >= Debounce
    OBVIOUS
  <2>1. l # e
    BY <1>1
  <2>2. CASE k = e
    BY <1>1, <2>1, <2>2
  <2>3. CASE k # e
    BY <2>1, <2>3 DEF FirstsOfRuns
  <2> QED
    BY <2>2, <2>3
<1> QED
  BY <1>1, <1>2 DEF FirstsOfRuns

\* The day with such a punch comes in no later and goes out no earlier.
LEMMA EndPunchExtends ==
    ASSUME NEW S \in SUBSET Punches, IsFiniteSet(S), NEW e \in Punches \ S,
           CheckOutAt(S) # Null,
           \/ \A f \in S: e.at + Debounce <= f.at
           \/ \A f \in S: f.at < e.at
    PROVE  LET T == S \cup {e}
           IN  /\ CheckInAt(S) \in Nat /\ CheckOutAt(S) \in Nat
               /\ CheckInAt(T) \in Nat /\ CheckOutAt(T) \in Nat
               /\ CheckInAt(T) <= CheckInAt(S)
               /\ CheckOutAt(S) <= CheckOutAt(T)
<1> DEFINE T == S \cup {e}
<1>1. T \in SUBSET Punches /\ IsFiniteSet(T) /\ T # {}
  BY FS_AddElement
<1>2. FirstsOfRuns(Effective(S), S) /\ FirstsOfRuns(Effective(T), T)
  BY <1>1, DedupeKeepsFirsts
<1>3. PICK k \in Effective(S) \ {Earliest(S)}: CheckOutAt(S) = k.at
  BY CheckOutIsLast
<1>4. k \in S /\ k.at \in Nat /\ S # {}
  BY <1>2, <1>3 DEF FirstsOfRuns, Punches
<1>5. k \in Effective(T)
  <2>1. CASE \A f \in S: e.at + Debounce <= f.at
    <3>1. FirstsOfRuns(Effective(S) \cup {e}, T)
      BY <1>2, <2>1, FirstsAfterFirst
    <3>2. Effective(T) = Effective(S) \cup {e}
      BY <1>1, <1>2, <3>1, FirstsAreUnique
    <3> QED
      BY <1>3, <3>2
  <2>2. CASE \A f \in S: f.at < e.at
    <3>1. PICK L: Effective(S) \subseteq L /\ FirstsOfRuns(L, T)
      BY <1>2, <2>2, FirstsBeforeLast
    <3>2. Effective(T) = L
      BY <1>1, <1>2, <3>1, FirstsAreUnique
    <3> QED
      BY <1>3, <3>1, <3>2
  <2> QED
    BY <2>1, <2>2
<1>6. /\ Earliest(S) \in S /\ \A f \in S: Earliest(S).at <= f.at
      /\ Earliest(T) \in T /\ \A f \in T: Earliest(T).at <= f.at
  BY <1>1, <1>4, EarliestPunch
<1>7. Earliest(S).at \in Nat /\ Earliest(T).at \in Nat /\ e.at \in Nat
  BY <1>1, <1>6 DEF Punches
<1>8. k # Earliest(T)
  <2>1. Earliest(S).at < k.at
    BY <1>3, <1>4, <1>6, <1>7 DEF Punches
  <2>2. Earliest(T).at <= Earliest(S).at
    BY <1>6
  <2> QED
    BY <1>4, <1>7, <2>1, <2>2
<1>9. CheckInAt(S) = Earliest(S).at /\ CheckInAt(T) = Earliest(T).at
  BY <1>1, <1>4, CheckInIsFirst
<1>10. CheckOutAt(T) \in Nat /\ k.at <= CheckOutAt(T)
  BY <1>1, <1>5, <1>8, CheckOutIsLast
<1> QED
  BY <1>3, <1>4, <1>6, <1>7, <1>9, <1>10

\* For every shift and any punches, a punch after the last, or the debounce
\* or more before the first, never makes the status of a day with a
\* check-out worse: the action property EndPunchNeverWorsens.
THEOREM EndPunchTheorem == Spec => EndPunchNeverWorsens
<1> DEFINE A == \A e \in day' \ day:
                   (/\ CheckOutAt(day) # Null
                    /\ \/ \A f \in day: e.at + Debounce <= f.at
                       \/ \A f \in day: f.at < e.at)
                   => Rank[DayStatus(day)] <= Rank[DayStatus(day')]
<1>1. ASSUME ShiftOK, DayOK, DayOK', [Next]_vars PROVE [A]_vars
  <2> SUFFICES ASSUME Next, NEW e \in day' \ day, CheckOutAt(day) # Null,
                      \/ \A f \in day: e.at + Debounce <= f.at
                      \/ \A f \in day: f.at < e.at
               PROVE  Rank[DayStatus(day)] <= Rank[DayStatus(day')]
    BY <1>1
  <2>1. day' = day \cup {e} /\ e \in Punches \ day
    <3>1. PICK at \in PunchTimes: PunchArrives(at)
      BY DEF Next
    <3>2. day' = day \cup {[at |-> at]}
      BY <3>1 DEF PunchArrives
    <3>3. e = [at |-> at]
      BY <3>2
    <3> QED
      BY <1>1, <3>2, <3>3 DEF DayOK
  <2>2. day \in SUBSET Punches /\ IsFiniteSet(day)
    BY <1>1 DEF DayOK
  <2>3. /\ CheckInAt(day) \in Nat /\ CheckOutAt(day) \in Nat
        /\ CheckInAt(day \cup {e}) \in Nat /\ CheckOutAt(day \cup {e}) \in Nat
        /\ CheckInAt(day \cup {e}) <= CheckInAt(day)
        /\ CheckOutAt(day) <= CheckOutAt(day \cup {e})
    BY <2>1, <2>2, EndPunchExtends
  <2>4. Rank[BaseStatus(CheckInAt(day), CheckOutAt(day), shift)]
          <= Rank[BaseStatus(CheckInAt(day \cup {e}), CheckOutAt(day \cup {e}), shift)]
    BY <1>1, <2>3, LongerStay DEF ShiftOK
  <2>5. \A S: DayStatus(S) = BaseStatus(CheckInAt(S), CheckOutAt(S), shift)
    BY DEF DayStatus, ComputeMetrics
  <2> QED
    BY <2>1, <2>4, <2>5
<1> QED
  BY <1>1, ShiftStays, DayInvariance, PTL DEF Spec, EndPunchNeverWorsens

=============================================================================
