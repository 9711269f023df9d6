----------------------------- MODULE OrderLemmas -----------------------------
(***************************************************************************)
(* Least and greatest elements, which queries that sort or take the first  *)
(* row answer with.  The induction theorems of the library take a property *)
(* as parameter; these are about sets and functions, for any of them.      *)
(***************************************************************************)
EXTENDS Naturals, FiniteSetTheorems, WellFoundedInduction, TLAPS

\* A non-empty set of natural numbers has a least element.
LEMMA LeastNatural ==
    ASSUME NEW T, T \subseteq Nat, T # {}
    PROVE  \E m \in T: \A n \in T: m <= n
<1> DEFINE R == OpToRel(<, Nat)
<1>1. IsWellFoundedOn(R, Nat)
  BY NatLessThanWellFounded
<1>2. PICK m \in T: \A n \in T: ~ (<<n, m>> \in R)
  <2> HIDE DEF R
  <2> QED
    BY <1>1, WFMin
<1>3. ASSUME NEW n \in T PROVE m <= n
  <2>1. m \in Nat /\ n \in Nat
    OBVIOUS
  <2>2. <<n, m>> \notin R
    BY <1>2
  <2>3. ~ (n < m)
    BY <2>1, <2>2 DEF OpToRel
  <2> QED
    BY <2>1, <2>3
<1> QED
  BY <1>3

\* A set of finite sets that is not empty has one of which no proper subset
\* is in it.
LEMMA SmallestSet ==
    ASSUME NEW F, F # {}, \A D \in F: IsFiniteSet(D)
    PROVE  \E D \in F: \A E \in F: (E \subseteq D) => E = D
<1> DEFINE T == {Cardinality(D): D \in F}
<1>1. T \subseteq Nat /\ T # {}
  BY FS_CardinalityType
<1>2. PICK m \in T: \A n \in T: m <= n
  BY <1>1, LeastNatural
<1>3. PICK D \in F: m = Cardinality(D)
  OBVIOUS
<1>4. ASSUME NEW E \in F, E \subseteq D PROVE E = D
  <2>1. IsFiniteSet(D) /\ Cardinality(D) <= Cardinality(E)
    BY <1>2, <1>3
  <2>2. Cardinality(E) <= Cardinality(D) /\ (Cardinality(D) = Cardinality(E) => D = E)
    <3>1. E \in SUBSET D
      BY <1>4
    <3> QED
      BY <2>1, <3>1, FS_Subset
  <2>3. Cardinality(E) \in Nat /\ Cardinality(D) \in Nat
    BY FS_CardinalityType
  <2> QED
    BY <2>1, <2>2, <2>3
<1> QED
  BY <1>4

\* Of finitely many elements that are mapped to natural numbers, one is mapped
\* to the greatest.
LEMMA FiniteHasGreatest ==
    ASSUME NEW S, IsFiniteSet(S), S # {}, NEW f, \A x \in S: f[x] \in Nat
    PROVE  \E x \in S: \A y \in S: f[y] <= f[x]
<1> DEFINE Topped(D) == \E x \in D: \A y \in D: f[y] <= f[x]
           F == {D \in SUBSET S: D # {} /\ ~Topped(D)}
<1> SUFFICES ASSUME F # {} PROVE FALSE
  OBVIOUS
<1>1. \A D \in F: IsFiniteSet(D)
  BY FS_Subset
<1>2. PICK D \in F: \A E \in F: (E \subseteq D) => E = D
  <2> HIDE DEF F
  <2> QED
    BY <1>1, SmallestSet
<1>3. PICK x \in D: TRUE
  OBVIOUS
<1>4. D \ {x} \notin F
  BY <1>2, <1>3
<1>5. CASE D \ {x} = {}
  <2>1. Topped(D)
    BY <1>3, <1>5
  <2> QED
    BY <2>1
<1>6. CASE Topped(D \ {x})
  <2>1. PICK z \in D \ {x}: \A y \in D \ {x}: f[y] <= f[z]
    BY <1>6
  <2>2. \A y \in D: f[y] \in Nat
    OBVIOUS
  <2>3. CASE f[x] <= f[z]
    BY <2>1, <2>3
  <2>4. CASE f[z] <= f[x]
    BY <2>1, <2>2, <2>4
  <2> QED
    BY <2>2, <2>3, <2>4
<1> QED
  BY <1>4, <1>5, <1>6

==============================================================================
