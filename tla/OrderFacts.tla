------------------------------ MODULE OrderFacts ------------------------------
(***************************************************************************)
(* Least and greatest elements: what the CHOOSE of a first or last row     *)
(* finds, the principle of induction for sets of numbers, and the function *)
(* that a loop over numbers computes.                                      *)
(***************************************************************************)
EXTENDS Integers, FiniteSets, FiniteSetTheorems, WellFoundedInduction, TLAPS

\* A set of natural numbers that is not empty has a least element.
LEMMA LeastElement ==
    ASSUME NEW T \in SUBSET Nat, T # {}
    PROVE  \E m \in T : \A k \in T : m <= k
<1> DEFINE R == {ss \in Nat \X Nat : ss[1] < ss[2]}
<1>1. IsWellFoundedOn(R, Nat)
  BY NatLessThanWellFounded DEF OpToRel
<1>2. PICK x \in T : \A y \in T : <<y, x>> \notin R
  <2> HIDE DEF R
  <2>1. QED
    BY <1>1, WFMin
<1>3. ASSUME NEW y \in T
      PROVE  x <= y
  <2>1. <<y, x>> \in Nat \X Nat /\ ~(y < x)
    BY <1>2
  <2>2. QED
    BY <2>1
<1>4. QED
  BY <1>3

\* A set of natural numbers that has 0 and with each number the next has all.
LEMMA SetInduction ==
    ASSUME NEW T, 0 \in T, \A n \in Nat : n \in T => n + 1 \in T
    PROVE  Nat \subseteq T
<1> SUFFICES ASSUME Nat \ T # {} PROVE FALSE
  OBVIOUS
<1>1. PICK m \in Nat \ T : \A k \in Nat \ T : m <= k
  BY LeastElement
<1>2. m - 1 \in Nat /\ m - 1 \in T
  BY <1>1
<1>3. QED
  BY <1>1, <1>2

\* The same downwards, on an interval.
LEMMA DownwardInduction ==
    ASSUME NEW T, NEW first \in Nat, NEW top \in Nat, top \in T,
           \A d \in first..top : d # top /\ d + 1 \in T => d \in T
    PROVE  first..top \subseteq T
<1> DEFINE S == {n \in Nat : top - n \in first..top => top - n \in T}
<1>1. 0 \in S
  OBVIOUS
<1>2. \A n \in Nat : n \in S => n + 1 \in S
  <2> SUFFICES ASSUME NEW n \in Nat, n \in S, top - (n + 1) \in first..top
               PROVE  top - (n + 1) \in T
    OBVIOUS
  <2> DEFINE d == top - (n + 1)
  <2>1. d \in first..top /\ d + 1 = top - n /\ d # top /\ top - n \in first..top
    OBVIOUS
  <2>2. d + 1 \in T
    BY <2>1
  <2> HIDE DEF d
  <2>3. d \in T
    BY <2>1, <2>2
  <2>4. QED
    BY <2>3 DEF d
<1>3. Nat \subseteq S
  <2> HIDE DEF S
  <2>1. QED
    BY <1>1, <1>2, SetInduction
<1>4. ASSUME NEW d \in first..top
      PROVE  d \in T
  <2>1. top - d \in Nat /\ top - (top - d) = d
    OBVIOUS
  <2>2. QED
    BY <1>3, <2>1
<1>5. QED
  BY <1>4

\* A finite set of natural numbers that is not empty has a greatest element.
LEMMA GreatestElement ==
    ASSUME NEW S \in SUBSET Nat, IsFiniteSet(S), S # {}
    PROVE  \E m \in S : \A k \in S : k <= m
<1> DEFINE Bad == {T \in SUBSET S : T # {} /\ \A m \in T : \E k \in T : ~(k <= m)}
           R == StrictSubsetOrdering(S)
<1> SUFFICES ASSUME Bad # {} PROVE FALSE
  BY DEF Bad
<1>1. IsWellFoundedOn(R, SUBSET S)
  BY FS_StrictSubsetOrderingWellFounded, FS_FiniteSubsetsOfFinite
<1>2. PICK T \in Bad : \A U \in Bad : <<U, T>> \notin R
  <2>1. Bad \subseteq SUBSET S
    OBVIOUS
  <2> HIDE DEF Bad, R
  <2>2. QED
    BY <1>1, <2>1, WFMin
<1>3. PICK x \in T : TRUE
  OBVIOUS
<1> DEFINE U == T \ {x}
<1>4. U \in SUBSET S /\ U # T /\ U \subseteq T
  BY <1>3
<1>5. <<U, T>> \in R
  <2>1. <<U, T>> \in (SUBSET S) \X (SUBSET S)
    BY <1>4
  <2>2. QED
    BY <1>4, <2>1 DEF StrictSubsetOrdering
<1>6. U \notin Bad
  BY <1>2, <1>5
<1>7. CASE U = {}
  BY <1>3, <1>7
<1>8. CASE U # {}
  <2>1. PICK m \in U : \A k \in U : k <= m
    BY <1>4, <1>6, <1>8
  <2>2. CASE x <= m
    BY <2>1, <2>2
  <2>3. CASE ~(x <= m)
    <3>1. \A k \in T : k <= x
      BY <2>1, <2>3, <1>3
    <3>2. QED
      BY <1>3, <3>1
  <2>4. QED
    BY <2>2, <2>3
<1>9. QED
  BY <1>7, <1>8

\* A function on an interval that is given at its end and, before it, by
\* what it is one further on: a loop that counts up to a bound.
Loop(f, V, first, length, last, G) ==
    /\ f \in [first..(first + length) -> V]
    /\ \A d \in first..(first + length) :
          f[d] = IF d = first + length THEN last ELSE G[d][f[d + 1]]

\* There is one, whatever the end and the step are.
LEMMA LoopExists ==
    ASSUME NEW V, NEW first \in Nat, NEW length \in Nat,
           NEW last \in V, NEW G \in [Nat -> [V -> V]]
    PROVE  \E f : Loop(f, V, first, length, last, G)
<1> DEFINE top == first + length
           From(n) == (top - n)..top
           Solves(f, n) == \A d \in From(n) :
                              f[d] = IF d = top THEN last ELSE G[d][f[d + 1]]
           T == {n \in Nat : n <= length => \E f \in [From(n) -> V] : Solves(f, n)}
<1>1. 0 \in T
  <2> DEFINE g == [d \in From(0) |-> last]
  <2>1. g \in [From(0) -> V] /\ Solves(g, 0)
    OBVIOUS
  <2>2. QED
    BY <2>1
<1>2. ASSUME NEW n \in Nat, n \in T
      PROVE  n + 1 \in T
  <2>1. CASE ~(n + 1 <= length)
    BY <2>1
  <2>2. CASE n + 1 <= length
    <3>1. PICK f \in [From(n) -> V] : Solves(f, n)
      BY <1>2, <2>2
    <3> DEFINE m == top - (n + 1)
               g == [d \in From(n + 1) |-> IF d = m THEN G[m][f[m + 1]] ELSE f[d]]
    <3>2. /\ m \in Nat /\ m # top /\ m + 1 \in From(n)
          /\ From(n + 1) = From(n) \cup {m} /\ m \notin From(n)
      <4>1. top \in Nat /\ m \in Nat /\ m + 1 = top - n /\ m < top
        BY <2>2
      <4>2. From(n) = (m + 1)..top /\ From(n + 1) = m..top
        BY <4>1
      <4> HIDE DEF m, top, From
      <4>3. QED
        BY <4>1, <4>2
    <3>3. G[m][f[m + 1]] \in V
      BY <3>2
    <3>4. g \in [From(n + 1) -> V]
      BY <3>2, <3>3
    <3>5. \A d \in From(n) : g[d] = f[d] /\ (d # top => d + 1 \in From(n))
      BY <3>2
    <3>6. g[m] = G[m][f[m + 1]]
      BY <3>2
    <3>7. Solves(g, n + 1)
      <4> HIDE DEF g, From, m
      <4>1. QED
        BY <3>1, <3>2, <3>5, <3>6
    <3> HIDE DEF g, From, Solves
    <3>8. QED
      BY <3>4, <3>7
  <2>3. QED
    BY <2>1, <2>2
<1>3. length \in T
  <2> HIDE DEF T
  <2>1. QED
    BY <1>1, <1>2, SetInduction
<1>4. PICK f \in [From(length) -> V] : Solves(f, length)
  BY <1>3
<1>5. From(length) = first..(first + length)
  OBVIOUS
<1>6. QED
  <2>1. f \in [first..(first + length) -> V]
    BY <1>5
  <2>2. \A d \in first..(first + length) :
           f[d] = IF d = first + length THEN last ELSE G[d][f[d + 1]]
    BY <1>4, <1>5
  <2>3. QED
    BY <2>1, <2>2 DEF Loop

=============================================================================
