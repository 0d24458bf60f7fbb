--------------------------- MODULE DealPricingProofs ---------------------------
(***************************************************************************)
(* Proofs about DealPricing, for any currencies, dates, amounts and states *)
(* of the reference data: what a VALID deal is worth, where and when it is *)
(* paid, and that validating it again changes nothing.                     *)
(***************************************************************************)
EXTENDS DealPricing, OrderFacts

-----------------------------------------------------------------------------
(***************************************************************************)
(* Counting business days                                                  *)
(***************************************************************************)
\* The days of a calendar from one day to another.
Days(calendar, from, to) == calendar \cap (from..to)

\* They are finitely many.
LEMMA DaysFinite ==
    ASSUME NEW calendar, NEW from \in Nat, NEW to \in Nat
    PROVE  IsFiniteSet(Days(calendar, from, to))
<1>1. IsFiniteSet(from..to)
  BY FS_Interval
<1>2. QED
  BY <1>1, FS_Subset DEF Days

\* A period that ends before it begins has no day.
LEMMA NoDays ==
    ASSUME NEW calendar, NEW from \in Nat, NEW to \in Nat, to < from
    PROVE  Cardinality(Days(calendar, from, to)) = 0
<1>1. Days(calendar, from, to) = {}
  BY DEF Days
<1>2. QED
  BY <1>1, FS_EmptySet

\* A period that begins a day earlier has that day too, if it is one of the
\* calendar.
LEMMA OneMoreDay ==
    ASSUME NEW calendar, NEW from \in Nat, NEW to \in Nat, from <= to
    PROVE  LET later == Cardinality(Days(calendar, from + 1, to))
           IN  /\ later \in Nat
               /\ Cardinality(Days(calendar, from, to)) =
                     IF from \in calendar THEN later + 1 ELSE later
<1> DEFINE L == Days(calendar, from + 1, to)
<1>1. IsFiniteSet(L) /\ Cardinality(L) \in Nat
  BY DaysFinite, FS_CardinalityType
<1>2. from \notin L
  BY DEF Days
<1>3. Days(calendar, from, to) = IF from \in calendar THEN L \cup {from} ELSE L
  BY DEF Days
<1> HIDE DEF L
<1>4. Cardinality(L \cup {from}) = Cardinality(L) + 1
  BY <1>1, <1>2, FS_AddElement
<1>5. QED
  BY <1>1, <1>3, <1>4 DEF L

-----------------------------------------------------------------------------
(***************************************************************************)
(* The loops of _add_business_days.  A recursive function is a function    *)
(* for which the equation holds, if there is one.                          *)
(***************************************************************************)
\* The two loops, as equations.
Rolls(f, start, calendar) ==
    f = [d \in start..(start + Patience + 1) |->
            IF d \in calendar THEN d
            ELSE IF d + 1 > start + Patience THEN NoDate
            ELSE f[d + 1]]
Walks(f, start, business_days, calendar) ==
    f = [d \in start..(start + Patience + 1) |->
            [added \in 0..business_days |->
                IF added = business_days THEN d
                ELSE IF d + 1 > start + Patience THEN NoDate
                ELSE f[d + 1][IF d + 1 \in calendar THEN added + 1 ELSE added]]]

\* Both are equations that some function satisfies.
LEMMA RollExists ==
    ASSUME NEW start \in Nat, NEW calendar
    PROVE  \E f : Rolls(f, start, calendar)
<1> DEFINE n == Patience + 1
           G == [d \in Nat |-> [v \in Int |-> IF d \in calendar THEN d
                                              ELSE IF d + 1 > start + Patience
                                                   THEN NoDate ELSE v]]
           last == IF start + n \in calendar THEN start + n ELSE NoDate
<1>1. n \in Nat /\ last \in Int /\ G \in [Nat -> [Int -> Int]]
  BY PricingAssumption DEF NoDate
<1>2. PICK f : Loop(f, Int, start, n, last, G)
  <2> HIDE DEF n, last, G
  <2>1. QED
    BY <1>1, LoopExists
<1>3. /\ f \in [start..(start + n) -> Int]
      /\ \A d \in start..(start + n) :
            f[d] = IF d = start + n THEN last ELSE G[d][f[d + 1]]
  <2> HIDE DEF n, last, G
  <2>1. QED
    BY <1>2 DEF Loop
<1> DEFINE step(d, v) == IF d \in calendar THEN d
                         ELSE IF d + 1 > start + Patience THEN NoDate ELSE v
<1>4. \A d \in start..(start + n) : f[d] = step(d, f[d + 1])
  <2> SUFFICES ASSUME NEW d \in start..(start + n) PROVE f[d] = step(d, f[d + 1])
    OBVIOUS
  <2>1. n = Patience + 1 /\ Patience \in Nat
    BY PricingAssumption
  <2>2. CASE d = start + n
    <3>1. f[d] = last
      BY <1>3, <2>2
    <3>2. d + 1 > start + Patience
      BY <2>1, <2>2
    <3>3. step(d, f[d + 1]) = last
      BY <3>2, <2>2
    <3>4. QED
      BY <3>1, <3>3
  <2>3. CASE d # start + n
    <3>1. d \in Nat /\ d + 1 \in start..(start + n)
      BY <2>1, <2>3
    <3>2. f[d + 1] \in Int
      BY <3>1, <1>3
    <3>3. G[d][f[d + 1]] = step(d, f[d + 1])
      BY <3>1, <3>2
    <3>4. f[d] = G[d][f[d + 1]]
      BY <1>3, <2>3
    <3>5. QED
      BY <3>3, <3>4
  <2>4. QED
    BY <2>2, <2>3
<1>5. start + n = start + Patience + 1
  BY PricingAssumption
<1>6. f = [d \in start..(start + Patience + 1) |-> step(d, f[d + 1])]
  <2> HIDE DEF step, n
  <2>1. QED
    BY <1>3, <1>4, <1>5
<1>7. QED
  BY <1>6, Zenon DEF Rolls

LEMMA WalkExists ==
    ASSUME NEW start \in Nat, NEW business_days \in Nat, NEW calendar
    PROVE  \E f : Walks(f, start, business_days, calendar)
<1> DEFINE n == Patience + 1
           V == [0..business_days -> Int]
           step(d, v) == [added \in 0..business_days |->
                             IF added = business_days THEN d
                             ELSE IF d + 1 > start + Patience THEN NoDate
                             ELSE v[IF d + 1 \in calendar THEN added + 1 ELSE added]]
           G == [d \in Nat |-> [v \in V |-> step(d, v)]]
           last == [added \in 0..business_days |->
                       IF added = business_days THEN start + n ELSE NoDate]
<1>0. n \in Nat /\ Patience \in Nat
  BY PricingAssumption
<1>1. last \in V
  BY <1>0 DEF NoDate
<1>2. \A d \in Nat, v \in V : step(d, v) \in V
  BY DEF NoDate
<1>3. G \in [Nat -> [V -> V]]
  <2> HIDE DEF V, step
  <2>1. QED
    BY <1>2
<1>4. PICK f : Loop(f, V, start, n, last, G)
  <2> HIDE DEF n, last, G, V
  <2>1. QED
    BY <1>0, <1>1, <1>3, LoopExists
<1>5. /\ f \in [start..(start + n) -> V]
      /\ \A d \in start..(start + n) :
            f[d] = IF d = start + n THEN last ELSE G[d][f[d + 1]]
  <2> HIDE DEF n, last, G, V
  <2>1. QED
    BY <1>4 DEF Loop
<1>6. \A d \in start..(start + n) : f[d] = step(d, f[d + 1])
  <2> SUFFICES ASSUME NEW d \in start..(start + n) PROVE f[d] = step(d, f[d + 1])
    OBVIOUS
  <2>1. CASE d = start + n
    <3>1. f[d] = last
      BY <1>5, <2>1
    <3>2. d + 1 > start + Patience
      BY <1>0, <2>1
    <3>3. step(d, f[d + 1]) = last
      BY <3>2, <2>1
    <3>4. QED
      BY <3>1, <3>3
  <2>2. CASE d # start + n
    <3>1. d \in Nat /\ d + 1 \in start..(start + n)
      BY <1>0, <2>2
    <3>2. f[d + 1] \in V
      BY <3>1, <1>5
    <3>3. G[d][f[d + 1]] = step(d, f[d + 1])
      <4> HIDE DEF step, V
      <4>1. QED
        BY <3>1, <3>2
    <3>4. QED
      BY <1>5, <2>2, <3>3
  <2>3. QED
    BY <2>1, <2>2
<1>7. start + n = start + Patience + 1
  BY PricingAssumption
<1>8. f = [d \in start..(start + n) |-> step(d, f[d + 1])]
  <2> HIDE DEF step, n, V
  <2>1. QED
    BY <1>5, <1>6
<1>9. f = [d \in start..(start + Patience + 1) |-> step(d, f[d + 1])]
  <2> HIDE DEF step, n
  <2>1. QED
    BY <1>7, <1>8
<1>10. QED
  BY <1>9, Zenon DEF Walks

\* The day itself or the next one: the only business day of the period.
LEMMA RollFacts ==
    ASSUME NEW start \in Nat, NEW calendar, NEW v,
           v = RollForward(start, calendar), v # NoDate
    PROVE  /\ v \in Nat /\ v \in calendar /\ start <= v
           /\ Cardinality(Days(calendar, start, v)) = 1
<1> DEFINE top == start + Patience + 1
           roll == CHOOSE f : Rolls(f, start, calendar)
           Lands(d, w) == /\ w \in Nat /\ w \in calendar /\ d <= w
                          /\ Cardinality(Days(calendar, d, w)) = 1
           T == {d \in Nat : roll[d] = NoDate \/ Lands(d, roll[d])}
<1>1. v = roll[start]
  BY Zenon DEF RollForward, Rolls
<1>2. Rolls(roll, start, calendar)
  BY RollExists, Zenon
<1>3. top \in Nat /\ start \in start..top
  BY PricingAssumption
<1> HIDE DEF roll
<1>4. \A d \in start..top :
         roll[d] = IF d \in calendar THEN d
                   ELSE IF d + 1 > start + Patience THEN NoDate ELSE roll[d + 1]
  BY <1>2 DEF Rolls
<1>5. ASSUME NEW d \in start..top, d \in calendar
      PROVE  d \in T
  <2>1. d \in Nat /\ roll[d] = d
    BY <1>4, <1>5
  <2>2. Cardinality(Days(calendar, d, d)) = 1
    BY <1>5, <2>1, NoDays, OneMoreDay
  <2>3. QED
    BY <1>5, <2>1, <2>2
<1>6. ASSUME NEW d \in start..top, d \notin calendar,
             d + 1 > start + Patience \/ d + 1 \in T
      PROVE  d \in T
  <2>1. d \in Nat
    BY <1>3
  <2>2. CASE d + 1 > start + Patience
    <3>1. roll[d] = NoDate
      BY <1>4, <1>6, <2>2
    <3>2. QED
      BY <2>1, <3>1
  <2>3. CASE ~(d + 1 > start + Patience)
    <3>1. roll[d] = roll[d + 1] /\ d + 1 \in T
      BY <1>4, <1>6, <2>3
    <3>2. ASSUME NEW w, w = roll[d + 1], w # NoDate
          PROVE  Lands(d, w)
      <4>1. Lands(d + 1, w)
        BY <3>1, <3>2
      <4>2. d <= w
        BY <2>1, <4>1
      <4>3. Cardinality(Days(calendar, d, w)) = Cardinality(Days(calendar, d + 1, w))
        BY <2>1, <4>1, <4>2, <1>6, OneMoreDay
      <4>4. QED
        BY <4>1, <4>2, <4>3
    <3>3. QED
      BY <2>1, <3>1, <3>2
  <2>4. QED
    BY <2>2, <2>3
<1>7. top \in T
  <2>1. top + 1 > start + Patience /\ top \in start..top
    BY PricingAssumption
  <2> HIDE DEF T
  <2>2. QED
    BY <2>1, <1>5, <1>6
<1>8. start..top \subseteq T
  <2> HIDE DEF T, top
  <2>1. \A d \in start..top : d # top /\ d + 1 \in T => d \in T
    BY <1>5, <1>6
  <2>2. QED
    BY <1>3, <1>7, <2>1, DownwardInduction
<1>9. QED
  BY <1>1, <1>3, <1>8

\* The last of so many business days after the start.
LEMMA WalkFacts ==
    ASSUME NEW start \in Nat, NEW business_days \in Nat \ {0}, NEW calendar, NEW v,
           v = AddBusinessDays(start, business_days, calendar), v # NoDate
    PROVE  /\ v \in Nat /\ v \in calendar /\ start < v
           /\ Cardinality(Days(calendar, start + 1, v)) = business_days
<1> DEFINE top == start + Patience + 1
           walk == CHOOSE f : Walks(f, start, business_days, calendar)
           Lands(d, added, w) ==
               /\ w \in Nat /\ d <= w
               /\ Cardinality(Days(calendar, d + 1, w)) = business_days - added
               /\ added < business_days => w \in calendar /\ d < w
               /\ added = business_days => w = d
           T == {d \in Nat : \A added \in 0..business_days :
                    walk[d][added] = NoDate \/ Lands(d, added, walk[d][added])}
<1>1. v = walk[start][0]
  BY Zenon DEF AddBusinessDays, Walks
<1>2. Walks(walk, start, business_days, calendar)
  BY WalkExists, Zenon
<1>3. top \in Nat /\ start \in start..top
  BY PricingAssumption
<1> HIDE DEF walk
<1>4. \A d \in start..top : \A added \in 0..business_days :
         walk[d][added] =
             IF added = business_days THEN d
             ELSE IF d + 1 > start + Patience THEN NoDate
             ELSE walk[d + 1][IF d + 1 \in calendar THEN added + 1 ELSE added]
  BY <1>2 DEF Walks
<1>5. ASSUME NEW d \in start..top, d + 1 > start + Patience \/ d + 1 \in T,
             NEW added \in 0..business_days, NEW w, w = walk[d][added], w # NoDate
      PROVE  Lands(d, added, w)
  <2>1. d \in Nat /\ added \in Nat
    BY <1>3
  <2>2. CASE added = business_days
    <3>1. w = d
      BY <1>4, <1>5, <2>2
    <3>2. Cardinality(Days(calendar, d + 1, d)) = 0
      BY <2>1, NoDays
    <3>3. QED
      BY <2>1, <2>2, <3>1, <3>2
  <2>3. CASE added # business_days
    <3> DEFINE more == IF d + 1 \in calendar THEN added + 1 ELSE added
    <3>1. w = walk[d + 1][more] /\ d + 1 \in T
      BY <1>4, <1>5, <2>3
    <3>2. more \in 0..business_days
      BY <2>3
    <3>3. Lands(d + 1, more, w)
      BY <3>1, <3>2, <1>5
    <3>4. d + 1 \in Nat /\ w \in Nat /\ d + 1 <= w
      BY <2>1, <3>3
    <3>5. /\ Cardinality(Days(calendar, (d + 1) + 1, w)) = business_days - more
          /\ Cardinality(Days(calendar, d + 1, w)) =
                IF d + 1 \in calendar THEN (business_days - more) + 1
                                      ELSE business_days - more
      BY <3>3, <3>4, OneMoreDay
    <3>6. Cardinality(Days(calendar, d + 1, w)) = business_days - added
      BY <2>1, <3>5
    <3>7. w \in calendar
      BY <3>3, <2>1, <2>3
    <3>8. QED
      BY <2>1, <2>3, <3>4, <3>6, <3>7
  <2>4. QED
    BY <2>2, <2>3
<1>6. ASSUME NEW d \in start..top, d + 1 > start + Patience \/ d + 1 \in T
      PROVE  d \in T
  <2>1. d \in Nat
    BY <1>3
  <2> HIDE DEF Lands
  <2>2. QED
    BY <2>1, <1>5, <1>6
<1>7. top \in T
  <2>1. top + 1 > start + Patience /\ top \in start..top
    BY PricingAssumption
  <2> HIDE DEF T
  <2>2. QED
    BY <2>1, <1>6
<1>8. start..top \subseteq T
  <2> HIDE DEF T, top
  <2>1. \A d \in start..top : d # top /\ d + 1 \in T => d \in T
    BY <1>6
  <2>2. QED
    BY <1>3, <1>7, <2>1, DownwardInduction
<1>9. 0 \in 0..business_days /\ Lands(start, 0, v)
  BY <1>1, <1>3, <1>8
<1>10. QED
  BY <1>9

-----------------------------------------------------------------------------
(***************************************************************************)
(* What the operators yield: amounts, limits, accounts, value dates        *)
(***************************************************************************)
\* Dividing with rounding half up is off by at most a half.
LEMMA HalfUp ==
    ASSUME NEW x \in Nat, NEW unit \in Nat \ {0}, NEW q,
           q = (2 * x + unit) \div (2 * unit)
    PROVE  q \in Nat /\ -unit < 2 * (unit * q - x) /\ 2 * (unit * q - x) <= unit
<1>1. 2 * x + unit \in Nat /\ 2 * unit \in Nat /\ 2 * unit > 0
  OBVIOUS
<1>2. \A n, m \in Nat : m > 0 => /\ n \div m \in Nat
                                 /\ m * (n \div m) <= n /\ n < m * (n \div m) + m
  OBVIOUS
<1>3. QED
  BY <1>1, <1>2

\* The counter amount is worth the amount at the rate, to half a cent.
LEMMA CounterFacts ==
    ASSUME NEW d, d.amount \in Nat, d.rate \in Nat
    PROVE  LET q == CounterAmount(d)
               error == 2 * (Unit * q - d.rate * d.amount)
           IN  q \in Nat /\ -Unit < error /\ error <= Unit
<1>1. /\ d.amount * d.rate \in Nat /\ Unit \in Nat \ {0}
      /\ 2 * d.amount * d.rate = 2 * (d.amount * d.rate)
      /\ d.rate * d.amount = d.amount * d.rate
  BY PricingAssumption
<1>2. CounterAmount(d) = (2 * (d.amount * d.rate) + Unit) \div (2 * Unit)
  BY <1>1 DEF CounterAmount
<1> DEFINE x == d.amount * d.rate
<1> HIDE DEF x
<1>3. CounterAmount(d) \in Nat /\ -Unit < 2 * (Unit * CounterAmount(d) - x)
                               /\ 2 * (Unit * CounterAmount(d) - x) <= Unit
  BY <1>1, <1>2, HalfUp DEF x
<1>4. QED
  BY <1>1, <1>3 DEF x

\* A column rounds a positive number to a number.
LEMMA ColumnType ==
    ASSUME NEW x \in Nat
    PROVE  Column(x) \in Nat
BY DEF Column

\* The account chosen is an active one of its currency.
LEMMA NostroFacts ==
    ASSUME NEW n, NsiTables(n), NEW currency, ActiveAccounts(n, currency) # {}
    PROVE  /\ Nostro(n, currency) \in n.accounts
           /\ Nostro(n, currency).active
           /\ Nostro(n, currency).currency = currency
           /\ Nostro(n, currency).id \in Nat
<1> DEFINE A == ActiveAccounts(n, currency)
           T == {a.id : a \in A}
<1>1. /\ \A a \in n.accounts : a.id \in Nat
      /\ A \subseteq n.accounts
  BY DEF NsiTables, ActiveAccounts
<1>2. T \in SUBSET Nat /\ T # {}
  BY <1>1
<1>3. PICK m \in T : \A k \in T : m <= k
  BY <1>2, LeastElement
<1>4. \E a \in A : \A b \in A : a.id <= b.id
  BY <1>3
<1>5. Nostro(n, currency) \in A
  <2> HIDE DEF A
  <2>1. QED
    BY <1>4 DEF Nostro, A
<1>6. QED
  BY <1>1, <1>5 DEF ActiveAccounts

\* Limits of one counterparty and currency, the currency and the counterparty
\* named or not.
InForce(n, counterparty, currency) ==
    {l \in n.limits : /\ l.active
                      /\ l.counterparty = counterparty
                      /\ l.currency = currency}

\* The oldest of the most specific limits that match is the best one.
LEMMA OldestIsBest ==
    ASSUME NEW n, NsiTables(n), NEW counterparty, NEW currency,
           NEW cp \in {Any, counterparty}, NEW cur \in {Any, currency},
           InForce(n, cp, cur) # {},
           \A k \in Matching(n, counterparty, currency), l \in InForce(n, cp, cur) :
              ~(Specificity(k) > Specificity(l)),
           \A k \in Matching(n, counterparty, currency), l \in InForce(n, cp, cur) :
              Specificity(k) = Specificity(l) => k \in InForce(n, cp, cur)
    PROVE  \E l \in InForce(n, cp, cur) :
              /\ \A k \in InForce(n, cp, cur) : l.id <= k.id
              /\ l \in BestLimits(n, counterparty, currency)
<1> DEFINE I == InForce(n, cp, cur)
           M == Matching(n, counterparty, currency)
           T == {l.id : l \in I}
<1>1. I \subseteq M /\ \A l \in M : l.id \in Nat
  BY DEF NsiTables, InForce, Matching
<1>2. T \in SUBSET Nat /\ T # {}
  BY <1>1
<1>3. PICK m \in T : \A k \in T : m <= k
  BY <1>2, LeastElement
<1>4. PICK l \in I : \A k \in I : l.id <= k.id
  BY <1>3
<1>5. ASSUME NEW k \in M
      PROVE  ~Outranks(k, l)
  <2>1. ~(Specificity(k) > Specificity(l))
    BY <1>4, <1>5
  <2>2. CASE Specificity(k) = Specificity(l)
    <3>1. k \in I
      BY <1>4, <1>5, <2>2
    <3>2. l.id <= k.id /\ l.id \in Nat /\ k.id \in Nat
      BY <3>1, <1>1, <1>4
    <3>3. QED
      BY <3>2, <2>1 DEF Outranks
  <2>3. CASE Specificity(k) # Specificity(l)
    BY <2>1, <2>3 DEF Outranks
  <2>4. QED
    BY <2>2, <2>3
<1>6. l \in BestLimits(n, counterparty, currency)
  BY <1>1, <1>4, <1>5 DEF BestLimits
<1>7. QED
  BY <1>4, <1>6

\* What a value date is.
LEMMA ValueDateFacts ==
    ASSUME NEW d, NEW n, d.type \in Types, d.trade \in Nat, NEW date,
           date = CalculateValueDate(d, LoadCalendar(n, d.trade)), date # NoDate
    PROVE  LET calendar == LoadCalendar(n, d.trade)
           IN  /\ date \in Nat /\ date \in calendar
               /\ d.type = "FORWARD" => date = d.date
               /\ d.type = "TOD" => Cardinality(Days(calendar, d.trade, date)) = 1
               /\ d.type = "TOM" => Cardinality(Days(calendar, d.trade + 1, date)) = 1
               /\ d.type = "SPOT" => Cardinality(Days(calendar, d.trade + 1, date)) = 2
<1> DEFINE calendar == LoadCalendar(n, d.trade)
<1>1. calendar \subseteq Nat
  BY PricingAssumption DEF LoadCalendar
<1> HIDE DEF calendar
<1>2. CASE d.type = "FORWARD"
  BY <1>1, <1>2 DEF CalculateValueDate, calendar
<1>3. CASE d.type = "TOD"
  <2>1. date = AddBusinessDays(d.trade, 0, calendar)
    BY <1>3 DEF CalculateValueDate, Offset, calendar
  <2>2. date = RollForward(d.trade, calendar)
    BY <2>1, Zenon DEF AddBusinessDays
  <2>3. QED
    BY <1>3, <2>2, RollFacts DEF calendar
<1>4. CASE d.type \in {"TOM", "SPOT"}
  <2> DEFINE days == Offset[d.type]
  <2>1. days \in Nat \ {0} /\ days = IF d.type = "SPOT" THEN 2 ELSE 1
    BY <1>4 DEF Offset
  <2>2. date = AddBusinessDays(d.trade, days, calendar)
    BY <1>4 DEF CalculateValueDate, calendar
  <2> HIDE DEF days
  <2>3. date \in Nat /\ date \in calendar /\ Cardinality(Days(calendar, d.trade + 1, date)) = days
    BY <2>1, <2>2, WalkFacts
  <2>4. QED
    BY <1>4, <2>1, <2>3 DEF calendar
<1>5. QED
  BY <1>2, <1>3, <1>4 DEF Types

\* The value date on the row counts for a FORWARD deal only.
LEMMA ValueDateStable ==
    ASSUME NEW d, NEW e, NEW n, d.type \in Types, e.type = d.type, e.trade = d.trade,
           NEW date, date = CalculateValueDate(d, LoadCalendar(n, d.trade)),
           date # NoDate, e.date = date
    PROVE  CalculateValueDate(e, LoadCalendar(n, e.trade)) = date
<1>1. CASE d.type = "FORWARD"
  BY <1>1 DEF CalculateValueDate
<1>2. CASE d.type # "FORWARD"
  BY <1>2 DEF CalculateValueDate
<1>3. QED
  BY <1>1, <1>2

\* Limits that nothing exceeds are those of the cascade.
LEMMA CascadeFacts ==
    ASSUME NEW n, NsiTables(n), NEW counterparty, NEW currency, NEW amount,
           \A l \in BestLimits(n, counterparty, currency) : amount <= l.max
    PROVE  LET kept(cp, cur) == \E l \in InForce(n, cp, cur) :
                   (\A k \in InForce(n, cp, cur) : l.id <= k.id) /\ amount <= l.max
           IN  /\ InForce(n, counterparty, currency) # {} => kept(counterparty, currency)
               /\ (/\ InForce(n, counterparty, Any) # {}
                   /\ InForce(n, counterparty, currency) = {})
                  => kept(counterparty, Any)
               /\ (/\ InForce(n, Any, currency) # {}
                   /\ InForce(n, counterparty, currency) = {}
                   /\ InForce(n, counterparty, Any) = {}) => kept(Any, currency)
               /\ (/\ InForce(n, Any, Any) # {}
                   /\ InForce(n, counterparty, currency) = {}
                   /\ InForce(n, counterparty, Any) = {}
                   /\ InForce(n, Any, currency) = {}) => kept(Any, Any)
<1> DEFINE kept(cp, cur) == \E l \in InForce(n, cp, cur) :
               (\A k \in InForce(n, cp, cur) : l.id <= k.id) /\ amount <= l.max
           M == Matching(n, counterparty, currency)
           Level(cp, cur) == /\ InForce(n, cp, cur) # {}
                             /\ \A k \in M, l \in InForce(n, cp, cur) :
                                   /\ ~(Specificity(k) > Specificity(l))
                                   /\ Specificity(k) = Specificity(l)
                                         => k \in InForce(n, cp, cur)
<1>1. ASSUME NEW cp \in {Any, counterparty}, NEW cur \in {Any, currency}, Level(cp, cur)
      PROVE  kept(cp, cur)
  BY <1>1, OldestIsBest
<1>2. \A k \in M : /\ k \in InForce(n, k.counterparty, k.currency)
                   /\ k.counterparty \in {Any, counterparty}
                   /\ k.currency \in {Any, currency}
  BY DEF Matching, InForce
<1>3. \A cp, cur : \A l \in InForce(n, cp, cur) : l.counterparty = cp /\ l.currency = cur
  BY DEF InForce
<1> HIDE DEF M, kept
<1>4. ASSUME InForce(n, counterparty, currency) # {}
      PROVE  kept(counterparty, currency)
  <2>1. Level(counterparty, currency)
    BY <1>2, <1>3, <1>4 DEF Specificity
  <2>2. QED
    BY <1>1, <2>1
<1>5. ASSUME InForce(n, counterparty, Any) # {}, InForce(n, counterparty, currency) = {}
      PROVE  kept(counterparty, Any)
  <2>1. Level(counterparty, Any)
    BY <1>2, <1>3, <1>5 DEF Specificity
  <2>2. QED
    BY <1>1, <2>1
<1>6. ASSUME InForce(n, Any, currency) # {}, InForce(n, counterparty, currency) = {},
             InForce(n, counterparty, Any) = {}
      PROVE  kept(Any, currency)
  <2>1. Level(Any, currency)
    BY <1>2, <1>3, <1>6 DEF Specificity
  <2>2. QED
    BY <1>1, <2>1
<1>7. ASSUME InForce(n, Any, Any) # {}, InForce(n, counterparty, currency) = {},
             InForce(n, counterparty, Any) = {}, InForce(n, Any, currency) = {}
      PROVE  kept(Any, Any)
  <2>1. Level(Any, Any)
    BY <1>2, <1>3, <1>7 DEF Specificity
  <2>2. QED
    BY <1>1, <2>1
<1>8. QED
  BY <1>4, <1>5, <1>6, <1>7 DEF kept

-----------------------------------------------------------------------------
(***************************************************************************)
(* The inductive invariant: a row of the table, and a VALID one that would *)
(* pass again, unchanged, if the tables held what its validation has read. *)
(***************************************************************************)
PaymentRow == [direction: Directions, currency: Currencies,
               amount: 0..(MaxMoney - 1), account: Nat, date: Nat]

RowTyped ==
    /\ row \in [type: Types, trade: TradeDates, date: Nat \cup {NoDate},
                buy: Currencies, sell: Currencies, side: {"BUY", "SELL"},
                amount: 0..(MaxMoney - 1), rate: Nat, counterparty: Counterparties,
                verdict: {"NOT_VALIDATED", "VALID", "INVALID"},
                payments: SUBSET PaymentRow]
    /\ nsi \in Reference /\ NsiTables(checked) /\ given \in BOOLEAN

ValidStands == Valid => Succeeds(row, checked) /\ Validated(row, checked) = row

IInv == RowTyped /\ ValidStands

\* A validation reads tables of the right type, although it may read each in
\* another state of the reference data.
LEMMA FoundFacts ==
    ASSUME nsi \in Reference, NEW states \in Courses
    PROVE  NsiTables(Found(states)) /\ states[5] \in Reference
<1> DEFINE after == {n \in Reference : Maintained(n)}
<1>1. PICK m \in SUBSET (Reads \ {1}) : states \in {Course(new) : new \in [m -> after]}
  BY DEF Courses
<1>2. PICK new \in [m -> after] : states = Course(new)
  BY <1>1
<1>6. ASSUME NEW i \in Reads
      PROVE  states[i] \in Reference
  <2> DEFINE past == {j \in DOMAIN new : j <= i}
             j == CHOOSE j \in past : \A k \in past : k <= j
  <2>1. states[i] = IF past = {} THEN nsi ELSE new[j]
    BY <1>2 DEF Course
  <2>2. ASSUME past # {}
        PROVE  j \in past
    <3>1. past \in SUBSET (1..5)
      BY DEF Reads
    <3> HIDE DEF past
    <3>2. \E l \in past : \A k \in past : k <= l
      <4>1. \A k \in past : k = 1 \/ k = 2 \/ k = 3 \/ k = 4 \/ k = 5
        BY <3>1
      <4>2. QED
        BY <2>2, <4>1
    <3>3. QED
      BY <3>2
  <2>3. past \subseteq m
    OBVIOUS
  <2> HIDE DEF past, j
  <2>4. QED
    BY <2>1, <2>2, <2>3
<1>3. \A i \in Reads : NsiTables(states[i])
  BY <1>6, PricingAssumption DEF NsiShape
<1>4. NsiTables(Found(states))
  <2>1. \A i \in 1..5 : NsiTables(states[i])
    BY <1>3 DEF Reads
  <2>2. QED
    BY <2>1 DEF NsiTables, Found
<1>5. QED
  BY <1>6, <1>4 DEF Reads

\* What a request says fits the columns.
LEMMA ColumnsFit ==
    /\ {Column(x) : x \in Amounts} \subseteq 0..(MaxMoney - 1)
    /\ {Column(x) : x \in Rates} \subseteq Nat
    /\ TradeDates \subseteq Nat /\ ValueDates \subseteq Nat
    /\ \A n \in Reference : n.active \subseteq Counterparties
<1>1. \A x \in Amounts : Column(x) \in Nat /\ Column(x) < MaxMoney
  BY PricingAssumption, ColumnType
<1>2. \A x \in Rates : Column(x) \in Nat
  BY PricingAssumption, ColumnType
<1>3. QED
  BY <1>1, <1>2, PricingAssumption DEF NsiShape, NsiTables

LEMMA InitInv == Init => IInv
<1> SUFFICES ASSUME Init PROVE IInv
  OBVIOUS
<1>1. RowTyped
  <2>1. NsiTables(Nothing)
    BY FS_EmptySet DEF Nothing, NsiTables
  <2>2. QED
    BY <2>1, ColumnsFit DEF Init, RowTyped
<1>2. ~Valid
  BY DEF Init, Valid
<1>3. QED
  BY <1>1, <1>2 DEF IInv, ValidStands

\* The payments that a validation stores are rows of their table.
LEMMA CalculatedTyped ==
    ASSUME RowTyped, NEW n, NsiTables(n), Succeeds(row, n), NEW date \in Nat
    PROVE  Calculated(row, n, date) \subseteq PaymentRow
<1>1. CounterAmount(row) \in 0..(MaxMoney - 1)
  BY CounterFacts, PricingAssumption DEF RowTyped, Succeeds, Fits
<1>2. Nostro(n, row.buy).id \in Nat /\ Nostro(n, row.sell).id \in Nat
  BY NostroFacts DEF Succeeds, HasNostro
<1>3. QED
  BY <1>1, <1>2 DEF RowTyped, Calculated, PaymentRow, Directions

\* A validation that succeeds stores what it computes.
LEMMA SuccessFacts ==
    ASSUME NEW d, NEW n, Succeeds(d, n)
    PROVE  LET date == CalculateValueDate(d, LoadCalendar(n, d.trade))
           IN  Validated(d, n) = [d EXCEPT !.date = date, !.verdict = "VALID",
                                           !.payments = Calculated(d, n, date)]
BY DEF Succeeds, Validated

\* Otherwise the row stays as it is, but for the verdict.
LEMMA FailureFacts ==
    ASSUME NEW d, NEW n, ~Succeeds(d, n)
    PROVE  Validated(d, n) \in {d, Rejected(d)}
BY DEF Succeeds, Validated

\* What succeeds once, succeeds again, with the same outcome.
LEMMA SucceedsAgain ==
    ASSUME RowTyped, NEW n, NsiTables(n), Succeeds(row, n), NEW e, e = Validated(row, n)
    PROVE  Succeeds(e, n) /\ Validated(e, n) = e
<1> DEFINE date == CalculateValueDate(row, LoadCalendar(n, row.trade))
           again == CalculateValueDate(e, LoadCalendar(n, e.trade))
<1>1. date # NoDate
  BY DEF Succeeds
<1> HIDE DEF date
<1>2. e = [row EXCEPT !.date = date, !.verdict = "VALID",
                      !.payments = Calculated(row, n, date)]
  BY SuccessFacts DEF date
<1>3. /\ e.type = row.type /\ e.trade = row.trade /\ e.buy = row.buy
      /\ e.sell = row.sell /\ e.side = row.side /\ e.amount = row.amount
      /\ e.rate = row.rate /\ e.counterparty = row.counterparty
      /\ e.date = date /\ e.verdict = "VALID" /\ e.payments = Calculated(row, n, date)
  BY <1>2 DEF RowTyped
<1>4. again = date
  BY <1>1, <1>3, ValueDateStable DEF RowTyped, date
<1>5. CounterAmount(e) = CounterAmount(row)
  BY <1>3 DEF CounterAmount
<1>6. Passes(e, n)
  <2>1. row.type = "FORWARD" => e.date # NoDate
    BY <1>1, <1>3
  <2>2. QED
    BY <1>3, <2>1 DEF Succeeds, Passes
<1>7. WithinLimits(e, n) /\ HasNostro(e, n) /\ Fits(e, n)
  BY <1>3, <1>5 DEF Succeeds, WithinLimits, HasNostro, Fits
<1>8. Succeeds(e, n)
  BY <1>1, <1>4, <1>6, <1>7 DEF Succeeds
<1>9. Calculated(e, n, date) = Calculated(row, n, date)
  BY <1>3, <1>5 DEF Calculated
<1>10. Validated(e, n) = [e EXCEPT !.date = date, !.verdict = "VALID",
                                   !.payments = Calculated(e, n, date)]
  BY <1>4, <1>8, SuccessFacts
<1> DEFINE P == Calculated(row, n, date)
<1> HIDE DEF P
<1>11. e \in [type: Types, trade: TradeDates, date: {date}, buy: Currencies,
              sell: Currencies, side: {"BUY", "SELL"}, amount: 0..(MaxMoney - 1),
              rate: Nat, counterparty: Counterparties, verdict: {"VALID"},
              payments: {P}]
  BY <1>2 DEF RowTyped, P
<1>12. Validated(e, n) = [e EXCEPT !.date = date, !.verdict = "VALID", !.payments = P]
  BY <1>9, <1>10 DEF P
<1>13. e = [type |-> e.type, trade |-> e.trade, date |-> date, buy |-> e.buy,
            sell |-> e.sell, side |-> e.side, amount |-> e.amount, rate |-> e.rate,
            counterparty |-> e.counterparty, verdict |-> "VALID", payments |-> P]
  BY <1>11
<1>14. Validated(e, n) = e
  BY <1>12, <1>13
<1>15. QED
  BY <1>8, <1>14

LEMMA NextInv == IInv /\ [Next]_vars => IInv'
<1> SUFFICES ASSUME IInv, [Next]_vars PROVE IInv'
  OBVIOUS
<1> USE DEF IInv
<1>9. NsiTables(Nothing)
  BY FS_EmptySet DEF Nothing, NsiTables
<1>1. ASSUME NEW field \in {"type", "trade", "buy", "sell", "side", "amount",
                            "rate", "counterparty"},
             NEW value, row' = Edited(row, field, value),
             UNCHANGED <<nsi, given>>, checked' = Nothing,
             \/ field = "type" /\ value \in Types
             \/ field = "trade" /\ value \in TradeDates
             \/ field \in {"buy", "sell"} /\ value \in Currencies
             \/ field = "side" /\ value \in {"BUY", "SELL"}
             \/ field = "amount" /\ value \in {Column(x) : x \in Amounts}
             \/ field = "rate" /\ value \in {Column(x) : x \in Rates}
             \/ field = "counterparty" /\ value \in nsi.active
      PROVE  IInv'
  <2>1. RowTyped'
    BY <1>1, <1>9, ColumnsFit DEF RowTyped, Edited
  <2>2. row'.verdict = "NOT_VALIDATED"
    BY <1>1 DEF RowTyped, Edited
  <2>3. QED
    BY <2>1, <2>2 DEF ValidStands, Valid
<1>2. CASE Update
  <2>1. \E field \in {"type", "trade", "buy", "sell", "side", "amount",
                      "rate", "counterparty"} : \E value :
           /\ row' = Edited(row, field, value) /\ UNCHANGED <<nsi, given>>
           /\ checked' = Nothing
           /\ \/ field = "type" /\ value \in Types
              \/ field = "trade" /\ value \in TradeDates
              \/ field \in {"buy", "sell"} /\ value \in Currencies
              \/ field = "side" /\ value \in {"BUY", "SELL"}
              \/ field = "amount" /\ value \in {Column(x) : x \in Amounts}
              \/ field = "rate" /\ value \in {Column(x) : x \in Rates}
              \/ field = "counterparty" /\ value \in nsi.active
    BY <1>2 DEF Update, Change
  <2>2. QED
    BY <1>1, <2>1
<1>3. CASE UpdateValueDate
  <2>1. RowTyped'
    BY <1>3, <1>9, ColumnsFit DEF UpdateValueDate, RowTyped, Edited
  <2>2. row'.verdict = "NOT_VALIDATED"
    BY <1>3 DEF UpdateValueDate, RowTyped, Edited
  <2>3. QED
    BY <2>1, <2>2 DEF ValidStands, Valid
<1>4. CASE Validate
  <2>0. PICK states \in Courses :
           LET found == Found(states) IN
           /\ row' = Validated(row, found)
           /\ nsi' = states[5]
           /\ checked' = IF Succeeds(row, found) THEN found
                         ELSE IF row'.verdict = "VALID" THEN checked ELSE Nothing
    BY <1>4 DEF Validate
  <2> DEFINE found == Found(states)
  <2>1. NsiTables(found) /\ nsi' \in Reference /\ given' \in BOOLEAN
    BY <1>4, <2>0, FoundFacts DEF Validate, RowTyped
  <2>2. /\ row' = Validated(row, found)
        /\ checked' = IF Succeeds(row, found) THEN found
                      ELSE IF row'.verdict = "VALID" THEN checked ELSE Nothing
    BY <2>0
  <2> HIDE DEF found
  <2>3. CASE Succeeds(row, found)
    <3> DEFINE date == CalculateValueDate(row, LoadCalendar(found, row.trade))
    <3>1. checked' = found
      BY <2>2, <2>3
    <3>2. date \in Nat
      BY <2>3, ValueDateFacts, ColumnsFit DEF RowTyped, Succeeds
    <3>3. row' = [row EXCEPT !.date = date, !.verdict = "VALID",
                             !.payments = Calculated(row, found, date)]
      BY <2>2, <2>3, SuccessFacts
    <3> HIDE DEF date
    <3>4. Calculated(row, found, date) \subseteq PaymentRow
      BY <2>1, <2>3, <3>2, CalculatedTyped
    <3>5. RowTyped'
      BY <2>1, <3>1, <3>2, <3>3, <3>4 DEF RowTyped
    <3>6. Succeeds(row', found) /\ Validated(row', found) = row'
      BY <2>1, <2>2, <2>3, SucceedsAgain
    <3>7. QED
      BY <3>1, <3>5, <3>6 DEF ValidStands
  <2>4. CASE ~Succeeds(row, found)
    <3>1. /\ row' \in {row, Rejected(row)}
          /\ checked' = IF row'.verdict = "VALID" THEN checked ELSE Nothing
      BY <2>2, <2>4, FailureFacts
    <3>2. CASE row' = row
      BY <1>9, <2>1, <3>1, <3>2 DEF RowTyped, ValidStands, Valid
    <3>3. CASE row' = Rejected(row)
      BY <1>9, <2>1, <3>1, <3>3 DEF RowTyped, ValidStands, Valid, Rejected
    <3>4. QED
      BY <3>1, <3>2, <3>3
  <2>5. QED
    BY <2>3, <2>4
<1>5. CASE SubmitOverLimit
  BY <1>5, <1>9 DEF SubmitOverLimit, RowTyped, ValidStands, Valid, Rejected
<1>6. CASE MaintainNsi
  BY <1>6 DEF MaintainNsi, RowTyped, ValidStands, Valid
<1>7. CASE UNCHANGED vars
  BY <1>7 DEF vars, RowTyped, ValidStands, Valid
<1>8. QED
  BY <1>2, <1>3, <1>4, <1>5, <1>6, <1>7 DEF Next

-----------------------------------------------------------------------------
(***************************************************************************)
(* What the invariant says of a VALID deal                                 *)
(***************************************************************************)
\* It holds what its validation computed.
LEMMA ValidFacts ==
    ASSUME IInv, Valid
    PROVE  /\ row.date = CalculateValueDate(row, LoadCalendar(checked, row.trade))
           /\ row.date # NoDate
           /\ row.payments = Calculated(row, checked, row.date)
<1> DEFINE date == CalculateValueDate(row, LoadCalendar(checked, row.trade))
<1>1. Succeeds(row, checked) /\ date # NoDate
  BY DEF IInv, ValidStands, Succeeds
<1>2. row = [row EXCEPT !.date = date, !.verdict = "VALID",
                        !.payments = Calculated(row, checked, date)]
  BY <1>1, SuccessFacts DEF IInv, ValidStands
<1> HIDE DEF date
<1>3. row.date = date /\ row.payments = Calculated(row, checked, date)
  BY <1>2 DEF IInv, RowTyped
<1>4. QED
  BY <1>1, <1>3 DEF date

LEMMA InvTypeOK == IInv => TypeOK
<1> SUFFICES ASSUME IInv PROVE TypeOK
  OBVIOUS
<1>1. \A p \in row.payments : p \in PaymentRow
  BY DEF IInv, RowTyped
<1>2. QED
  BY <1>1, PricingAssumption DEF IInv, RowTyped, TypeOK, PaymentRow

LEMMA InvPositive == IInv => PositiveAmounts
BY DEF IInv, ValidStands, PositiveAmounts, Succeeds, Passes

LEMMA InvStable == IInv => RevalidationStable
BY DEF IInv, ValidStands, RevalidationStable

\* Its days are days of the calendar that was loaded.
LEMMA InvSettles == IInv => SettlesOnTime
<1> SUFFICES ASSUME IInv, Valid PROVE SettlesOnTime
  BY DEF SettlesOnTime
<1> DEFINE calendar == LoadCalendar(checked, row.trade)
           first == IF row.type = "TOD" THEN row.trade ELSE row.trade + 1
<1>1. row.type \in Types /\ row.trade \in Nat
  BY ColumnsFit DEF IInv, RowTyped
<1>2. /\ row.date \in Nat /\ row.date \in calendar
      /\ row.type = "TOD" => Cardinality(Days(calendar, row.trade, row.date)) = 1
      /\ row.type = "TOM" => Cardinality(Days(calendar, row.trade + 1, row.date)) = 1
      /\ row.type = "SPOT" => Cardinality(Days(calendar, row.trade + 1, row.date)) = 2
  BY <1>1, ValidFacts, ValueDateFacts
<1>3. IsBusinessDay(checked, row.date) /\ row.date \in row.trade..(row.trade + Window)
  BY <1>2 DEF LoadCalendar
<1>4. Days(calendar, first, row.date)
         = {d \in first..row.date : IsBusinessDay(checked, d)}
  BY <1>1, <1>3, PricingAssumption DEF Days, LoadCalendar
<1>5. row.type # "FORWARD" =>
         Cardinality(Days(calendar, first, row.date))
            = IF row.type = "SPOT" THEN 2 ELSE 1
  BY <1>1, <1>2 DEF Types
<1> HIDE DEF calendar
<1>6. row.type # "FORWARD" =>
         Cardinality({d \in first..row.date : IsBusinessDay(checked, d)})
            = IF row.type = "SPOT" THEN 2 ELSE 1
  BY <1>4, <1>5
<1>7. QED
  BY <1>3, <1>6 DEF SettlesOnTime

\* The two payments, one for each currency.
LEMMA TwoPayments ==
    ASSUME IInv, Valid
    PROVE  \E p, q : /\ row.payments = {p, q} /\ p # q
                     /\ p.currency = row.buy /\ p.amount = row.amount
                     /\ q.currency = row.sell /\ q.amount = CounterAmount(row)
                     /\ p.direction = (IF row.side = "BUY" THEN "IN" ELSE "OUT")
                     /\ q.direction = (IF row.side = "BUY" THEN "OUT" ELSE "IN")
                     /\ p.date = row.date /\ q.date = row.date
                     /\ p.account = Nostro(checked, row.buy).id
                     /\ q.account = Nostro(checked, row.sell).id
                     /\ row.buy # row.sell
<1>1. row.buy # row.sell
  BY DEF IInv, ValidStands, Succeeds, Passes
<1>2. row.payments = Calculated(row, checked, row.date)
  BY ValidFacts
<1> DEFINE p == [direction |-> IF row.side = "BUY" THEN "IN" ELSE "OUT",
                 currency |-> row.buy, amount |-> row.amount,
                 account |-> Nostro(checked, row.buy).id, date |-> row.date]
           q == [direction |-> IF row.side = "BUY" THEN "OUT" ELSE "IN",
                 currency |-> row.sell, amount |-> CounterAmount(row),
                 account |-> Nostro(checked, row.sell).id, date |-> row.date]
<1>3. row.payments = {p, q}
  BY <1>2 DEF Calculated
<1>4. p # q
  BY <1>1
<1>5. QED
  BY <1>1, <1>3, <1>4

LEMMA InvBalance == IInv => PaymentsBalance
<1> SUFFICES ASSUME IInv, Valid PROVE PaymentsBalance
  BY DEF PaymentsBalance
<1>1. PICK p, q : /\ row.payments = {p, q} /\ p # q
                  /\ p.currency = row.buy /\ p.amount = row.amount
                  /\ q.currency = row.sell /\ q.amount = CounterAmount(row)
                  /\ p.direction = (IF row.side = "BUY" THEN "IN" ELSE "OUT")
                  /\ q.direction = (IF row.side = "BUY" THEN "OUT" ELSE "IN")
                  /\ p.date = row.date /\ q.date = row.date
                  /\ p.account = Nostro(checked, row.buy).id
                  /\ q.account = Nostro(checked, row.sell).id
                  /\ row.buy # row.sell
  BY TwoPayments
<1>2. Cardinality(row.payments) = 2
  <2>1. IsFiniteSet({p}) /\ Cardinality({p}) = 1
    BY FS_Singleton
  <2>2. q \notin {p} /\ {p} \cup {q} = row.payments
    BY <1>1
  <2>3. Cardinality({p} \cup {q}) = Cardinality({p}) + 1
    BY <2>1, <2>2, FS_AddElement
  <2>4. QED
    BY <2>1, <2>2, <2>3
<1>3. row.side \in {"BUY", "SELL"} /\ row.amount \in Nat /\ row.rate \in Nat
      /\ NsiTables(checked)
  BY PricingAssumption DEF IInv, RowTyped
<1>4. {x.direction : x \in row.payments} = Directions
  BY <1>1, <1>3 DEF Directions
<1>5. {x.currency : x \in row.payments} = {row.buy, row.sell}
  BY <1>1
<1>6. ASSUME NEW x \in row.payments
      PROVE  /\ x.date = row.date
             /\ (x.currency = row.buy) <=> (x.direction = "IN") = (row.side = "BUY")
  <2>1. CASE row.side = "BUY"
    BY <1>1, <2>1
  <2>2. CASE row.side = "SELL"
    BY <1>1, <2>2
  <2>3. QED
    BY <1>3, <2>1, <2>2
<1>7. ASSUME NEW x \in row.payments
      PROVE  \E a \in checked.accounts :
                a.id = x.account /\ a.active /\ a.currency = x.currency /\ a.short
  <2>1. \A c \in {row.buy, row.sell} :
           ActiveAccounts(checked, c) # {} /\ Nostro(checked, c).short
    BY DEF IInv, ValidStands, Succeeds, HasNostro, Fits
  <2>2. x.currency \in {row.buy, row.sell} /\ x.account = Nostro(checked, x.currency).id
    BY <1>1
  <2>3. QED
    BY <1>3, <2>1, <2>2, NostroFacts
<1>8. ASSUME NEW x \in row.payments, NEW y \in row.payments,
             x.currency = row.buy, y.currency = row.sell
      PROVE  LET error == 2 * (Unit * y.amount - row.rate * x.amount)
             IN  x.amount = row.amount /\ -Unit < error /\ error <= Unit
  <2>1. x.amount = row.amount /\ y.amount = CounterAmount(row)
    BY <1>1, <1>8
  <2>2. QED
    BY <1>3, <2>1, CounterFacts
<1>9. QED
  BY <1>1, <1>2, <1>4, <1>5, <1>6, <1>7, <1>8 DEF PaymentsBalance

LEMMA InvLimits == IInv => LimitsRespected
<1> SUFFICES ASSUME IInv, Valid PROVE LimitsRespected
  BY DEF LimitsRespected
<1> DEFINE cascade(c) == <<InForce(checked, row.counterparty, c),
                           InForce(checked, row.counterparty, Any),
                           InForce(checked, Any, c), InForce(checked, Any, Any)>>
<1>1. ASSUME NEW p \in row.payments, NEW i \in 1..4,
             cascade(p.currency)[i] # {},
             \A j \in 1..(i - 1) : cascade(p.currency)[j] = {}
      PROVE  \E l \in cascade(p.currency)[i] :
                /\ \A k \in cascade(p.currency)[i] : l.id <= k.id
                /\ p.amount <= l.max
  <2>1. \A l \in BestLimits(checked, row.counterparty, p.currency) : p.amount <= l.max
    BY TwoPayments DEF IInv, ValidStands, Succeeds, WithinLimits
  <2>2. NsiTables(checked)
    BY DEF IInv, RowTyped
  <2> DEFINE c == p.currency
             cp == row.counterparty
             kept(s) == \E l \in s : (\A k \in s : l.id <= k.id) /\ p.amount <= l.max
  <2>3. /\ InForce(checked, cp, c) # {} => kept(InForce(checked, cp, c))
        /\ InForce(checked, cp, Any) # {} /\ InForce(checked, cp, c) = {}
              => kept(InForce(checked, cp, Any))
        /\ (/\ InForce(checked, Any, c) # {} /\ InForce(checked, cp, c) = {}
            /\ InForce(checked, cp, Any) = {}) => kept(InForce(checked, Any, c))
        /\ (/\ InForce(checked, Any, Any) # {} /\ InForce(checked, cp, c) = {}
            /\ InForce(checked, cp, Any) = {} /\ InForce(checked, Any, c) = {})
              => kept(InForce(checked, Any, Any))
    BY <2>1, <2>2, CascadeFacts
  <2> HIDE DEF kept, c, cp
  <2>4. kept(cascade(c)[i])
    <3>1. CASE i = 1
      BY <1>1, <2>3, <3>1 DEF c, cp
    <3>2. CASE i = 2
      BY <1>1, <2>3, <3>2 DEF c, cp
    <3>3. CASE i = 3
      BY <1>1, <2>3, <3>3 DEF c, cp
    <3>4. CASE i = 4
      BY <1>1, <2>3, <3>4 DEF c, cp
    <3>5. QED
      BY <3>1, <3>2, <3>3, <3>4
  <2>5. QED
    BY <2>4 DEF kept, c
<1>2. \A p \in row.payments : \A i \in 1..4 :
         LET here == cascade(p.currency)[i]
         IN  (/\ here # {}
              /\ \A j \in 1..(i - 1) : cascade(p.currency)[j] = {})
             => \E l \in here : /\ \A k \in here : l.id <= k.id
                                /\ p.amount <= l.max
  <2> HIDE DEF cascade
  <2>1. QED
    BY <1>1
<1>3. QED
  BY <1>2, Zenon DEF LimitsRespected, InForce

-----------------------------------------------------------------------------
(***************************************************************************)
(* The theorems                                                            *)
(***************************************************************************)
\* The inductive invariant holds in every state: a VALID deal would pass its
\* validation again, unchanged, if the tables held the rows that its own one has
\* read, each at another moment.
THEOREM Invariance == Spec => []IInv
BY InitInv, NextInv, PTL DEF Spec

\* The rows of the deal and of its payments have the types of their columns;
\* no validation stores an amount that does not fit.
THEOREM TypeCorrect == Spec => []TypeOK
BY Invariance, InvTypeOK, PTL

\* The loops of _add_business_days find the day that the definition of TOD,
\* TOM and SPOT asks for, and a FORWARD deal settles in the window.
THEOREM DatesRight == Spec => []SettlesOnTime
BY Invariance, InvSettles, PTL

\* The payments of a VALID deal are the two sides of the exchange, through
\* active accounts, and worth the same to half a cent.
THEOREM ExchangeBalanced == Spec => []PaymentsBalance
BY Invariance, InvBalance, PTL

\* No payment of a VALID deal exceeds the limit in force: choosing by
\* specificity and age is the cascade from the particular to the general.
THEOREM WithinTheLimits == Spec => []LimitsRespected
BY Invariance, InvLimits, PTL

\* No VALID deal has an amount or a rate that its column rounded to nothing.
THEOREM AmountsPositive == Spec => []PositiveAmounts
BY Invariance, InvPositive, PTL

\* Validating a VALID deal once more on the rows that its validation has read,
\* in five SELECTs with changes in between, leaves it as it is: the stored date
\* and payments are those of these rows, and nothing of them depends on what
\* the first validation has written.
THEOREM ValidationIdempotent == Spec => []RevalidationStable
BY Invariance, InvStable, PTL

=============================================================================
