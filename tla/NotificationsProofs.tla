-------------------------- MODULE NotificationsProofs --------------------------
(***************************************************************************)
(* Proofs about Notifications, for any number of entries, page size and    *)
(* number of requests at the same time: what has been marked stays read,   *)
(* the badge counts right, a walk through the pages misses nothing.        *)
(***************************************************************************)
EXTENDS Notifications, OrderFacts

-----------------------------------------------------------------------------
(***************************************************************************)
(* Counting what a page shows.  All that a page says of the order is how   *)
(* many entries there are from a stamp on.                                 *)
(***************************************************************************)
LogSound == IsFiniteSet(log) /\ log \subseteq Entries

\* The entries from a stamp on, and how many there are.
Since(t) == {e \in log : e.stamp >= t}
Count(t) == Cardinality(Since(t))

\* The entries of one stamp.
Class(t) == {e \in log : e.stamp = t}

\* Of the first so many entries, how many are on the page.
Shown(page, n) ==
    LET upTo(bound) == IF n < bound THEN n ELSE bound
    IN  upTo(Offset(page) + PageSize) - upTo(Offset(page))

\* There are finitely many of each, and those of a stamp come on top of
\* those that are newer.
LEMMA CountFacts ==
    ASSUME LogSound, NEW t \in Nat
    PROVE  /\ IsFiniteSet(Since(t)) /\ Count(t) \in Nat
           /\ IsFiniteSet(Class(t)) /\ Cardinality(Class(t)) \in Nat
           /\ Count(t) = Count(t + 1) + Cardinality(Class(t))
           /\ Since(t) = Since(t + 1) \cup Class(t)
<1>1. \A e \in log : e.stamp \in Nat
  BY DEF LogSound, Entries
<1>2. IsFiniteSet(Since(t)) /\ IsFiniteSet(Since(t + 1)) /\ IsFiniteSet(Class(t))
  BY FS_Subset DEF LogSound, Since, Class
<1>3. /\ Count(t) \in Nat /\ Count(t + 1) \in Nat /\ Cardinality(Class(t)) \in Nat
  BY <1>2, FS_CardinalityType DEF Count
<1>4. Since(t) = Since(t + 1) \cup Class(t) /\ Since(t + 1) \cap Class(t) = {}
  BY <1>1 DEF Since, Class
<1>5. Cardinality(Since(t + 1) \cup Class(t))
         = Cardinality(Since(t + 1)) + Cardinality(Class(t)) - Cardinality({})
  BY <1>2, <1>4, FS_Union
<1>6. Count(t) = Count(t + 1) + Cardinality(Class(t))
  BY <1>3, <1>4, <1>5, FS_EmptySet DEF Count
<1>7. QED
  BY <1>2, <1>3, <1>4, <1>6

\* An offset is a number.
LEMMA OffsetFacts ==
    ASSUME NEW page \in Nat \ {0}
    PROVE  /\ Offset(page) \in Nat /\ Offset(1) = 0
           /\ Offset(page + 1) = Offset(page) + PageSize
<1>1. PageSize \in Nat \ {0}
  BY NotificationsAssumption
<1>2. Offset(page) = (page - 1) * PageSize /\ Offset(page + 1) = page * PageSize
  BY DEF Offset
<1>3. page * PageSize = (page - 1) * PageSize + PageSize
  BY <1>1
<1>4. (page - 1) * PageSize \in Nat
  BY <1>1
<1>5. Offset(1) = 0
  BY <1>1 DEF Offset
<1>6. QED
  BY <1>2, <1>3, <1>4, <1>5

\* The places of a stamp that fall on the page.
Places(page, t) ==
    ((Offset(page) + 1)..(Offset(page) + PageSize)) \cap ((Count(t + 1) + 1)..Count(t))

LEMMA PlacesCount ==
    ASSUME LogSound, NEW page \in Nat \ {0}, NEW t \in Nat
    PROVE  /\ IsFiniteSet(Places(page, t))
           /\ Cardinality(Places(page, t)) = Shown(page, Count(t)) - Shown(page, Count(t + 1))
<1> DEFINE lo == Offset(page)
           hi == Offset(page) + PageSize
           a == Count(t + 1)
           b == Count(t)
           from == IF lo < a THEN a + 1 ELSE lo + 1
           to == IF hi < b THEN hi ELSE b
<1>1. lo \in Nat /\ hi \in Nat /\ a \in Nat /\ b \in Nat /\ a <= b /\ lo <= hi
  BY OffsetFacts, CountFacts, NotificationsAssumption
<1>2. Places(page, t) = from..to
  BY <1>1 DEF Places
<1>3. IsFiniteSet(from..to) /\ Cardinality(from..to) = IF from > to THEN 0 ELSE to - from + 1
  <2>1. from \in Int /\ to \in Int
    BY <1>1
  <2> HIDE DEF from, to
  <2>2. QED
    BY <2>1, FS_Interval
<1> HIDE DEF lo, hi, a, b
<1>4. (IF from > to THEN 0 ELSE to - from + 1)
         = ((IF b < hi THEN b ELSE hi) - (IF b < lo THEN b ELSE lo))
            - ((IF a < hi THEN a ELSE hi) - (IF a < lo THEN a ELSE lo))
  BY <1>1
<1>5. QED
  BY <1>2, <1>3, <1>4 DEF Shown, lo, hi, a, b

\* A page has of each stamp as many entries as the stamp has places on it.
LEMMA ClassShown ==
    ASSUME LogSound, NEW page \in Nat \ {0}, NEW P \in Pages(page), NEW t \in Nat
    PROVE  /\ P \subseteq log
           /\ Cardinality(P \cap Class(t)) = Cardinality(Places(page, t))
<1> DEFINE places    == (Offset(page) + 1)..(Offset(page) + PageSize)
           first(e)  == Cardinality({f \in log : Precedes(f, e)}) + 1
           last(e)   == Cardinality({f \in log : ~Precedes(e, f)})
           share(e)  == places \cap (first(e)..last(e))
           sure      == {e \in log : first(e) \in places /\ last(e) \in places}
           partial   == {e \in log \ sure : share(e) # {}}
<1>1. PICK X \in SUBSET partial :
         /\ P = sure \cup X
         /\ \A e \in partial :
               Cardinality({f \in X : f.stamp = e.stamp}) = Cardinality(share(e))
  BY DEF Pages
<1>2. \A e \in log : e.stamp \in Nat
  BY DEF LogSound, Entries
<1>3. ASSUME NEW e \in Class(t)
      PROVE  first(e) = Count(t + 1) + 1 /\ last(e) = Count(t) /\ share(e) = Places(page, t)
  <2>1. {f \in log : Precedes(f, e)} = Since(t + 1)
    BY <1>2 DEF Precedes, Since, Class
  <2>2. {f \in log : ~Precedes(e, f)} = Since(t)
    BY <1>2 DEF Precedes, Since, Class
  <2>3. QED
    BY <2>1, <2>2 DEF Count, Places
<1>4. P \subseteq log
  BY <1>1
<1> HIDE DEF first, last, share
<1> DEFINE a == Count(t + 1) + 1
           b == Count(t)
<1>5. Offset(page) \in Nat /\ PageSize \in Nat
  BY OffsetFacts, NotificationsAssumption
<1>6. a \in Nat /\ b \in Nat /\ Cardinality(Class(t)) = b - a + 1
  BY CountFacts
<1>7. CASE Class(t) = {}
  <2>1. a = b + 1
    BY <1>6, <1>7, FS_EmptySet
  <2>2. Places(page, t) = {} /\ P \cap Class(t) = {}
    BY <1>6, <1>7, <2>1 DEF Places
  <2>3. QED
    BY <1>4, <2>2
<1>8. CASE Class(t) # {} /\ a \in places /\ b \in places
  <2>1. P \cap Class(t) = Class(t)
    BY <1>1, <1>3, <1>8 DEF Class
  <2>2. Places(page, t) = a..b
    BY <1>5, <1>6, <1>8 DEF Places
  <2>3. a <= b
    BY <1>6, <1>8, CountFacts, FS_EmptySet
  <2>4. Cardinality(a..b) = b - a + 1
    BY <1>6, <2>3, FS_Interval
  <2>5. QED
    BY <1>4, <1>6, <2>1, <2>2, <2>4
<1>9. CASE Class(t) # {} /\ ~(a \in places /\ b \in places)
  <2>1. Class(t) \cap sure = {}
    BY <1>3, <1>9
  <2>2. CASE Places(page, t) = {}
    <3>1. Class(t) \cap partial = {}
      BY <1>3, <2>2
    <3>2. P \cap Class(t) = {}
      BY <1>1, <2>1, <3>1
    <3>3. QED
      BY <1>4, <2>2, <3>2
  <2>3. CASE Places(page, t) # {}
    <3>1. PICK e \in Class(t) : TRUE
      BY <1>9
    <3>2. e \in partial
      BY <1>3, <2>1, <2>3, <3>1 DEF Class
    <3>3. {f \in X : f.stamp = e.stamp} = P \cap Class(t)
      BY <1>1, <2>1, <3>1 DEF Class
    <3>4. QED
      BY <1>1, <1>3, <1>4, <3>1, <3>2, <3>3
  <2>4. QED
    BY <2>2, <2>3
<1>10. QED
  BY <1>7, <1>8, <1>9

\* Of the entries from a stamp on, the page shows those whose turn it is.
LEMMA PageCount ==
    ASSUME LogSound, NEW page \in Nat \ {0}, NEW P \in Pages(page), NEW t \in Nat
    PROVE  P \subseteq log /\ Cardinality(P \cap Since(t)) = Shown(page, Count(t))
<1> DEFINE T == {d \in Nat : Cardinality(P \cap Since(d)) = Shown(page, Count(d))}
           top == IF t > MaxClock THEN t ELSE MaxClock + 1
<1>1. top \in Nat /\ t \in t..top /\ MaxClock \in Nat
  BY NotificationsAssumption
<1>2. /\ Offset(page) \in Nat /\ PageSize \in Nat
      /\ \A d \in Nat : Count(d) \in Nat /\ IsFiniteSet(P \cap Since(d))
                                         /\ Cardinality(P \cap Since(d)) \in Nat
  BY OffsetFacts, NotificationsAssumption, CountFacts, FS_Subset, FS_CardinalityType
<1>3. top \in T
  <2>1. Since(top) = {}
    BY <1>1, NotificationsAssumption DEF LogSound, Entries, Since
  <2>2. Cardinality(P \cap Since(top)) = 0 /\ Count(top) = 0
    BY <2>1, FS_EmptySet DEF Count
  <2>3. Shown(page, 0) = 0
    BY <1>2 DEF Shown
  <2>4. QED
    BY <1>1, <2>2, <2>3
<1>4. ASSUME NEW d \in t..top, d + 1 \in T
      PROVE  d \in T
  <2>0. d \in Nat
    OBVIOUS
  <2>1. (P \cap Since(d + 1)) \cup (P \cap Class(d)) = P \cap Since(d)
    BY <2>0, CountFacts
  <2>2. (P \cap Since(d + 1)) \cap (P \cap Class(d)) = {}
    BY <2>0 DEF LogSound, Entries, Since, Class
  <2>3. IsFiniteSet(P \cap Since(d + 1)) /\ IsFiniteSet(P \cap Class(d))
    BY <1>2, <2>0, CountFacts, FS_Subset
  <2>4. Cardinality(P \cap Since(d))
           = Cardinality(P \cap Since(d + 1)) + Cardinality(P \cap Class(d)) - 0
    BY <2>1, <2>2, <2>3, FS_Union, FS_EmptySet
  <2>5. Cardinality(P \cap Class(d)) = Shown(page, Count(d)) - Shown(page, Count(d + 1))
    BY <2>0, ClassShown, PlacesCount
  <2>6. Cardinality(P \cap Since(d + 1)) = Shown(page, Count(d + 1))
    BY <1>4
  <2>7. \A n \in Nat : Shown(page, n) \in Int
    BY <1>2 DEF Shown
  <2>8. Cardinality(P \cap Since(d)) = Shown(page, Count(d))
    <3>1. d + 1 \in Nat
      BY <2>0
    <3>2. Count(d) \in Nat /\ Count(d + 1) \in Nat
      BY <2>0, <3>1, CountFacts
    <3>3. Shown(page, Count(d)) \in Int /\ Shown(page, Count(d + 1)) \in Int
      BY <2>7, <3>2, Zenon
    <3>4. QED
      BY <2>4, <2>5, <2>6, <3>3
  <2>9. QED
    BY <2>0, <2>8
<1>5. t..top \subseteq T
  <2> HIDE DEF T, top
  <2>1. QED
    BY <1>1, <1>3, <1>4, DownwardInduction
<1>6. P \subseteq log
  BY ClassShown
<1>7. QED
  BY <1>1, <1>5, <1>6

\* A page is full unless the log ends on it.
LEMMA PageFull ==
    ASSUME LogSound, NEW page \in Nat \ {0}, NEW P \in Pages(page),
           Cardinality(log) >= Offset(page) + PageSize
    PROVE  Cardinality(P) = PageSize
<1>1. Since(0) = log
  BY DEF LogSound, Entries, Since
<1>2. Cardinality(P \cap Since(0)) = Shown(page, Count(0)) /\ P \cap Since(0) = P
  BY <1>1, PageCount
<1>3. Count(0) \in Nat /\ Count(0) >= Offset(page) + PageSize
      /\ Offset(page) \in Nat /\ PageSize \in Nat
  BY <1>1, CountFacts, OffsetFacts, NotificationsAssumption DEF Count
<1>4. Shown(page, Count(0)) = PageSize
  BY <1>3 DEF Shown
<1>5. QED
  BY <1>2, <1>4

\* An entry with a stamp of its own is on the page, or its place lies before
\* or behind it.
LEMMA LoneEntry ==
    ASSUME LogSound, NEW page \in Nat \ {0}, NEW P \in Pages(page), NEW e \in log \ P,
           \A f \in log : f # e => f.stamp # e.stamp,
           Count(e.stamp) > Offset(page)
    PROVE  Count(e.stamp) > Offset(page + 1)
<1> DEFINE t == e.stamp
<1>1. t \in Nat
  BY DEF LogSound, Entries
<1>2. Class(t) = {e}
  BY DEF Class
<1>3. Count(t) = Count(t + 1) + 1 /\ Count(t + 1) \in Nat
  <2>1. Cardinality(Class(t)) = 1
    BY <1>2, FS_Singleton
  <2>2. t + 1 \in Nat
    BY <1>1
  <2> HIDE DEF t
  <2>3. Count(t) = Count(t + 1) + Cardinality(Class(t)) /\ Count(t + 1) \in Nat
    BY <1>1, <2>2, CountFacts
  <2>4. QED
    BY <2>1, <2>3
<1>4. P \cap Class(t) = {}
  BY <1>2
<1>5. Cardinality(Places(page, t)) = 0 /\ IsFiniteSet(Places(page, t))
  BY <1>1, <1>4, ClassShown, PlacesCount, FS_EmptySet
<1>6. Places(page, t) = {}
  BY <1>5, FS_EmptySet
<1>7. Count(t) \notin (Offset(page) + 1)..(Offset(page) + PageSize)
  <2>1. Count(t) \in (Count(t + 1) + 1)..Count(t)
    BY <1>3
  <2>2. QED
    BY <2>1, <1>6 DEF Places
<1>8. Offset(page) \in Nat /\ Offset(page + 1) = Offset(page) + PageSize /\ PageSize \in Nat
  BY OffsetFacts, NotificationsAssumption
<1> HIDE DEF t
<1>9. QED
  BY <1>3, <1>7, <1>8 DEF t

-----------------------------------------------------------------------------
(***************************************************************************)
(* The inductive invariant: the log, the walks through it, and the         *)
(* read-alls, of which one at a time is in progress until two overlap.     *)
(***************************************************************************)
\* Has the entry a stamp of its own?
Alone(e) == \A f \in log : f # e => f.stamp # e.stamp

\* A walk has yet to come by what it has not seen.
Walking(r) ==
    /\ r.op = "walk"
    /\ r = [op |-> "walk", page |-> r.page, left |-> r.left]
    /\ r.page \in Nat \ {0} /\ r.left \subseteq log
    /\ \A e \in r.left : Alone(e) => Count(e.stamp) > Offset(r.page)

Walked(r) ==
    /\ r.op = "walked"
    /\ r = [op |-> "walked", page |-> r.page, left |-> r.left]
    /\ \A e \in r.left : e \in log /\ ~Alone(e)

\* A read-all has seen the log before it looks at the clock.
Looking(r) ==
    /\ r.op = "look"
    /\ r = [op |-> "look", copy |-> r.copy, newest |-> r.newest]
    /\ r.newest \in 0..clock

Stamped(r) ==
    /\ r.op = "stamped"
    /\ r = [op |-> "stamped", copy |-> r.copy, newest |-> r.newest, at |-> r.at]
    /\ r.at \in 0..clock /\ r.newest \in 0..r.at

Sound(r) == r = Idle \/ Walking(r) \/ Walked(r) \/ Looking(r) \/ Stamped(r)

RequestsSound ==
    /\ req = [s \in Slots |-> req[s]]
    /\ \A s \in Slots : Sound(req[s])

Marking(s) == req[s].op \in {"look", "stamped"}

\* While no two have overlapped, the row is as the one in progress found it,
\* and no clock is older than what is marked.
OneAtATime ==
    ~raced => /\ due = 0 \/ \E t \in lastRead : due <= t
              /\ \A s, o \in Slots : Marking(s) /\ Marking(o) => s = o
              /\ \A s \in Slots : Marking(s) => req[s].copy = lastRead
              /\ \A s \in Slots : req[s].op = "stamped" =>
                    \A t \in lastRead : t <= req[s].at

Marks == lastRead = {} \/ \E t \in 0..clock : lastRead = {t}

IInv == /\ TypeOK /\ LogSound /\ Marks
        /\ RequestsSound /\ OneAtATime

\* What is in one request's record does not show in another's.
LEMMA OpFacts ==
    /\ Idle.op = "idle"
    /\ \A r : /\ Walking(r) => r.op = "walk"
              /\ Walked(r) => r.op = "walked"
              /\ Looking(r) => r.op = "look"
              /\ Stamped(r) => r.op = "stamped"
<1>1. Idle.op = "idle"
  BY DEF Idle
<1>2. ASSUME NEW r, Walking(r)
      PROVE  r.op = "walk"
  BY <1>2 DEF Walking
<1>3. ASSUME NEW r, Walked(r)
      PROVE  r.op = "walked"
  BY <1>3 DEF Walked
<1>4. ASSUME NEW r, Looking(r)
      PROVE  r.op = "look"
  BY <1>4 DEF Looking
<1>5. ASSUME NEW r, Stamped(r)
      PROVE  r.op = "stamped"
  BY <1>5 DEF Stamped
<1>6. QED
  BY <1>1, <1>2, <1>3, <1>4, <1>5

LEMMA InitInv == Init => IInv
<1> SUFFICES ASSUME Init PROVE IInv
  OBVIOUS
<1>1. LogSound /\ Marks
  BY FS_EmptySet DEF Init, LogSound, Marks
<1>2. TypeOK
  <2>1. Cardinality({}) = 0 /\ MaxRequests \in Nat /\ MaxClock \in Nat
    BY FS_EmptySet, NotificationsAssumption
  <2>2. {e.stamp : e \in log} \subseteq (1..clock) \ open
    BY DEF Init
  <2>3. Cardinality(lastRead) <= 1
    BY <2>1 DEF Init
  <2>4. clock \in 0..MaxClock /\ due \in 0..clock /\ served \in 0..MaxRequests
    BY <2>1 DEF Init
  <2>5. log = {} /\ open = {} /\ lastRead = {} /\ raced = FALSE
    BY DEF Init
  <2>6. log \subseteq Entries /\ open \subseteq 1..clock /\ lastRead \subseteq 0..clock
        /\ raced \in BOOLEAN
    BY <2>5
  <2>7. QED
    BY <2>2, <2>3, <2>4, <2>6 DEF TypeOK
<1>3. RequestsSound
  BY DEF Init, RequestsSound, Sound
<1>4. OneAtATime
  BY OpFacts DEF Init, OneAtATime, Marking
<1>5. QED
  BY <1>1, <1>2, <1>3, <1>4 DEF IInv

\* As the log and the clock grow, requests stay sound.
LEMMA Grown ==
    ASSUME LogSound, LogSound', log \subseteq log', clock \in Nat, clock' \in Nat,
           clock <= clock', NEW r
    PROVE  Sound(r) => Sound(r)'
<1>1. ASSUME NEW e \in log
      PROVE  Alone(e)' => Alone(e) /\ Count(e.stamp) \in Nat /\ Count(e.stamp)' \in Nat
                                   /\ Count(e.stamp) <= Count(e.stamp)'
  <2>1. e.stamp \in Nat
    BY DEF LogSound, Entries
  <2>2. IsFiniteSet(Since(e.stamp)') /\ Since(e.stamp) \subseteq Since(e.stamp)'
    BY FS_Subset DEF LogSound, Since
  <2>3. Count(e.stamp) \in Nat /\ Count(e.stamp)' \in Nat
    BY <2>1, <2>2, CountFacts, FS_CardinalityType DEF Count
  <2>4. Count(e.stamp) <= Count(e.stamp)'
    BY <2>2, FS_Subset DEF Count
  <2>5. QED
    BY <2>3, <2>4 DEF Alone
<1>2. ASSUME Walking(r)
      PROVE  Walking(r)'
  <2>1. Offset(r.page) \in Nat
    BY <1>2, OffsetFacts DEF Walking
  <2>2. ASSUME NEW e \in r.left, Alone(e)'
        PROVE  (Count(e.stamp) > Offset(r.page))'
    <3>1. e \in log /\ Count(e.stamp) > Offset(r.page)
      BY <1>1, <1>2, <2>2 DEF Walking
    <3>2. QED
      BY <1>1, <2>1, <2>2, <3>1 DEF Offset
  <2>3. QED
    BY <1>2, <2>2 DEF Walking
<1>3. ASSUME Walked(r)
      PROVE  Walked(r)'
  BY <1>1, <1>3 DEF Walked
<1>4. Looking(r) => Looking(r)'
  BY DEF Looking
<1>5. Stamped(r) => Stamped(r)'
  BY DEF Stamped
<1>6. QED
  BY <1>2, <1>3, <1>4, <1>5 DEF Sound

\* The newest stamp of the log.
LEMMA NewestFacts ==
    ASSUME TypeOK
    PROVE  Newest \in 0..clock /\ \A e \in log : e.stamp <= Newest
<1> DEFINE S == {e.stamp : e \in log}
<1>1. S \subseteq 1..clock /\ clock \in Nat
  BY NotificationsAssumption DEF TypeOK
<1>2. IsFiniteSet(S) /\ S \in SUBSET Nat
  <2>1. S \in SUBSET Nat /\ \A t \in S : t <= clock
    BY <1>1
  <2> HIDE DEF S
  <2>2. QED
    BY <1>1, <2>1, FS_BoundedSetOfNaturals
<1>3. \E t \in 0..clock : (\A e \in log : e.stamp <= t) /\ (t = 0 \/ \E e \in log : e.stamp = t)
  <2>1. CASE log = {}
    BY <1>1, <2>1
  <2>2. CASE log # {}
    <3>1. S # {}
      BY <2>2
    <3>2. PICK m \in S : \A k \in S : k <= m
      <4> HIDE DEF S
      <4>1. QED
        BY <1>2, <3>1, GreatestElement
    <3>3. m \in 0..clock /\ (\A e \in log : e.stamp <= m) /\ \E e \in log : e.stamp = m
      BY <1>1, <3>2
    <3>4. QED
      BY <3>3
  <2>3. QED
    BY <2>1, <2>2
<1>4. QED
  BY <1>3 DEF Newest

-----------------------------------------------------------------------------
(***************************************************************************)
(* The steps                                                               *)
(***************************************************************************)
\* What every step keeps if it leaves the log and the clock alone.
LEMMA Kept ==
    ASSUME IInv, UNCHANGED trail
    PROVE  LogSound' /\ \A r : Sound(r)' <=> Sound(r)
<1>1. log' = log /\ clock' = clock
  BY DEF trail
<1>2. \A t : Since(t)' = Since(t)
  BY <1>1 DEF Since
<1>3. \A t : Count(t)' = Count(t)
  BY <1>2 DEF Count
<1>4. \A e : Alone(e)' <=> Alone(e)
  BY <1>1 DEF Alone
<1>5. \A r : Walking(r)' <=> Walking(r)
  BY <1>1, <1>3, <1>4 DEF Walking, Offset
<1>6. \A r : Walked(r)' <=> Walked(r)
  BY <1>1, <1>4 DEF Walked
<1>7. \A r : Looking(r)' <=> Looking(r)
  BY <1>1 DEF Looking
<1>8. \A r : Stamped(r)' <=> Stamped(r)
  BY <1>1 DEF Stamped
<1>9. LogSound'
  BY <1>1 DEF IInv, LogSound
<1>10. QED
  BY <1>5, <1>6, <1>7, <1>8, <1>9 DEF Sound

\* Writing leaves the requests alone.
LEMMA BeginInv ==
    ASSUME IInv, Begin
    PROVE  IInv'
<1>1. MaxClock \in Nat /\ clock \in Nat /\ clock' = clock + 1
  BY NotificationsAssumption DEF IInv, TypeOK, Begin
<1>2. LogSound /\ LogSound'
  BY DEF IInv, LogSound, Begin
<1>3. TypeOK'
  BY <1>1 DEF IInv, TypeOK, Begin
<1>4. Marks'
  BY <1>1 DEF IInv, Marks, Begin
<1>5. RequestsSound'
  BY <1>1, <1>2, Grown DEF IInv, RequestsSound, Begin
<1>6. OneAtATime'
  BY DEF IInv, OneAtATime, Marking, Begin
<1>7. QED
  BY <1>2, <1>3, <1>4, <1>5, <1>6 DEF IInv

LEMMA CommitInv ==
    ASSUME IInv, NEW t \in open, Commit(t)
    PROVE  IInv'
<1>1. t \in 1..clock /\ clock \in Nat /\ MaxClock \in Nat /\ clock <= MaxClock
  BY NotificationsAssumption DEF IInv, TypeOK
<1>2. PICK n \in 1..2 : log' = log \cup {[stamp |-> t, nr |-> k] : k \in 1..n}
  BY DEF Commit
<1> DEFINE r1 == [stamp |-> t, nr |-> 1]
           r2 == [stamp |-> t, nr |-> 2]
<1>3. r1 \in Entries /\ r2 \in Entries
  BY <1>1 DEF Entries
<1>4. log' = log \cup {r1} \/ log' = (log \cup {r1}) \cup {r2}
  BY <1>2
<1>5. IsFiniteSet(log \cup {r1}) /\ IsFiniteSet((log \cup {r1}) \cup {r2})
  BY FS_AddElement DEF IInv, LogSound
<1>6. LogSound /\ LogSound' /\ log \subseteq log'
  BY <1>3, <1>4, <1>5 DEF IInv, LogSound
<1>7. TypeOK'
  <2>1. \A e \in log' : e \in log \/ e.stamp = t
    BY <1>4
  <2>2. {e.stamp : e \in log'} \subseteq (1..clock) \ (open \ {t})
    BY <1>1, <2>1 DEF IInv, TypeOK
  <2>3. QED
    BY <1>6, <2>2 DEF IInv, TypeOK, Commit, LogSound
<1>8. Marks'
  BY DEF IInv, Marks, Commit
<1>9. RequestsSound'
  BY <1>1, <1>6, Grown DEF IInv, RequestsSound, Commit
<1>10. OneAtATime'
  BY DEF IInv, OneAtATime, Marking, Commit
<1>11. QED
  BY <1>6, <1>7, <1>8, <1>9, <1>10 DEF IInv

\* A slot takes up a request that is sound.
LEMMA SlotSound ==
    ASSUME IInv, UNCHANGED trail, NEW s \in Slots, NEW r, Sound(r),
           req' = [req EXCEPT ![s] = r]
    PROVE  RequestsSound' /\ req'[s] = r /\ \A o \in Slots \ {s} : req'[o] = req[o]
<1>1. req = [o \in Slots |-> req[o]]
  BY DEF IInv, RequestsSound
<1>2. req' = [o \in Slots |-> IF o = s THEN r ELSE req[o]]
  BY <1>1
<1>3. ASSUME NEW o \in Slots
      PROVE  Sound(req[o])'
  <2>1. CASE o = s
    <3>1. req'[o] = r
      BY <1>2, <2>1
    <3>2. Sound(r)'
      BY Kept
    <3>3. QED
      BY <3>1, <3>2
  <2>2. CASE o # s
    <3>1. req'[o] = req[o]
      BY <1>2, <2>2
    <3>2. Sound(req[o])
      BY DEF IInv, RequestsSound
    <3> DEFINE q == req[o]
    <3> HIDE DEF q
    <3>3. QED
      BY <3>1, <3>2, Kept DEF q
  <2>3. QED
    BY <2>1, <2>2
<1>4. req' = [o \in Slots |-> req'[o]]
  BY <1>2
<1>5. RequestsSound'
  BY <1>3, <1>4 DEF RequestsSound
<1>6. QED
  BY <1>2, <1>5

LEMMA StartWalkInv ==
    ASSUME IInv, NEW s \in Slots, StartWalk(s)
    PROVE  IInv'
<1> DEFINE r == [op |-> "walk", page |-> 1, left |-> log]
<1>1. UNCHANGED trail /\ UNCHANGED <<lastRead, due, raced>>
      /\ req' = [req EXCEPT ![s] = r] /\ served' = served + 1 /\ served < MaxRequests
  BY DEF StartWalk, Serve
<1>2. Walking(r)
  <2>1. ASSUME NEW e \in log
        PROVE  Count(e.stamp) > Offset(1)
    <3>1. e.stamp \in Nat /\ e \in Since(e.stamp)
      BY DEF IInv, LogSound, Entries, Since
    <3>2. Count(e.stamp) # 0 /\ Count(e.stamp) \in Nat
      BY <3>1, CountFacts, FS_EmptySet DEF IInv, Count
    <3>3. Offset(1) = 0
      BY OffsetFacts
    <3>4. QED
      BY <3>2, <3>3
  <2>2. QED
    BY <2>1 DEF Walking
<1> HIDE DEF r
<1>3. RequestsSound' /\ req'[s] = r /\ \A o \in Slots \ {s} : req'[o] = req[o]
  BY <1>1, <1>2, SlotSound DEF Sound
<1>4. r.op = "walk"
  BY DEF r
<1>5. TypeOK' /\ Marks'
  BY <1>1, NotificationsAssumption DEF IInv, TypeOK, Marks, trail
<1>6. OneAtATime'
  BY <1>1, <1>3, <1>4 DEF IInv, OneAtATime, Marking
<1>7. QED
  BY <1>1, <1>3, <1>5, <1>6, Kept DEF IInv

LEMMA NextPageInv ==
    ASSUME IInv, NEW s \in Slots, NextPage(s)
    PROVE  IInv'
<1> DEFINE w == req[s]
<1>1. Walking(w) /\ UNCHANGED trail /\ UNCHANGED <<lastRead, served, due, raced>>
  BY OpFacts DEF NextPage, IInv, RequestsSound, Sound
<1>2. PICK P \in Pages(w.page) :
         req' = [req EXCEPT ![s] = [w EXCEPT
                    !.op = IF Cardinality(P) < PageSize THEN "walked" ELSE @,
                    !.page = @ + 1, !.left = @ \ P]]
  BY DEF NextPage, GoOn
<1> DEFINE r == [w EXCEPT !.op = IF Cardinality(P) < PageSize THEN "walked" ELSE @,
                          !.page = @ + 1, !.left = @ \ P]
<1>3. r = [op |-> IF Cardinality(P) < PageSize THEN "walked" ELSE "walk",
           page |-> w.page + 1, left |-> w.left \ P]
  <2>1. w = [op |-> "walk", page |-> w.page, left |-> w.left]
    BY <1>1 DEF Walking
  <2> DEFINE op == IF Cardinality(P) < PageSize THEN "walked" ELSE w.op
             page == w.page + 1
             left == w.left \ P
  <2>2. w.op = "walk"
    BY <2>1, OpFacts, <1>1
  <2> HIDE DEF w, op, page, left
  <2>3. [w EXCEPT !.op = op, !.page = page, !.left = left]
           = [op |-> op, page |-> page, left |-> left]
    <3> DEFINE v == [w EXCEPT !.op = op, !.page = page, !.left = left]
    <3>1. w \in [op: {"walk"}, page: {w.page}, left: {w.left}]
      BY <2>1
    <3>2. v \in [op: {op}, page: {page}, left: {left}]
      BY <3>1
    <3> HIDE DEF v
    <3>3. v = [op |-> op, page |-> page, left |-> left]
      BY <3>2
    <3>4. QED
      BY <3>3 DEF v
  <2>4. QED
    BY <2>2, <2>3 DEF op, page, left
<1>4. ASSUME NEW e \in w.left \ P, Alone(e)
      PROVE  e \in log /\ Count(e.stamp) > Offset(w.page + 1)
  BY <1>1, <1>4, LoneEntry DEF IInv, Walking, Alone
<1>5. ASSUME Cardinality(P) < PageSize
      PROVE  Walked(r)
  <2>1. ASSUME NEW e \in w.left \ P
        PROVE  e \in log /\ ~Alone(e)
    <3>1. e \in log
      BY <1>1 DEF Walking
    <3> SUFFICES ASSUME Alone(e) PROVE FALSE
      BY <3>1
    <3>2. Count(e.stamp) > Offset(w.page) + PageSize
      BY <1>1, <1>4, OffsetFacts DEF Walking
    <3>3. e.stamp \in Nat /\ IsFiniteSet(log) /\ Since(e.stamp) \subseteq log
      BY <3>1 DEF IInv, LogSound, Entries, Since
    <3>4. Cardinality(log) >= Count(e.stamp) /\ Cardinality(log) \in Nat
          /\ Count(e.stamp) \in Nat
      BY <3>3, FS_Subset, FS_CardinalityType, CountFacts DEF IInv, Count
    <3>5. Offset(w.page) \in Nat /\ PageSize \in Nat
      BY <1>1, OffsetFacts, NotificationsAssumption DEF Walking
    <3>6. Cardinality(log) >= Offset(w.page) + PageSize
      BY <3>2, <3>4, <3>5
    <3>7. Cardinality(P) = PageSize
      BY <1>1, <3>6, PageFull DEF IInv, Walking
    <3>8. QED
      BY <1>5, <3>5, <3>7
  <2>2. Walked(r)
    BY <1>3, <1>5, <2>1 DEF Walked
  <2>3. QED
    BY <2>2
<1>6. ASSUME ~(Cardinality(P) < PageSize)
      PROVE  Walking(r)
  <2>1. Walking(r)
    BY <1>1, <1>3, <1>4, <1>6 DEF Walking
  <2>2. QED
    BY <2>1
<1>7. Walking(r) \/ Walked(r)
  BY <1>5, <1>6
<1> HIDE DEF r
<1>8. RequestsSound' /\ req'[s] = r /\ \A o \in Slots \ {s} : req'[o] = req[o]
  BY <1>1, <1>2, <1>7, SlotSound DEF r, Sound
<1>9. r.op \in {"walk", "walked"}
  BY <1>7, OpFacts
<1>10. TypeOK' /\ Marks'
  BY <1>1 DEF IInv, TypeOK, Marks, trail
<1>11. OneAtATime'
  BY <1>1, <1>8, <1>9 DEF IInv, OneAtATime, Marking
<1>12. QED
  BY <1>1, <1>8, <1>10, <1>11, Kept DEF IInv

LEMMA StartReadAllInv ==
    ASSUME IInv, NEW s \in Slots, StartReadAll(s)
    PROVE  IInv'
<1> DEFINE r == [op |-> "look", copy |-> lastRead, newest |-> Newest]
<1>1. UNCHANGED trail /\ UNCHANGED <<lastRead, due>> /\ req[s] = Idle
      /\ req' = [req EXCEPT ![s] = r] /\ served' = served + 1 /\ served < MaxRequests
      /\ raced' = (raced \/ \E o \in Slots : req[o].op \in {"look", "stamped"})
  BY DEF StartReadAll, Serve
<1>2. Looking(r) /\ r.op = "look" /\ r.copy = lastRead
  BY NewestFacts DEF Looking, IInv
<1> HIDE DEF r
<1>3. RequestsSound' /\ req'[s] = r /\ \A o \in Slots \ {s} : req'[o] = req[o]
  BY <1>1, <1>2, SlotSound DEF Sound
<1>4. TypeOK' /\ Marks'
  BY <1>1, NotificationsAssumption DEF IInv, TypeOK, Marks, trail
<1>5. OneAtATime'
  <2> SUFFICES ASSUME ~raced'
               PROVE  /\ (due = 0 \/ \E t \in lastRead : due <= t)'
                      /\ (\A q, o \in Slots : Marking(q) /\ Marking(o) => q = o)'
                      /\ (\A q \in Slots : Marking(q) => req[q].copy = lastRead)'
                      /\ (\A q \in Slots : req[q].op = "stamped" =>
                            \A t \in lastRead : t <= req[q].at)'
    BY DEF OneAtATime
  <2>1. ~raced /\ \A o \in Slots : ~Marking(o)
    BY <1>1 DEF Marking
  <2>2. \A o \in Slots \ {s} : ~Marking(o)' /\ req'[o].op # "stamped"
    BY <1>3, <2>1 DEF Marking
  <2>3. req'[s].op # "stamped" /\ req'[s].copy = lastRead
    BY <1>2, <1>3
  <2>4. QED
    BY <1>1, <2>1, <2>2, <2>3 DEF IInv, OneAtATime
<1>6. QED
  BY <1>1, <1>3, <1>4, <1>5, Kept DEF IInv

LEMMA StampInv ==
    ASSUME IInv, NEW s \in Slots, Stamp(s)
    PROVE  IInv'
<1> DEFINE r == [op |-> "stamped", copy |-> req[s].copy, newest |-> req[s].newest,
                 at |-> clock]
<1>1. UNCHANGED trail /\ UNCHANGED <<lastRead, served, due, raced>>
      /\ req[s].op = "look" /\ req' = [req EXCEPT ![s] = r]
  BY DEF Stamp, GoOn
<1>2. Looking(req[s])
  BY <1>1, OpFacts DEF IInv, RequestsSound, Sound
<1>3. clock \in Nat
  BY NotificationsAssumption DEF IInv, TypeOK
<1>4. Stamped(r) /\ r.op = "stamped" /\ r.at = clock /\ r.copy = req[s].copy
  BY <1>2, <1>3 DEF Looking, Stamped
<1> HIDE DEF r
<1>5. RequestsSound' /\ req'[s] = r /\ \A o \in Slots \ {s} : req'[o] = req[o]
  BY <1>1, <1>4, SlotSound DEF Sound
<1>6. TypeOK' /\ Marks'
  BY <1>1 DEF IInv, TypeOK, Marks, trail
<1>7. \A t \in lastRead : t <= clock
  BY <1>3 DEF IInv, TypeOK
<1>8. OneAtATime'
  <2>1. \A o \in Slots : Marking(o)' <=> Marking(o)
    BY <1>1, <1>4, <1>5 DEF Marking
  <2>2. \A o \in Slots : /\ req'[o].copy = req[o].copy
                         /\ o # s => req'[o] = req[o]
                         /\ o = s => req'[o].at = clock
    BY <1>4, <1>5
  <2>3. QED
    BY <1>1, <1>7, <2>1, <2>2 DEF IInv, OneAtATime
<1>9. QED
  BY <1>1, <1>5, <1>6, <1>8, Kept DEF IInv

LEMMA MarkReadInv ==
    ASSUME IInv, NEW s \in Slots, MarkRead(s)
    PROVE  IInv'
<1> DEFINE r == req[s]
<1>1. UNCHANGED trail /\ UNCHANGED <<served, raced>>
      /\ r.op = "stamped" /\ req' = [req EXCEPT ![s] = Idle]
      /\ lastRead' = (IF r.copy = {r.at} THEN lastRead ELSE {r.at})
      /\ due' = IF r.newest > due THEN r.newest ELSE due
  BY DEF MarkRead, GoOn
<1>2. r.at \in 0..clock /\ r.newest \in 0..r.at /\ clock \in Nat /\ due \in 0..clock
  <2>1. Stamped(r)
    BY <1>1, OpFacts DEF IInv, RequestsSound, Sound
  <2>2. QED
    BY <2>1, NotificationsAssumption DEF Stamped, IInv, TypeOK
<1>3. RequestsSound' /\ req'[s] = Idle /\ \A o \in Slots \ {s} : req'[o] = req[o]
  BY <1>1, SlotSound DEF Sound
<1> HIDE DEF r
<1>4. Marks'
  BY <1>1, <1>2 DEF IInv, Marks, trail
<1>5. TypeOK'
  <2>1. lastRead \subseteq 0..clock /\ Cardinality(lastRead) <= 1
    BY DEF IInv, TypeOK
  <2>2. {r.at} \subseteq 0..clock /\ Cardinality({r.at}) <= 1
    BY <1>2, FS_Singleton
  <2>3. lastRead' \in {lastRead, {r.at}}
    BY <1>1
  <2>4. Cardinality(lastRead') <= 1 /\ lastRead' \subseteq 0..clock
    BY <2>1, <2>2, <2>3
  <2>5. due' \in 0..clock
    BY <1>1, <1>2
  <2>6. QED
    BY <1>1, <2>4, <2>5 DEF IInv, TypeOK, trail
<1>6. OneAtATime'
  <2> SUFFICES ASSUME ~raced
               PROVE  /\ (due = 0 \/ \E t \in lastRead : due <= t)'
                      /\ (\A q, o \in Slots : Marking(q) /\ Marking(o) => q = o)'
                      /\ (\A q \in Slots : Marking(q) => req[q].copy = lastRead)'
                      /\ (\A q \in Slots : req[q].op = "stamped" =>
                            \A t \in lastRead : t <= req[q].at)'
    BY <1>1 DEF OneAtATime
  <2>1. Marking(s) /\ \A o \in Slots \ {s} : ~Marking(o)
    BY <1>1 DEF IInv, OneAtATime, Marking, r
  <2>2. lastRead' = {r.at}
    BY <1>1, <2>1 DEF IInv, OneAtATime, r
  <2>3. \A o \in Slots : ~Marking(o)' /\ req'[o].op # "stamped"
    BY <1>3, <2>1, OpFacts DEF Marking
  <2>4. \A t \in lastRead : t <= r.at
    BY <1>1 DEF IInv, OneAtATime, r
  <2>5. due' <= r.at
    <3>1. CASE due = 0
      BY <1>1, <1>2, <3>1
    <3>2. CASE \E t \in lastRead : due <= t
      <4>1. PICK t \in lastRead : due <= t
        BY <3>2
      <4>2. t \in 0..clock /\ t <= r.at
        BY <2>4 DEF IInv, TypeOK
      <4>3. QED
        BY <1>1, <1>2, <4>1, <4>2
    <3>3. QED
      BY <3>1, <3>2 DEF IInv, OneAtATime
  <2>6. QED
    BY <2>2, <2>3, <2>5
<1>7. QED
  BY <1>1, <1>3, <1>4, <1>5, <1>6, Kept DEF IInv

LEMMA FinishInv ==
    ASSUME IInv, NEW s \in Slots, Finish(s)
    PROVE  IInv'
<1>1. UNCHANGED trail /\ UNCHANGED <<lastRead, served, due, raced>>
      /\ req' = [req EXCEPT ![s] = Idle]
  BY DEF Finish, GoOn
<1>2. RequestsSound' /\ req'[s] = Idle /\ \A o \in Slots \ {s} : req'[o] = req[o]
  BY <1>1, SlotSound DEF Sound
<1>3. TypeOK' /\ Marks'
  BY <1>1 DEF IInv, TypeOK, Marks, trail
<1>4. OneAtATime'
  BY <1>1, <1>2, OpFacts DEF IInv, OneAtATime, Marking
<1>5. QED
  BY <1>1, <1>2, <1>3, <1>4, Kept DEF IInv

LEMMA NextInv == IInv /\ [Next]_vars => IInv'
<1> SUFFICES ASSUME IInv, [Next]_vars PROVE IInv'
  OBVIOUS
<1>1. CASE Begin
  BY <1>1, BeginInv
<1>2. ASSUME NEW t \in open, Commit(t)
      PROVE  IInv'
  BY <1>2, CommitInv
<1>3. ASSUME NEW s \in Slots,
             \/ StartWalk(s) \/ NextPage(s)
             \/ StartReadAll(s) \/ Stamp(s) \/ MarkRead(s)
             \/ Finish(s)
      PROVE  IInv'
  BY <1>3, StartWalkInv, NextPageInv, StartReadAllInv, StampInv, MarkReadInv, FinishInv
<1>4. CASE UNCHANGED vars
  <2>1. UNCHANGED trail /\ UNCHANGED <<lastRead, req, served, due, raced>>
    BY <1>4 DEF vars, trail
  <2>2. RequestsSound'
    <3>1. \A s \in Slots : Sound(req[s])'
      <4> TAKE s \in Slots
      <4> DEFINE r == req[s]
      <4>1. Sound(r) /\ req'[s] = r
        BY <2>1 DEF IInv, RequestsSound
      <4> HIDE DEF r
      <4>2. QED
        BY <2>1, <4>1, Kept
    <3>2. QED
      BY <2>1, <3>1 DEF IInv, RequestsSound
  <2>3. QED
    BY <2>1, <2>2, Kept DEF IInv, TypeOK, Marks, OneAtATime, Marking, trail
<1>5. QED
  BY <1>1, <1>2, <1>3, <1>4 DEF Next

-----------------------------------------------------------------------------
(***************************************************************************)
(* The theorems                                                            *)
(***************************************************************************)
\* The inductive invariant holds in every state.
THEOREM Invariance == Spec => []IInv
BY InitInv, NextInv, PTL DEF Spec

\* One mark at most for the user, and nothing is stamped with a time to come.
THEOREM TypeCorrect == Spec => []TypeOK
<1>1. IInv => TypeOK
  BY DEF IInv
<1>2. QED
  BY <1>1, Invariance, PTL

\* What was in the log when the user asked to mark everything is read and
\* stays so, until two such requests overlap.
THEOREM MarksLast == Spec => []MarkedStaysRead
<1>1. IInv => MarkedStaysRead
  <2> SUFFICES ASSUME IInv, ~raced, NEW e \in log, e.stamp <= due
               PROVE  IsRead(e, lastRead)
    BY DEF MarkedStaysRead
  <2>1. e.stamp \in 1..clock /\ clock \in Nat /\ due \in 0..clock
        /\ lastRead \subseteq 0..clock
    BY NotificationsAssumption DEF IInv, TypeOK
  <2>2. PICK t \in lastRead : due <= t
    BY <2>1 DEF IInv, OneAtATime
  <2>3. QED
    BY <2>1, <2>2 DEF IsRead
<1>2. QED
  BY <1>1, Invariance, PTL

\* The badge is the number of unread entries, up to a page of them.
THEOREM BadgeRight == Spec => []BadgeExact
<1>1. IInv => BadgeExact
  <2> SUFFICES ASSUME IInv, NEW P \in Pages(1)
               PROVE  LET unread(S) == Cardinality({e \in S : ~IsRead(e, lastRead)})
                      IN  unread(P) = IF unread(log) < PageSize THEN unread(log)
                                                               ELSE PageSize
    BY DEF BadgeExact
  <2>1. LogSound /\ clock \in Nat /\ \A e \in log : e.stamp \in Nat
    BY NotificationsAssumption DEF IInv, TypeOK, LogSound, Entries
  <2>2. PICK t \in Nat : \A e \in log : ~IsRead(e, lastRead) <=> e.stamp >= t
    <3>1. CASE lastRead = {}
      BY <2>1, <3>1 DEF IsRead
    <3>2. CASE \E u \in 0..clock : lastRead = {u}
      <4>1. PICK u \in 0..clock : lastRead = {u}
        BY <3>2
      <4>2. \A e \in log : ~IsRead(e, lastRead) <=> e.stamp >= u + 1
        BY <2>1, <4>1 DEF IsRead
      <4>3. QED
        BY <2>1, <4>2
    <3>3. QED
      BY <3>1, <3>2 DEF IInv, Marks
  <2>3. P \subseteq log /\ Cardinality(P \cap Since(t)) = Shown(1, Count(t))
    BY <2>1, PageCount
  <2>4. {e \in log : ~IsRead(e, lastRead)} = Since(t)
        /\ {e \in P : ~IsRead(e, lastRead)} = P \cap Since(t)
    BY <2>2, <2>3 DEF Since
  <2>5. Shown(1, Count(t)) = IF Count(t) < PageSize THEN Count(t) ELSE PageSize
    <3>1. Offset(1) = 0 /\ PageSize \in Nat /\ Count(t) \in Nat
      BY <2>1, OffsetFacts, CountFacts, NotificationsAssumption
    <3>2. QED
      BY <3>1 DEF Shown
  <2>6. QED
    BY <2>3, <2>4, <2>5 DEF Count
<1>2. QED
  BY <1>1, Invariance, PTL

\* A walk through the pages misses nothing that was there at its start,
\* except among entries of one stamp.
THEOREM WalkMissesNothing == Spec => []WalkComplete
<1>1. IInv => WalkComplete
  <2> SUFFICES ASSUME IInv, NEW s \in Slots, req[s].op = "walked", NEW e \in req[s].left
               PROVE  \E f \in log : f # e /\ f.stamp = e.stamp
    BY DEF WalkComplete
  <2>1. Walked(req[s])
    BY OpFacts DEF IInv, RequestsSound, Sound
  <2>2. QED
    BY <2>1 DEF Walked, Alone
<1>2. QED
  BY <1>1, Invariance, PTL

=============================================================================
