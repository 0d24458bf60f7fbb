-------------------------- MODULE DealRequestsProofs --------------------------
(***************************************************************************)
(* Proofs about DealRequests, for any number of requests and of slots, any *)
(* users, roles, terms, dates and settlement rule: what survives however   *)
(* requests on one deal interleave; and for a single slot, that requests   *)
(* one after the other implement DealLifecycle, and that the positions     *)
(* overview beside them misses nothing.                                    *)
(***************************************************************************)
EXTENDS PositionsOverview, DealRulesProofs, TLAPS

-----------------------------------------------------------------------------
(***************************************************************************)
(* The inductive invariant.  What a request may write depends on the copy  *)
(* it holds, which may be stale; so the invariant says what is true of     *)
(* every copy although the deal has moved on since it was loaded.          *)
(***************************************************************************)
\* Payments come in whole batches.
Whole(P) == \A p \in P : LegsOf(p.terms, p.date, p.batch) \subseteq P

\* The solution row and the positioner, once there, stay: a copy that has
\* them was loaded from a deal that has them.
Precedes(copy, d) ==
    /\ copy.solution # NoSolution => d.solution # NoSolution
    /\ copy.positioner # NoUser => d.positioner # NoUser

\* Only an approval sends, and it knows what it has sent.
InOrder(r, sentBefore) ==
    /\ r.phase \in {"sending", "sent", "failed"} => r.op = "approve"
    /\ r.op = "approve" => r.phase # "ready"
    /\ r.phase \in {"sending", "sent"} =>
          \A p \in r.copy.payments \ r.left : [by |-> r.id, payment |-> p] \in sentBefore
    /\ r.phase = "sent" => r.left = {}

Sound(r, d, sentBefore) ==
    Whole(r.copy.payments) /\ Precedes(r.copy, d) /\ InOrder(r, sentBefore)

\* The entry committed last names the status of the row, and is the top one
\* unless its request began before the top one's.
LogInv ==
    /\ deal.state \in {"APPROVED", audited.last.new}
    /\ audited.last = audited.top \/ audited.last.by < audited.top.by

IInv == /\ TypeOK
        /\ BatchesWhole
        /\ LogInv
        /\ DecidedHasSolution
        /\ \A s \in Slots : req[s] # Idle => Sound(req[s], deal, bookings)

-----------------------------------------------------------------------------
(***************************************************************************)
(* Payments: the column-wise and row-wise merge keeps batches whole.       *)
(***************************************************************************)
\* Two payments of one batch each belong to the other's batch.
LEMMA SameBatch ==
    ASSUME NEW p \in Payments, NEW q \in LegsOf(p.terms, p.date, p.batch)
    PROVE  /\ q \in Payments
           /\ p \in LegsOf(q.terms, q.date, q.batch)
BY DEF Payments, LegsOf

\* A whole set has both payments of a batch or neither.
LEMMA BothOrNeither ==
    ASSUME NEW P \in SUBSET Payments, Whole(P),
           NEW p \in Payments, NEW q \in LegsOf(p.terms, p.date, p.batch)
    PROVE  p \in P <=> q \in P
BY SameBatch DEF Whole

\* Deleting the rows a request has dropped and inserting its new ones leaves
\* whole batches, if those loaded, computed and stored are whole.
LEMMA RowsWhole ==
    ASSUME NEW P \in SUBSET Payments, NEW Q \in SUBSET Payments,
           NEW R \in SUBSET Payments, Whole(P), Whole(Q), Whole(R)
    PROVE  Rows(P, Q, R) \in SUBSET Payments /\ Whole(Rows(P, Q, R))
<1>1. Rows(P, Q, R) \in SUBSET Payments
  BY DEF Rows
<1>2. ASSUME NEW p \in Rows(P, Q, R), NEW q \in LegsOf(p.terms, p.date, p.batch)
      PROVE  q \in Rows(P, Q, R)
  <2>1. p \in Payments
    BY <1>1
  <2>2. (p \in P <=> q \in P) /\ (p \in Q <=> q \in Q) /\ (p \in R <=> q \in R)
    BY <1>2, <2>1, BothOrNeither
  <2>3. QED
    BY <2>2 DEF Rows
<1>3. QED
  BY <1>1, <1>2 DEF Whole

\* The payments of one validation are a whole batch.
LEMMA LegsWhole ==
    ASSUME NEW t \in Terms, NEW v \in Dates, NEW b \in Nat
    PROVE  Whole(LegsOf(t, v, b))
BY DEF Whole, LegsOf

-----------------------------------------------------------------------------
(***************************************************************************)
(* What a request makes of its copy, and of the stored deal.               *)
(***************************************************************************)
\* A handler never takes the solution or the positioner away, decides only
\* with both, and executes only after its send.
LEMMA OutcomeFacts ==
    ASSUME NEW r \in Requests, NEW n \in Outcomes(r),
           Whole(r.copy.payments), InOrder(r, bookings)
    PROVE  /\ n \in Deals
           /\ Whole(n.payments)
           /\ n.solution = r.copy.solution \/ n.solution # NoSolution
           /\ n.positioner = r.copy.positioner \/ n.positioner # NoUser
           /\ n.state \in {"REJECTED", "APPROVED", "EXECUTED"} =>
                 \/ n.state = r.copy.state
                 \/ n.solution # NoSolution /\ n.positioner # NoUser
           /\ n.state = "EXECUTED" => n.state = r.copy.state \/ r.phase = "sent"
<1> DEFINE d == r.copy
<1>1. /\ d \in Deals /\ r.user \in Users /\ r.id \in Nat /\ r.op \in Ops
      /\ r.user # NoUser
  BY RulesAssumption, RequestsAssumption DEF Requests
<1>2. ASSUME n = Invalid(d)
      PROVE  /\ n \in Deals /\ n.payments = d.payments /\ n.state = d.state
             /\ n.solution = d.solution /\ n.positioner = d.positioner
  BY <1>1, <1>2, InvalidFacts
<1>3. ASSUME NEW s \in DealStates, n = InState(d, s)
      PROVE  /\ n \in Deals /\ n.payments = d.payments /\ n.state = s
             /\ n.solution = d.solution /\ n.positioner = d.positioner
  BY <1>1, <1>3, InStateFacts
<1>4. ASSUME NEW s \in DealStates, NEW c \in ApprovalDecisions,
             n = Decided(d, r.user, s, c)
      PROVE  /\ n \in Deals /\ n.payments = d.payments /\ n.state = s
             /\ n.solution # NoSolution /\ n.positioner # NoUser
  <2>1. /\ n \in Deals /\ n.payments = d.payments /\ n.state = s
        /\ n.solution = [decision |-> c, by |-> r.user]
        /\ n.positioner = r.user
    BY <1>1, <1>4, DecidedFacts
  <2>2. QED
    BY <1>1, <2>1 DEF NoSolution
<1>5. CASE r.op = "update"
  <2>1. PICK t \in Terms, v \in OptDates : n = Updated(d, t, v)
    BY <1>5 DEF Outcomes
  <2>2. /\ n \in Deals /\ n.payments = {} /\ n.state = d.state
        /\ n.solution = d.solution /\ n.positioner = d.positioner
    BY <1>1, <2>1, UpdatedFacts
  <2>3. QED
    BY <2>2 DEF Whole
<1>6. CASE r.op = "validate"
  <2>1. ASSUME NEW v \in ValueDates(d), n = Priced(d, v, r.id)
        PROVE  /\ n \in Deals /\ n.state = d.state
               /\ n.solution = d.solution /\ n.positioner = d.positioner
               /\ n.payments = LegsOf(n.terms, n.date, r.id)
    BY <1>1, <2>1, PricedFacts
  <2>2. ASSUME NEW v \in ValueDates(d), n = Priced(d, v, r.id)
        PROVE  Whole(n.payments)
    <3>1. n.payments = LegsOf(d.terms, v, r.id)
      BY <1>1, <2>2 DEF Priced, Deals
    <3>2. d.terms \in Terms /\ v \in Dates
      BY <1>1, ValueDatesType DEF Deals
    <3>3. QED
      BY <1>1, <3>1, <3>2, LegsWhole
  <2>3. n = Invalid(d) \/ \E v \in ValueDates(d) : n = Priced(d, v, r.id)
    BY <1>6 DEF Outcomes
  <2>4. QED
    BY <1>2, <2>1, <2>2, <2>3
<1>7. CASE r.op = "submit"
  <2>1. n = Invalid(d) \/ n = InState(d, "WAITING_FOR_POSITIONER")
    BY <1>7 DEF Outcomes
  <2>2. "WAITING_FOR_POSITIONER" \in DealStates
    BY DEF DealStates
  <2>3. QED
    BY <1>2, <1>3, <2>1, <2>2
<1>8. CASE r.op = "approve"
  <2>1. n = Decided(d, r.user, IF r.phase = "sent" THEN "EXECUTED" ELSE "APPROVED",
                    "APPROVE")
    BY <1>8 DEF Outcomes
  <2>2. /\ {"EXECUTED", "APPROVED"} \subseteq DealStates
        /\ "APPROVE" \in ApprovalDecisions
    BY DEF DealStates, ApprovalDecisions
  <2>3. CASE r.phase = "sent"
    BY <1>4, <2>1, <2>2, <2>3
  <2>4. CASE r.phase # "sent"
    BY <1>4, <2>1, <2>2, <2>4
  <2>5. QED
    BY <2>3, <2>4
<1>9. CASE r.op = "decide"
  <2>1. PICK c \in {"RETURN_FOR_EDIT", "REJECT"} : n = Decided(d, r.user, "REJECTED", c)
    BY <1>9 DEF Outcomes
  <2>2. "REJECTED" \in DealStates /\ c \in ApprovalDecisions
    BY DEF DealStates, ApprovalDecisions
  <2>3. QED
    BY <1>4, <2>1, <2>2
<1>10. CASE r.op \in {"takeForEdit", "cancel"}
  <2>1. n = InState(d, "DRAFT") \/ n = InState(d, "CANCELLED")
    BY <1>10 DEF Outcomes
  <2>2. {"DRAFT", "CANCELLED"} \subseteq DealStates
    BY DEF DealStates
  <2>3. QED
    BY <1>3, <2>1, <2>2
<1>11. QED
  BY <1>1, <1>5, <1>6, <1>7, <1>8, <1>9, <1>10 DEF Ops

\* The stored solution row after the columns a request changed are written.
LEMMA SolutionMerged ==
    ASSUME NEW copy \in Solutions, NEW new \in Solutions, NEW stored \in Solutions,
           copy # NoSolution => stored # NoSolution,
           new = copy \/ new # NoSolution
    PROVE  LET m == SolutionRow(copy, new, stored) IN
           /\ m \in Solutions
           /\ new # NoSolution \/ stored # NoSolution => m # NoSolution
<1>1. CASE copy = NoSolution
  BY <1>1 DEF SolutionRow, Column
<1>2. CASE copy # NoSolution
  <2>1. /\ stored \in [decision: ApprovalDecisions, by: Users]
        /\ new \in [decision: ApprovalDecisions, by: Users]
    BY <1>2 DEF Solutions
  <2>2. SolutionRow(copy, new, stored) \in [decision: ApprovalDecisions, by: Users]
    BY <1>2, <2>1 DEF SolutionRow, Column
  <2>3. NoSolution \notin [decision: ApprovalDecisions, by: Users]
    BY DEF NoSolution, NoDecision, ApprovalDecisions
  <2>4. QED
    BY <2>2, <2>3 DEF Solutions
<1>3. QED
  BY <1>1, <1>2

\* What is stored after a commit: whole batches, and a solution and a
\* positioner that were there or were written are there.
LEMMA MergedFacts ==
    ASSUME NEW copy \in Deals, NEW new \in Deals, NEW stored \in Deals,
           Whole(copy.payments), Whole(new.payments), Whole(stored.payments),
           Precedes(copy, stored),
           new.solution = copy.solution \/ new.solution # NoSolution,
           new.positioner = copy.positioner \/ new.positioner # NoUser
    PROVE  LET m == Merged(copy, new, stored) IN
           /\ m \in Deals
           /\ Whole(m.payments)
           /\ m.state = Column(copy.state, new.state, stored.state)
           /\ new.solution # NoSolution \/ stored.solution # NoSolution
                 => m.solution # NoSolution
           /\ new.positioner # NoUser \/ stored.positioner # NoUser
                 => m.positioner # NoUser
<1> DEFINE m == Merged(copy, new, stored)
<1>1. /\ m.state = Column(copy.state, new.state, stored.state)
      /\ m.valid = Column(copy.valid, new.valid, stored.valid)
      /\ m.terms = Column(copy.terms, new.terms, stored.terms)
      /\ m.date = Column(copy.date, new.date, stored.date)
      /\ m.trader = stored.trader
      /\ m.positioner = Column(copy.positioner, new.positioner, stored.positioner)
      /\ m.payments = Rows(copy.payments, new.payments, stored.payments)
      /\ m.solution = SolutionRow(copy.solution, new.solution, stored.solution)
  BY DEF Merged
<1>2. m.payments \in SUBSET Payments /\ Whole(m.payments)
  BY <1>1, RowsWhole DEF Deals
<1>3. /\ m.solution \in Solutions
      /\ new.solution # NoSolution \/ stored.solution # NoSolution
            => m.solution # NoSolution
  BY <1>1, SolutionMerged DEF Deals, Precedes
<1>4. new.positioner # NoUser \/ stored.positioner # NoUser => m.positioner # NoUser
  BY <1>1 DEF Column, Precedes
<1>5. /\ m.state \in DealStates /\ m.valid \in ValidationStatuses
      /\ m.terms \in Terms /\ m.date \in OptDates /\ m.trader \in Users
      /\ m.positioner \in OptUsers
  BY <1>1 DEF Column, Deals
<1>6. m \in Deals
  BY <1>2, <1>3, <1>5 DEF Merged, Deals
<1>7. QED
  BY <1>1, <1>2, <1>3, <1>4, <1>6

-----------------------------------------------------------------------------
(***************************************************************************)
(* The steps.  Each changes one slot; only a commit changes the deal.      *)
(***************************************************************************)
LEMMA InitIInv == Init => IInv
<1> SUFFICES ASSUME Init PROVE IInv
  OBVIOUS
<1>1. PICK u \in Users, t \in Terms, v \in OptDates : deal = NewDeal(u, t, v)
  BY DEF Init
<1>2. deal \in Deals /\ deal.state = "DRAFT" /\ deal.payments = {}
  BY <1>1, NewDealFacts
<1>3. TypeOK
  BY <1>2, RequestsAssumption DEF TypeOK, Init, DealStates, Created, Entries
<1>4. BatchesWhole /\ LogInv /\ DecidedHasSolution
  BY <1>2 DEF BatchesWhole, LogInv, DecidedHasSolution, Init, Created
<1>5. QED
  BY <1>3, <1>4 DEF IInv, Init

\* A request that moves on leaves the others sound, as long as the deal keeps
\* what they have seen and the bookings grow.
LEMMA OthersSound ==
    ASSUME IInv, NEW s \in Slots, NEW r, req' = [req EXCEPT ![s] = r],
           r = Idle \/ (r \in Requests /\ Sound(r, deal', bookings')),
           Precedes(deal, deal'), bookings \subseteq bookings'
    PROVE  /\ req' \in [Slots -> Requests \cup {Idle}]
           /\ \A t \in Slots : req'[t] # Idle => Sound(req'[t], deal', bookings')
<1>1. ASSUME NEW t \in Slots, t # s
      PROVE  req'[t] = req[t]
  BY <1>1
<1>2. req'[s] = r
  BY DEF IInv, TypeOK
<1>3. ASSUME NEW t \in Slots, t # s, req[t] # Idle
      PROVE  Sound(req[t], deal', bookings')
  <2>1. Sound(req[t], deal, bookings)
    BY <1>3 DEF IInv
  <2>2. QED
    BY <2>1 DEF Sound, Precedes, InOrder
<1>4. QED
  BY <1>1, <1>2, <1>3 DEF IInv, TypeOK

\* The request of a slot is well formed and sound unless the slot is idle.
LEMMA AtWork ==
    ASSUME IInv, NEW s \in Slots, req[s] # Idle
    PROVE  req[s] \in Requests /\ Sound(req[s], deal, bookings)
BY DEF IInv, TypeOK

\* Steps that leave the committed rows alone need to see to their own request.
LEMMA RowsUntouched ==
    ASSUME IInv, NEW s \in Slots, NEW r, req' = [req EXCEPT ![s] = r],
           r = Idle \/ (r \in Requests /\ Sound(r, deal, bookings')),
           UNCHANGED <<deal, audited>>,
           bookings \subseteq bookings',
           bookings' \in SUBSET [by: 1..MaxRequests, payment: Payments],
           served' \in 0..MaxRequests
    PROVE  IInv'
<1>1. Precedes(deal, deal') /\ deal' = deal
  BY DEF Precedes
<1>2. /\ req' \in [Slots -> Requests \cup {Idle}]
      /\ \A t \in Slots : req'[t] # Idle => Sound(req'[t], deal', bookings')
  BY <1>1, OthersSound
<1>3. TypeOK'
  BY <1>2 DEF IInv, TypeOK
<1>4. (BatchesWhole /\ LogInv /\ DecidedHasSolution)'
  BY DEF IInv, BatchesWhole, LogInv, DecidedHasSolution
<1>5. QED
  BY <1>2, <1>3, <1>4 DEF IInv

\* A fresh copy of the row has seen no payments yet.
LEMMA LoadRowStep ==
    ASSUME IInv, NEW s \in Slots, LoadRow(s)
    PROVE  IInv'
<1>1. PICK op \in Ops, u \in Users :
          req' = [req EXCEPT ![s] =
             [phase |-> IF op \in NeedsRelated THEN "row" ELSE "ready",
              op |-> op, user |-> u, id |-> served',
              copy |-> [deal EXCEPT !.payments = {}, !.solution = NoSolution],
              left |-> {}]]
  BY DEF LoadRow
<1> DEFINE r == [phase |-> IF op \in NeedsRelated THEN "row" ELSE "ready",
                 op |-> op, user |-> u, id |-> served',
                 copy |-> [deal EXCEPT !.payments = {}, !.solution = NoSolution],
                 left |-> {}]
<1>2. served' \in 1..MaxRequests /\ UNCHANGED <<deal, audited, bookings>>
  BY RequestsAssumption DEF LoadRow, IInv, TypeOK
<1>3. /\ r.copy \in Deals /\ r.copy.payments = {} /\ r.copy.solution = NoSolution
      /\ r.copy.positioner = deal.positioner
  BY DEF IInv, TypeOK, Deals, Solutions
<1>4. r \in Requests
  BY <1>2, <1>3 DEF Requests, Phases
<1>5. Sound(r, deal, bookings')
  BY <1>3 DEF Sound, Whole, Precedes, InOrder, NeedsRelated
<1>6. bookings' \in SUBSET [by: 1..MaxRequests, payment: Payments]
  BY <1>2 DEF IInv, TypeOK
<1>7. req' = [req EXCEPT ![s] = r] /\ served' \in 0..MaxRequests
  BY <1>1, <1>2
<1> HIDE DEF r
<1>8. QED
  BY <1>2, <1>4, <1>5, <1>6, <1>7, RowsUntouched

\* A request with another copy, phase and rest to send, field by field.
LEMMA Reloaded ==
    ASSUME NEW r \in Requests, NEW ph, NEW c, NEW L,
           NEW e, e = [r EXCEPT !.copy = c, !.phase = ph, !.left = L]
    PROVE  e = [phase |-> ph, op |-> r.op, user |-> r.user, id |-> r.id,
                copy |-> c, left |-> L]
BY DEF Requests

\* The payments are whole when they are loaded.
LEMMA LoadPaymentsStep ==
    ASSUME IInv, NEW s \in Slots, LoadPayments(s)
    PROVE  IInv'
<1> DEFINE c == [req[s].copy EXCEPT !.payments = deal.payments]
           r == [phase |-> "payments", op |-> req[s].op, user |-> req[s].user,
                 id |-> req[s].id, copy |-> c, left |-> req[s].left]
<1>1. req[s] \in Requests /\ Sound(req[s], deal, bookings)
  BY AtWork DEF LoadPayments, Idle
<1>2. /\ c \in Deals /\ c.payments = deal.payments
      /\ c.solution = req[s].copy.solution
      /\ c.positioner = req[s].copy.positioner
  BY <1>1 DEF Requests, IInv, TypeOK, Deals
<1>3. [req[s] EXCEPT !.copy.payments = deal.payments, !.phase = "payments"] = r
  <2> DEFINE e == [req[s] EXCEPT !.copy.payments = deal.payments, !.phase = "payments"]
  <2>1. e = [req[s] EXCEPT !.copy = c, !.phase = "payments", !.left = req[s].left]
    BY <1>1 DEF Requests
  <2> HIDE DEF e, c
  <2>2. e = r
    BY <1>1, <2>1, Reloaded
  <2>3. QED
    BY <2>2 DEF e
<1>4. /\ req' = [req EXCEPT ![s] = r]
      /\ UNCHANGED <<deal, audited, bookings, served>>
  BY <1>3 DEF LoadPayments
<1> HIDE DEF c
<1>5. r \in Requests
  BY <1>1, <1>2 DEF Requests, Phases
<1>6. Whole(r.copy.payments)
  BY <1>2 DEF IInv, BatchesWhole, Whole
<1>7. Precedes(r.copy, deal)
  BY <1>1, <1>2 DEF Sound, Precedes
<1>8. InOrder(r, bookings)
  BY DEF InOrder
<1> HIDE DEF r
<1>9. QED
  BY <1>4, <1>5, <1>6, <1>7, <1>8, RowsUntouched DEF Sound, IInv, TypeOK

\* An approval has all the payments of its copy to send.
LEMMA LoadSolutionStep ==
    ASSUME IInv, NEW s \in Slots, LoadSolution(s)
    PROVE  IInv'
<1> DEFINE c == [req[s].copy EXCEPT !.solution = deal.solution]
           ph == IF req[s].op = "approve" THEN "sending" ELSE "ready"
           L == IF req[s].op = "approve" THEN req[s].copy.payments ELSE {}
           r == [phase |-> ph, op |-> req[s].op, user |-> req[s].user,
                 id |-> req[s].id, copy |-> c, left |-> L]
<1>1. req[s] \in Requests /\ Sound(req[s], deal, bookings)
  BY AtWork DEF LoadSolution, Idle
<1>2. /\ c \in Deals /\ c.payments = req[s].copy.payments
      /\ c.solution = deal.solution
      /\ c.positioner = req[s].copy.positioner
      /\ req[s].copy.payments \in SUBSET Payments
  BY <1>1 DEF Requests, IInv, TypeOK, Deals
<1>3. [req[s] EXCEPT !.copy.solution = deal.solution, !.phase = ph, !.left = L] = r
  <2> DEFINE e == [req[s] EXCEPT !.copy.solution = deal.solution, !.phase = ph, !.left = L]
  <2>1. e = [req[s] EXCEPT !.copy = c, !.phase = ph, !.left = L]
    BY <1>1 DEF Requests
  <2> HIDE DEF e, c, ph, L
  <2>2. e = r
    BY <1>1, <2>1, Reloaded
  <2>3. QED
    BY <2>2 DEF e
<1>4. /\ req' = [req EXCEPT ![s] = r]
      /\ UNCHANGED <<deal, audited, bookings, served>>
  BY <1>3 DEF LoadSolution
<1> HIDE DEF c
<1>5. r \in Requests
  BY <1>1, <1>2 DEF Requests, Phases
<1>6. Whole(r.copy.payments)
  BY <1>1, <1>2 DEF Sound
<1>7. Precedes(r.copy, deal)
  BY <1>1, <1>2 DEF Sound, Precedes
<1>8. InOrder(r, bookings)
  BY <1>2 DEF InOrder
<1> HIDE DEF r
<1>9. QED
  BY <1>4, <1>5, <1>6, <1>7, <1>8, RowsUntouched DEF Sound, IInv, TypeOK

\* A step of a send changes the phase and what is left, no more.
LEMMA SendingStep ==
    ASSUME IInv, NEW s \in Slots, req[s].phase = "sending",
           NEW ph \in {"sending", "sent", "failed"}, NEW L \in SUBSET Payments,
           req' = [req EXCEPT ![s] = [@ EXCEPT !.phase = ph, !.left = L]],
           UNCHANGED <<deal, audited, served>>,
           bookings \subseteq bookings',
           bookings' \in SUBSET [by: 1..MaxRequests, payment: Payments],
           ph \in {"sending", "sent"} =>
              \A p \in req[s].copy.payments \ L :
                 [by |-> req[s].id, payment |-> p] \in bookings',
           ph = "sent" => L = {}
    PROVE  IInv'
<1> DEFINE r == [req[s] EXCEPT !.phase = ph, !.left = L]
<1>1. req[s] \in Requests /\ Sound(req[s], deal, bookings)
  BY AtWork DEF Idle
<1>2. /\ r \in Requests /\ r.phase = ph /\ r.left = L /\ r.op = req[s].op
      /\ r.id = req[s].id /\ r.copy = req[s].copy
  BY <1>1 DEF Requests, Phases
<1>3. Sound(r, deal, bookings')
  <2>1. Whole(r.copy.payments) /\ Precedes(r.copy, deal)
    BY <1>1, <1>2 DEF Sound
  <2>2. InOrder(r, bookings')
    BY <1>1, <1>2 DEF Sound, InOrder
  <2>3. QED
    BY <2>1, <2>2 DEF Sound
<1>4. req' = [req EXCEPT ![s] = r]
  BY DEF IInv, TypeOK
<1>5. served' \in 0..MaxRequests
  BY DEF IInv, TypeOK
<1> HIDE DEF r
<1>6. QED
  BY <1>2, <1>3, <1>4, <1>5, RowsUntouched

\* A payment accepted for a request is a booking of the right type.
LEMMA BookedFacts ==
    ASSUME IInv, NEW s \in Slots, req[s].phase = "sending", NEW p \in req[s].left,
           Booked(s, p)
    PROVE  /\ bookings \subseteq bookings'
           /\ bookings' \in SUBSET [by: 1..MaxRequests, payment: Payments]
           /\ [by |-> req[s].id, payment |-> p] \in bookings'
<1>1. req[s].id \in 1..MaxRequests /\ p \in Payments
  BY AtWork DEF Idle, Requests
<1>2. QED
  BY <1>1 DEF Booked, IInv, TypeOK

\* What leaves the list of payments to send has been booked.
LEMMA SendPaymentStep ==
    ASSUME IInv, NEW s \in Slots, SendPayment(s)
    PROVE  IInv'
<1>1. PICK p \in req[s].left :
          Booked(s, p) /\ req' = [req EXCEPT ![s].left = @ \ {p}]
  BY DEF SendPayment
<1>2. req[s] \in Requests /\ Sound(req[s], deal, bookings) /\ req[s].phase = "sending"
  BY AtWork DEF SendPayment, Idle
<1>3. [req[s] EXCEPT !.left = @ \ {p}]
         = [req[s] EXCEPT !.phase = "sending", !.left = req[s].left \ {p}]
  BY <1>2 DEF Requests
<1>4. req' = [req EXCEPT ![s] =
                 [@ EXCEPT !.phase = "sending", !.left = req[s].left \ {p}]]
  BY <1>1, <1>3
<1>5. /\ bookings \subseteq bookings'
      /\ bookings' \in SUBSET [by: 1..MaxRequests, payment: Payments]
      /\ [by |-> req[s].id, payment |-> p] \in bookings'
  BY <1>1, <1>2, BookedFacts
<1>6. \A q \in req[s].copy.payments \ (req[s].left \ {p}) :
         [by |-> req[s].id, payment |-> q] \in bookings'
  BY <1>2, <1>5 DEF Sound, InOrder
<1>7. req[s].left \ {p} \in SUBSET Payments
  BY <1>2 DEF Requests
<1>8. UNCHANGED <<deal, audited, served>>
  BY DEF SendPayment
<1>9. QED
  BY <1>2, <1>4, <1>5, <1>6, <1>7, <1>8, SendingStep

\* With nothing left, everything has been booked.
LEMMA SendDoneStep ==
    ASSUME IInv, NEW s \in Slots, SendDone(s)
    PROVE  IInv'
<1>1. req[s] \in Requests /\ Sound(req[s], deal, bookings) /\ req[s].phase = "sending"
  BY AtWork DEF SendDone, Idle
<1>2. [req[s] EXCEPT !.phase = "sent"] = [req[s] EXCEPT !.phase = "sent", !.left = {}]
  BY <1>1 DEF Requests, SendDone
<1>3. req' = [req EXCEPT ![s] = [@ EXCEPT !.phase = "sent", !.left = {}]]
  BY <1>2 DEF SendDone
<1>4. \A p \in req[s].copy.payments \ {} :
         [by |-> req[s].id, payment |-> p] \in bookings'
  BY <1>1 DEF Sound, InOrder, SendDone
<1>5. /\ UNCHANGED <<deal, audited, served>> /\ bookings \subseteq bookings'
      /\ bookings' \in SUBSET [by: 1..MaxRequests, payment: Payments]
  BY DEF SendDone, IInv, TypeOK
<1>6. {} \in SUBSET Payments
  OBVIOUS
<1>7. QED
  BY <1>1, <1>3, <1>4, <1>5, <1>6, SendingStep

\* A failed send promises nothing.
LEMMA SendFailsStep ==
    ASSUME IInv, NEW s \in Slots, SendFails(s)
    PROVE  IInv'
<1>1. req[s].phase = "sending"
  BY DEF SendFails
<1>2. req' = [req EXCEPT ![s] = [@ EXCEPT !.phase = "failed", !.left = {}]]
  BY DEF SendFails
<1>3. /\ bookings \subseteq bookings'
      /\ bookings' \in SUBSET [by: 1..MaxRequests, payment: Payments]
  <2>1. CASE UNCHANGED bookings
    BY <2>1 DEF IInv, TypeOK
  <2>2. CASE \E p \in req[s].left : Booked(s, p)
    BY <1>1, <2>2, BookedFacts
  <2>3. QED
    BY <2>1, <2>2 DEF SendFails
<1>4. UNCHANGED <<deal, audited, served>>
  BY DEF SendFails
<1>5. {} \in SUBSET Payments
  OBVIOUS
<1>6. QED
  BY <1>1, <1>2, <1>3, <1>4, <1>5, SendingStep

\* A request that is lost takes its copy with it.
LEMMA AbortStep ==
    ASSUME IInv, NEW s \in Slots, Abort(s)
    PROVE  IInv'
<1>1. req' = [req EXCEPT ![s] = Idle] /\ UNCHANGED <<deal, audited, bookings, served>>
  BY DEF Abort, Finish
<1>2. QED
  BY <1>1, RowsUntouched DEF IInv, TypeOK

\* A commit from a stale copy stores whole batches, logs the status it writes,
\* and leaves the solution and the positioner of every decision there.
LEMMA CommitStep ==
    ASSUME IInv, NEW s \in Slots, Commit(s)
    PROVE  IInv'
<1> DEFINE copy == req[s].copy
<1>1. PICK new \in Outcomes(req[s]) :
          deal' = Merged(copy, new, deal) /\ audited' = Logged(req[s], new, audited)
  BY DEF Commit
<1>2. /\ req' = [req EXCEPT ![s] = Idle] /\ UNCHANGED <<bookings, served>>
      /\ req[s] # Idle
  BY DEF Commit, Finish
<1>3. req[s] \in Requests /\ Sound(req[s], deal, bookings)
  BY <1>2, AtWork
<1>4. /\ copy \in Deals /\ deal \in Deals
      /\ Whole(copy.payments) /\ Whole(deal.payments) /\ Precedes(copy, deal)
  BY <1>3 DEF Requests, Sound, IInv, TypeOK, BatchesWhole, Whole
<1>5. /\ new \in Deals
      /\ Whole(new.payments)
      /\ new.solution = copy.solution \/ new.solution # NoSolution
      /\ new.positioner = copy.positioner \/ new.positioner # NoUser
      /\ new.state \in {"REJECTED", "APPROVED", "EXECUTED"} =>
            \/ new.state = copy.state
            \/ new.solution # NoSolution /\ new.positioner # NoUser
  BY <1>3, OutcomeFacts DEF Sound
<1> HIDE DEF copy
<1>6. /\ deal' \in Deals
      /\ Whole(deal'.payments)
      /\ deal'.state = Column(copy.state, new.state, deal.state)
      /\ new.solution # NoSolution \/ deal.solution # NoSolution
            => deal'.solution # NoSolution
      /\ new.positioner # NoUser \/ deal.positioner # NoUser
            => deal'.positioner # NoUser
  BY <1>1, <1>4, <1>5, MergedFacts
<1>7. Precedes(deal, deal')
  BY <1>6 DEF Precedes
<1>8. /\ req' \in [Slots -> Requests \cup {Idle}]
      /\ \A t \in Slots : req'[t] # Idle => Sound(req'[t], deal', bookings')
  BY <1>2, <1>7, OthersSound
<1> DEFINE entry == [by |-> req[s].id, old |-> copy.state, new |-> new.state]
<1>9. /\ audited' = IF new.state \in {copy.state, "APPROVED"} THEN audited
                    ELSE [top |-> IF audited.top.by > entry.by THEN audited.top
                                  ELSE entry,
                          last |-> entry]
      /\ entry \in Entries /\ entry.new = new.state
  <2>1. copy.state \in DealStates /\ new.state \in DealStates
    BY <1>4, <1>5 DEF Deals
  <2>2. req[s].id \in 1..MaxRequests
    BY <1>3 DEF Requests
  <2>3. QED
    BY <1>1, <2>1, <2>2, RequestsAssumption DEF copy, Logged, Appended, Entries
<1> HIDE DEF entry
<1>10. TypeOK'
  <2>1. audited' \in [top: Entries, last: Entries]
    BY <1>9 DEF IInv, TypeOK
  <2>2. QED
    BY <1>2, <1>6, <1>8, <2>1 DEF IInv, TypeOK
<1>11. BatchesWhole'
  BY <1>6 DEF BatchesWhole, Whole
<1>12. LogInv'
  <2>1. CASE new.state = copy.state
    BY <1>6, <1>9, <2>1 DEF Column, IInv, LogInv
  <2>2. CASE new.state # copy.state
    <3>1. deal'.state = new.state
      BY <1>6, <2>2 DEF Column
    <3>2. CASE new.state = "APPROVED"
      BY <1>9, <3>1, <3>2 DEF IInv, LogInv
    <3>3. CASE new.state # "APPROVED"
      <4>1. /\ audited'.last = entry
            /\ audited'.top = IF audited.top.by > entry.by THEN audited.top ELSE entry
        BY <1>9, <2>2, <3>3
      <4>2. entry.by \in Nat /\ audited.top.by \in Nat
        BY <1>9, RequestsAssumption DEF Entries, IInv, TypeOK
      <4>3. QED
        BY <1>9, <3>1, <4>1, <4>2 DEF LogInv
    <3>4. QED
      BY <3>2, <3>3
  <2>3. QED
    BY <2>1, <2>2
<1>13. DecidedHasSolution'
  <2>1. CASE new.state = copy.state
    BY <1>6, <2>1 DEF Column, IInv, DecidedHasSolution
  <2>2. CASE new.state # copy.state
    BY <1>5, <1>6, <2>2 DEF Column, DecidedHasSolution
  <2>3. QED
    BY <2>1, <2>2
<1>14. QED
  BY <1>8, <1>10, <1>11, <1>12, <1>13 DEF IInv

LEMMA NextIInv == IInv /\ [Next]_vars => IInv'
<1> SUFFICES ASSUME IInv, [Next]_vars PROVE IInv'
  OBVIOUS
<1>1. CASE UNCHANGED vars
  BY <1>1 DEF vars, IInv, TypeOK, BatchesWhole, LogInv, DecidedHasSolution
<1>2. ASSUME NEW s \in Slots, LoadRow(s) PROVE IInv'
  BY <1>2, LoadRowStep
<1>3. ASSUME NEW s \in Slots, LoadPayments(s) \/ LoadSolution(s) PROVE IInv'
  BY <1>3, LoadPaymentsStep, LoadSolutionStep
<1>4. ASSUME NEW s \in Slots, SendPayment(s) PROVE IInv'
  BY <1>4, SendPaymentStep
<1>5. ASSUME NEW s \in Slots, SendDone(s) PROVE IInv'
  BY <1>5, SendDoneStep
<1>6. ASSUME NEW s \in Slots, SendFails(s) PROVE IInv'
  BY <1>6, SendFailsStep
<1>7. ASSUME NEW s \in Slots, Commit(s) PROVE IInv'
  BY <1>7, CommitStep
<1>8. ASSUME NEW s \in Slots, Abort(s) PROVE IInv'
  BY <1>8, AbortStep
<1>9. QED
  BY <1>1, <1>2, <1>3, <1>4, <1>5, <1>6, <1>7, <1>8 DEF Next

-----------------------------------------------------------------------------
(***************************************************************************)
(* The theorems.                                                           *)
(***************************************************************************)
\* The inductive invariant holds in every reachable state.
THEOREM Invariance == Spec => []IInv
<1>1. QED
  BY InitIInv, NextIInv, PTL DEF Spec

\* Rows, audit entry, bookings and requests keep their types.
THEOREM TypeCorrect == Spec => []TypeOK
<1>1. IInv => TypeOK
  BY DEF IInv
<1>2. QED
  BY <1>1, Invariance, PTL

\* However many validations and edits overlap, each on its own copy of the
\* deal, no stored payment loses the other payment of its exchange.
THEOREM WholeBatches == Spec => []BatchesWhole
<1>1. IInv => BatchesWhole
  BY DEF IInv
<1>2. QED
  BY <1>1, Invariance, PTL

\* However stale the copies that requests write from: the top entry of the log
\* names the status of the row (APPROVED is never logged), or another entry
\* does, committed last by a request that began before the top one's.
THEOREM StatusOnRecord == Spec => []StatusRecorded
<1>1. IInv => StatusRecorded
  BY DEF IInv, LogInv, StatusRecorded
<1>2. QED
  BY <1>1, Invariance, PTL

\* No overlap of decisions, edits and moves leaves a decided deal without the
\* row that says who decided.
THEOREM DecisionKept == Spec => []DecidedHasSolution
<1>1. IInv => DecidedHasSolution
  BY DEF IInv
<1>2. QED
  BY <1>1, Invariance, PTL

\* The request that makes a deal EXECUTED is an approval that has had all the
\* payments of its copy accepted.
THEOREM Confirmed == Spec => ExecutionConfirmed
<1> DEFINE Step ==
       \A s \in Slots :
          /\ deal.state # "EXECUTED" /\ deal'.state = "EXECUTED"
          /\ req'[s] # req[s]
          => \A p \in req[s].copy.payments :
                [by |-> req[s].id, payment |-> p] \in bookings
<1>1. IInv /\ [Next]_vars => [Step]_vars
  <2> SUFFICES ASSUME IInv, Next, NEW s \in Slots,
                      deal.state # "EXECUTED", deal'.state = "EXECUTED",
                      req'[s] # req[s], NEW p \in req[s].copy.payments
               PROVE  [by |-> req[s].id, payment |-> p] \in bookings
    BY DEF vars
  <2>1. PICK t \in Slots : Commit(t)
    BY DEF Next, LoadRow, LoadPayments, LoadSolution, SendPayment, SendDone, SendFails,
       Abort
  <2>2. t = s
    BY <2>1 DEF Commit, Finish, IInv, TypeOK
  <2>3. PICK new \in Outcomes(req[s]) : deal' = Merged(req[s].copy, new, deal)
    BY <2>1, <2>2 DEF Commit
  <2>4. new.state = "EXECUTED" /\ new.state # req[s].copy.state
    <3>1. deal'.state = Column(req[s].copy.state, new.state, deal.state)
      BY <2>3 DEF Merged
    <3>2. QED
      BY <3>1 DEF Column
  <2>5. req[s] \in Requests /\ Sound(req[s], deal, bookings)
    BY <2>1, <2>2, AtWork DEF Commit
  <2>6. req[s].phase = "sent"
    BY <2>3, <2>4, <2>5, OutcomeFacts DEF Sound
  <2>7. QED
    BY <2>5, <2>6 DEF Sound, InOrder
<1>2. QED
  BY <1>1, Invariance, PTL DEF Spec, ExecutionConfirmed

-----------------------------------------------------------------------------
(***************************************************************************)
(* One request at a time.  Then the copy a request works on is the deal as *)
(* it is, and what its commit merges into the rows is what the handler,    *)
(* run on the rows themselves, would have made of them.                    *)
(***************************************************************************)
OneSlot == \A s, t \in Slots : s = t

\* The deal as its row alone shows it.
RowOf(d) == [d EXCEPT !.payments = {}, !.solution = NoSolution]

\* What a request knows, if nobody else writes.
Current(r, d) ==
    /\ Allowed(r.op, r.user, d)
    /\ r.copy = IF r.op \notin NeedsRelated \/ r.phase = "row" THEN RowOf(d)
                ELSE IF r.phase = "payments"
                     THEN [RowOf(d) EXCEPT !.payments = d.payments]
                ELSE d
    /\ r.left \subseteq d.payments
    /\ r.phase \in {"row", "payments"} => r.op \in NeedsRelated

Delivered(d, sent) == d.payments \subseteq {b.payment : b \in sent}

SerialInv ==
    /\ \A s \in Slots : req[s] # Idle => Current(req[s], deal)
    /\ deal.state = "EXECUTED" => Delivered(deal, bookings)

\* Merging what a handler made of the deal as it is stores just that.
LEMMA MergedCurrent ==
    ASSUME NEW d \in Deals, NEW n \in Deals, n.trader = d.trader
    PROVE  Merged(d, n, d) = n
<1>1. Rows(d.payments, n.payments, d.payments) = n.payments
  BY DEF Rows
<1>2. SolutionRow(d.solution, n.solution, d.solution) = n.solution
  <2>1. CASE d.solution = NoSolution
    BY <2>1 DEF SolutionRow, Column
  <2>2. CASE d.solution # NoSolution
    <3>1. n.solution = [decision |-> n.solution.decision, by |-> n.solution.by]
      BY DEF Deals, Solutions, NoSolution
    <3>2. SolutionRow(d.solution, n.solution, d.solution)
             = [decision |-> n.solution.decision, by |-> n.solution.by]
      BY <2>2 DEF SolutionRow, Column
    <3>3. QED
      BY <3>1, <3>2
  <2>3. QED
    BY <2>1, <2>2
<1>3. Merged(d, n, d)
         = [state |-> n.state, valid |-> n.valid, terms |-> n.terms, date |-> n.date,
            trader |-> n.trader, positioner |-> n.positioner,
            payments |-> n.payments, solution |-> n.solution]
  BY <1>1, <1>2 DEF Merged, Column
<1>4. n = [state |-> n.state, valid |-> n.valid, terms |-> n.terms, date |-> n.date,
           trader |-> n.trader, positioner |-> n.positioner,
           payments |-> n.payments, solution |-> n.solution]
  BY DEF Deals
<1>5. QED
  BY <1>3, <1>4

\* What a move or a verdict makes of a deal or of its row.
Marked(d, x, y) == [d EXCEPT !.state = x, !.valid = y]

\* A move or a verdict that has loaded the row alone leaves the rest stored.
LEMMA MergedRow ==
    ASSUME NEW d \in Deals, NEW x \in DealStates, NEW y \in ValidationStatuses
    PROVE  Merged(RowOf(d), Marked(RowOf(d), x, y), d) = Marked(d, x, y)
<1> DEFINE c == RowOf(d)
           n == [c EXCEPT !.state = x, !.valid = y]
           e == [d EXCEPT !.state = x, !.valid = y]
<1>1. /\ c.state = d.state /\ c.valid = d.valid /\ c.terms = d.terms
      /\ c.date = d.date /\ c.trader = d.trader /\ c.positioner = d.positioner
      /\ c.payments = {} /\ c.solution = NoSolution
  BY DEF RowOf, Deals
<1>2. /\ n.state = x /\ n.valid = y /\ n.terms = d.terms
      /\ n.date = d.date /\ n.trader = d.trader /\ n.positioner = d.positioner
      /\ n.payments = {} /\ n.solution = NoSolution
  BY DEF RowOf, Deals
<1> HIDE DEF c, n
<1>3. Merged(c, n, d)
         = [state |-> x, valid |-> y, terms |-> d.terms, date |-> d.date,
            trader |-> d.trader, positioner |-> d.positioner,
            payments |-> d.payments, solution |-> d.solution]
  <2>1. Rows(c.payments, n.payments, d.payments) = d.payments
    BY <1>1, <1>2 DEF Rows
  <2>2. SolutionRow(c.solution, n.solution, d.solution) = d.solution
    BY <1>1, <1>2 DEF SolutionRow, Column
  <2>3. QED
    BY <1>1, <1>2, <2>1, <2>2 DEF Merged, Column
<1>4. e = [state |-> x, valid |-> y, terms |-> d.terms, date |-> d.date,
           trader |-> d.trader, positioner |-> d.positioner,
           payments |-> d.payments, solution |-> d.solution]
  <2>1. /\ e \in Deals
        /\ e.state = x /\ e.valid = y /\ e.terms = d.terms /\ e.date = d.date
        /\ e.trader = d.trader /\ e.positioner = d.positioner
        /\ e.payments = d.payments /\ e.solution = d.solution
    BY DEF Deals
  <2>2. e = [state |-> e.state, valid |-> e.valid, terms |-> e.terms,
             date |-> e.date, trader |-> e.trader, positioner |-> e.positioner,
             payments |-> e.payments, solution |-> e.solution]
    <3> HIDE DEF e
    <3>1. QED
      BY <2>1 DEF Deals
  <2> HIDE DEF e
  <2>3. QED
    BY <2>1, <2>2
<1>5. QED
  BY <1>3, <1>4 DEF c, n, Marked

\* The last STATUS_CHANGE, as DealLifecycle has it.
LastChange == [old |-> audited.last.old, new |-> audited.last.new]

\* One handler run on the deal itself, in one step.
HandledBy(u) ==
    \/ /\ CanUpdate(u, deal)
       /\ \E t \in Terms, v \in OptDates : deal' = Updated(deal, t, v)
       /\ UNCHANGED LastChange
    \/ /\ CanValidate(u, deal)
       /\ \/ deal' = Invalid(deal)
          \/ \E v \in ValueDates(deal), b \in Nat : deal' = Priced(deal, v, b)
       /\ UNCHANGED LastChange
    \/ /\ CanSubmit(u, deal)
       /\ deal' = Invalid(deal)
       /\ UNCHANGED LastChange
    \/ /\ CanApprove(u, deal)
       /\ deal' = Decided(deal, u, "APPROVED", "APPROVE")
       /\ UNCHANGED LastChange
    \/ /\ CanApprove(u, deal)
       /\ deal' = Decided(deal, u, "EXECUTED", "APPROVE")
       /\ Delivered(deal, bookings)
       /\ LastChange' = [old |-> deal.state, new |-> "EXECUTED"]
    \/ /\ CanDecide(u, deal)
       /\ \E c \in {"RETURN_FOR_EDIT", "REJECT"} :
             deal' = Decided(deal, u, "REJECTED", c)
       /\ LastChange' = [old |-> deal.state, new |-> "REJECTED"]
    \/ \E x \in {"WAITING_FOR_POSITIONER", "DRAFT", "CANCELLED"} :
          /\ \/ x = "WAITING_FOR_POSITIONER" /\ CanSubmit(u, deal)
             \/ x = "DRAFT" /\ CanTakeForEdit(u, deal)
             \/ x = "CANCELLED" /\ CanCancel(u, deal)
          /\ deal' = InState(deal, x)
          /\ LastChange' = [old |-> deal.state, new |-> x]

\* A commit from the deal as it is cannot be told from its handler.
LEMMA CommitIsHandler ==
    ASSUME IInv, NEW s \in Slots, Commit(s), Current(req[s], deal)
    PROVE  \E u \in Users : HandledBy(u)
<1> DEFINE r == req[s]
<1>1. PICK new \in Outcomes(r) :
          /\ deal' = Merged(r.copy, new, deal)
          /\ audited' = Logged(r, new, audited)
  BY DEF Commit
<1>18. LastChange' = IF new.state \in {r.copy.state, "APPROVED"} THEN LastChange
                     ELSE [old |-> r.copy.state, new |-> new.state]
  BY <1>1 DEF LastChange, Logged, Appended
<1>2. /\ r \in Requests /\ Sound(r, deal, bookings) /\ r # Idle
      /\ r.phase \in {"ready", "sent", "failed"} /\ UNCHANGED <<bookings, served>>
  BY AtWork DEF Commit
<1>3. r.user \in Users /\ r.id \in Nat /\ r.op \in Ops /\ deal \in Deals
  BY <1>2, RequestsAssumption DEF Requests, IInv, TypeOK
<1>4. Allowed(r.op, r.user, deal)
  BY DEF Current
<1>5. r.op \in NeedsRelated => r.copy = deal
  BY <1>2 DEF Current
<1>6. r.op \notin NeedsRelated => r.copy = RowOf(deal)
  BY DEF Current
<1> HIDE DEF r
<1>7. ASSUME NEW x \in DealStates, NEW c \in ApprovalDecisions,
              new = Decided(deal, r.user, x, c)
       PROVE  new \in Deals /\ new.trader = deal.trader /\ new.state = x
  <2> DEFINE m == Decided(deal, r.user, x, c)
  <2>1. /\ m \in Deals /\ m.trader = deal.trader /\ m.state = x
        /\ m.solution = [decision |-> c, by |-> r.user]
    BY <1>3, <1>7, DecidedFacts
  <2>2. QED
    BY <1>7, <2>1
<1>8. CASE r.op = "update"
  <2>1. PICK t \in Terms, v \in OptDates : new = Updated(deal, t, v)
    BY <1>5, <1>8 DEF Outcomes, NeedsRelated
  <2>2. deal' = new /\ LastChange' = LastChange
    BY <1>1, <1>18, <1>3, <1>5, <1>8, <2>1, UpdatedFacts, MergedCurrent
    DEF NeedsRelated
  <2>3. CanUpdate(r.user, deal)
    BY <1>4, <1>8 DEF Allowed
  <2>4. QED
    BY <1>3, <2>1, <2>2, <2>3 DEF HandledBy
<1>9. CASE r.op = "validate"
  <2>1. CanValidate(r.user, deal) /\ r.copy = deal
    BY <1>4, <1>5, <1>9 DEF Allowed, NeedsRelated
  <2>2. new = Invalid(deal) \/ \E v \in ValueDates(deal) : new = Priced(deal, v, r.id)
    BY <1>9, <2>1 DEF Outcomes
  <2>3. /\ new \in Deals /\ new.trader = deal.trader /\ new.state = deal.state
    BY <1>3, <2>2, InvalidFacts, PricedFacts
  <2>4. deal' = new /\ LastChange' = LastChange
    BY <1>1, <1>18, <1>3, <2>1, <2>3, MergedCurrent
  <2>5. QED
    BY <1>3, <2>1, <2>2, <2>4 DEF HandledBy
<1>10. CASE r.op = "approve"
  <2>1. CanApprove(r.user, deal) /\ r.copy = deal
    BY <1>4, <1>5, <1>10 DEF Allowed, NeedsRelated
  <2>2. deal.state = "WAITING_FOR_POSITIONER"
    BY <2>1 DEF CanApprove
  <2>3. {"EXECUTED", "APPROVED"} \subseteq DealStates /\ "APPROVE" \in ApprovalDecisions
    BY DEF DealStates, ApprovalDecisions
  <2>4. CASE r.phase = "sent"
    <3>1. new = Decided(deal, r.user, "EXECUTED", "APPROVE")
      BY <1>10, <2>1, <2>4 DEF Outcomes
    <3>2. new \in Deals /\ new.trader = deal.trader /\ new.state = "EXECUTED"
      BY <1>7, <2>3, <3>1
    <3>3. deal' = new /\ LastChange' = [old |-> deal.state, new |-> "EXECUTED"]
      BY <1>1, <1>18, <1>3, <2>1, <2>2, <3>2, MergedCurrent
    <3>4. Delivered(deal, bookings)
      <4>1. ASSUME NEW p \in deal.payments
            PROVE  [by |-> r.id, payment |-> p] \in bookings
        BY <1>2, <2>1, <2>4, <4>1 DEF Sound, InOrder
      <4>2. \A p \in deal.payments : \E b \in bookings : b.payment = p
        BY <4>1
      <4>3. QED
        BY <4>2 DEF Delivered
    <3>5. QED
      BY <1>3, <2>1, <3>1, <3>3, <3>4 DEF HandledBy
  <2>5. CASE r.phase # "sent"
    <3>1. new = Decided(deal, r.user, "APPROVED", "APPROVE")
      BY <1>10, <2>1, <2>5 DEF Outcomes
    <3>2. new \in Deals /\ new.trader = deal.trader /\ new.state = "APPROVED"
      BY <1>7, <2>3, <3>1
    <3>3. deal' = new /\ LastChange' = LastChange
      BY <1>1, <1>18, <1>3, <2>1, <3>2, MergedCurrent
    <3>4. QED
      BY <1>3, <2>1, <3>1, <3>3 DEF HandledBy
  <2>6. QED
    BY <2>4, <2>5
<1>11. CASE r.op = "decide"
  <2>1. CanDecide(r.user, deal) /\ r.copy = deal
    BY <1>4, <1>5, <1>11 DEF Allowed, NeedsRelated
  <2>2. deal.state = "WAITING_FOR_POSITIONER"
    BY <2>1 DEF CanDecide
  <2>3. PICK c \in {"RETURN_FOR_EDIT", "REJECT"} :
            new = Decided(deal, r.user, "REJECTED", c)
    BY <1>11, <2>1 DEF Outcomes
  <2>4. "REJECTED" \in DealStates /\ c \in ApprovalDecisions
    BY DEF DealStates, ApprovalDecisions
  <2>5. new \in Deals /\ new.trader = deal.trader /\ new.state = "REJECTED"
    BY <1>7, <2>3, <2>4
  <2>6. deal' = new /\ LastChange' = [old |-> deal.state, new |-> "REJECTED"]
    BY <1>1, <1>18, <1>3, <2>1, <2>2, <2>5, MergedCurrent
  <2>7. QED
    BY <1>3, <2>1, <2>3, <2>6 DEF HandledBy
\* The handlers that look at the row alone.
<1>12. ASSUME r.op \in {"submit", "takeForEdit", "cancel"}
       PROVE  /\ r.copy = RowOf(deal) /\ r.copy.state = deal.state
              /\ deal.state \in DealStates /\ deal.valid \in ValidationStatuses
              /\ r.copy.valid = deal.valid
  <2>1. r.copy = RowOf(deal)
    BY <1>6, <1>12 DEF NeedsRelated
  <2>2. QED
    BY <1>3, <2>1 DEF RowOf, Deals
<1>13. ASSUME r.op \in {"submit", "takeForEdit", "cancel"}, NEW x \in DealStates,
              new = InState(r.copy, x), x \notin {deal.state, "APPROVED"}
       PROVE  deal' = InState(deal, x) /\ LastChange' = [old |-> deal.state, new |-> x]
  <2>1. new = Marked(RowOf(deal), x, deal.valid)
    BY <1>3, <1>12, <1>13 DEF InState, RowOf, Deals, Marked
  <2>2. deal' = Marked(deal, x, deal.valid)
    <3>1. deal' = Merged(RowOf(deal), new, deal)
      BY <1>1, <1>12, <1>13
    <3>2. QED
      BY <1>3, <1>12, <1>13, <2>1, <3>1, MergedRow
  <2>3. Marked(deal, x, deal.valid) = InState(deal, x)
    BY <1>3 DEF InState, Deals, Marked
  <2>4. new.state = x
    BY <1>3, <2>1 DEF RowOf, Deals, Marked
  <2>5. QED
    BY <1>1, <1>18, <1>12, <1>13, <2>2, <2>3, <2>4
<1>14. CASE r.op = "submit"
  <2>1. CanSubmit(r.user, deal) /\ deal.state = "DRAFT"
    BY <1>4, <1>14 DEF Allowed, CanSubmit
  <2>2. CASE new = Invalid(r.copy)
    <3>1. new = Marked(RowOf(deal), deal.state, "INVALID")
      BY <1>3, <1>12, <1>14, <2>2 DEF Invalid, RowOf, Deals, Marked
    <3>2. "INVALID" \in ValidationStatuses
      BY DEF ValidationStatuses
    <3>3. deal' = Marked(deal, deal.state, "INVALID")
      <4>1. deal' = Merged(RowOf(deal), new, deal)
        BY <1>1, <1>12, <1>14
      <4>2. QED
        BY <1>3, <1>12, <1>14, <3>1, <3>2, <4>1, MergedRow
    <3>4. deal' = Invalid(deal)
      BY <1>3, <3>3 DEF Invalid, Deals, Marked
    <3>5. new.state = deal.state
      BY <1>3, <3>1 DEF RowOf, Deals, Marked
    <3>6. LastChange' = LastChange
      BY <1>1, <1>18, <1>12, <1>14, <3>5
    <3>7. QED
      BY <1>3, <2>1, <3>4, <3>6 DEF HandledBy
  <2>3. CASE new = InState(r.copy, "WAITING_FOR_POSITIONER")
    <3>1. "WAITING_FOR_POSITIONER" \in DealStates
      BY DEF DealStates
    <3>2. QED
      BY <1>3, <1>13, <1>14, <2>1, <2>3, <3>1 DEF HandledBy
  <2>4. QED
    BY <1>14, <2>2, <2>3 DEF Outcomes
<1>15. CASE r.op = "takeForEdit"
  <2>1. CanTakeForEdit(r.user, deal) /\ deal.state = "REJECTED"
    BY <1>4, <1>15 DEF Allowed, CanTakeForEdit
  <2>2. new = InState(r.copy, "DRAFT") /\ "DRAFT" \in DealStates
    BY <1>15 DEF Outcomes, DealStates
  <2>3. QED
    BY <1>3, <1>13, <1>15, <2>1, <2>2 DEF HandledBy
<1>16. CASE r.op = "cancel"
  <2>1. CanCancel(r.user, deal) /\ deal.state = "DRAFT"
    BY <1>4, <1>16 DEF Allowed, CanCancel
  <2>2. new = InState(r.copy, "CANCELLED") /\ "CANCELLED" \in DealStates
    BY <1>16 DEF Outcomes, DealStates
  <2>3. QED
    BY <1>3, <1>13, <1>16, <2>1, <2>2 DEF HandledBy
<1>17. QED
  BY <1>3, <1>8, <1>9, <1>10, <1>11, <1>14, <1>15, <1>16 DEF Ops

LEMMA SerialInit == Init => SerialInv
<1> SUFFICES ASSUME Init PROVE SerialInv
  OBVIOUS
<1>1. PICK u \in Users, t \in Terms, v \in OptDates : deal = NewDeal(u, t, v)
  BY DEF Init
<1>2. deal.state = "DRAFT"
  BY <1>1, NewDealFacts
<1>3. QED
  BY <1>2 DEF Init, SerialInv

\* The handlers: only an approval that has had everything accepted executes,
\* and what is EXECUTED keeps its payments.
LEMMA HandledDelivers ==
    ASSUME IInv, SerialInv, NEW u \in Users, HandledBy(u), UNCHANGED bookings
    PROVE  deal'.state = "EXECUTED" => Delivered(deal', bookings')
<1>1. deal \in Deals /\ "APPROVE" \in ApprovalDecisions
      /\ {"APPROVED", "EXECUTED", "REJECTED", "WAITING_FOR_POSITIONER", "DRAFT",
          "CANCELLED"} \subseteq DealStates
  BY DEF IInv, TypeOK, ApprovalDecisions, DealStates
<1>2. ASSUME deal'.state = deal.state, deal'.payments = deal.payments
      PROVE  deal'.state = "EXECUTED" => Delivered(deal', bookings')
  BY <1>2 DEF SerialInv, Delivered
<1>3. ASSUME NEW x \in DealStates, NEW c \in ApprovalDecisions,
             deal' = Decided(deal, u, x, c)
      PROVE  deal'.state = x /\ deal'.payments = deal.payments
  <2>1. /\ Decided(deal, u, x, c).state = x
        /\ Decided(deal, u, x, c).payments = deal.payments
        /\ Decided(deal, u, x, c).solution = [decision |-> c, by |-> u]
    BY <1>1, <1>3, DecidedFacts
  <2>2. QED
    BY <1>3, <2>1
<1>4. CASE CanUpdate(u, deal) /\ \E t \in Terms, v \in OptDates : deal' = Updated(deal, t, v)
  <2>1. PICK t \in Terms, v \in OptDates : deal' = Updated(deal, t, v)
    BY <1>4
  <2>2. deal'.state = "DRAFT"
    BY <1>1, <1>4, <2>1, UpdatedFacts DEF CanUpdate
  <2>3. QED
    BY <2>2
<1>5. CASE deal' = Invalid(deal)
  BY <1>1, <1>2, <1>5, InvalidFacts
<1>6. CASE \E v \in ValueDates(deal), b \in Nat : deal' = Priced(deal, v, b)
  <2>1. PICK v \in ValueDates(deal), b \in Nat : deal' = Priced(deal, v, b)
    BY <1>6
  <2>2. deal.state = "DRAFT"
    BY <2>1 DEF ValueDates
  <2>3. deal'.state = deal.state
    BY <1>1, <2>1, PricedFacts
  <2>4. QED
    BY <2>2, <2>3
<1>7. CASE deal' = Decided(deal, u, "APPROVED", "APPROVE")
  <2>1. deal'.state = "APPROVED"
    BY <1>1, <1>3, <1>7
  <2>2. QED
    BY <2>1
<1>8. CASE deal' = Decided(deal, u, "EXECUTED", "APPROVE") /\ Delivered(deal, bookings)
  <2>1. deal'.payments = deal.payments
    BY <1>1, <1>3, <1>8
  <2>2. QED
    BY <1>8, <2>1 DEF Delivered
<1>9. CASE \E c \in {"RETURN_FOR_EDIT", "REJECT"} : deal' = Decided(deal, u, "REJECTED", c)
  <2>1. PICK c \in {"RETURN_FOR_EDIT", "REJECT"} : deal' = Decided(deal, u, "REJECTED", c)
    BY <1>9
  <2>2. c \in ApprovalDecisions
    BY DEF ApprovalDecisions
  <2>3. deal'.state = "REJECTED"
    BY <1>1, <1>3, <2>1, <2>2
  <2>4. QED
    BY <2>3
<1>10. CASE \E x \in {"WAITING_FOR_POSITIONER", "DRAFT", "CANCELLED"} : deal' = InState(deal, x)
  <2>1. PICK x \in {"WAITING_FOR_POSITIONER", "DRAFT", "CANCELLED"} : deal' = InState(deal, x)
    BY <1>10
  <2>2. deal'.state = x
    BY <1>1, <2>1 DEF InState, Deals
  <2>3. QED
    BY <2>2
<1>11. QED
  BY <1>4, <1>5, <1>6, <1>7, <1>8, <1>9, <1>10 DEF HandledBy

\* What a step makes of the one request there is decides the invariant.
LEMMA OneRequest ==
    ASSUME OneSlot, IInv, NEW s \in Slots, NEW r, req' = [req EXCEPT ![s] = r],
           r = Idle \/ Current(r, deal'),
           deal'.state = "EXECUTED" => Delivered(deal', bookings')
    PROVE  SerialInv'
<1>1. req'[s] = r
  BY DEF IInv, TypeOK
<1>2. ASSUME NEW t \in Slots, req'[t] # Idle
      PROVE  Current(req'[t], deal')
  <2>1. t = s
    BY DEF OneSlot
  <2>2. QED
    BY <1>1, <1>2, <2>1
<1>3. QED
  BY <1>2 DEF SerialInv

LEMMA SerialStep ==
    ASSUME OneSlot, IInv, SerialInv, Next
    PROVE  SerialInv'
<1>1. PICK s \in Slots : \/ LoadRow(s) \/ LoadPayments(s) \/ LoadSolution(s)
                         \/ SendPayment(s) \/ SendDone(s) \/ SendFails(s)
                         \/ Commit(s) \/ Abort(s)
  BY DEF Next
<1>2. deal \in Deals
  BY DEF IInv, TypeOK
\* Steps that write nothing.
<1>3. ASSUME UNCHANGED deal, bookings \subseteq bookings'
      PROVE  deal'.state = "EXECUTED" => Delivered(deal', bookings')
  BY <1>3 DEF SerialInv, Delivered
<1>4. ASSUME req[s] # Idle
      PROVE  req[s] \in Requests /\ Sound(req[s], deal, bookings) /\ Current(req[s], deal)
  BY <1>4, AtWork DEF SerialInv
<1>5. CASE LoadRow(s)
  <2>1. PICK op \in Ops, u \in Users :
           /\ Allowed(op, u, deal)
           /\ req' = [req EXCEPT ![s] =
                [phase |-> IF op \in NeedsRelated THEN "row" ELSE "ready",
                 op |-> op, user |-> u, id |-> served',
                 copy |-> [deal EXCEPT !.payments = {}, !.solution = NoSolution],
                 left |-> {}]]
    BY <1>5 DEF LoadRow
  <2> DEFINE r == [phase |-> IF op \in NeedsRelated THEN "row" ELSE "ready",
                   op |-> op, user |-> u, id |-> served',
                   copy |-> RowOf(deal), left |-> {}]
  <2>2. req' = [req EXCEPT ![s] = r]
    BY <2>1 DEF RowOf
  <2>3. UNCHANGED <<deal, bookings>>
    BY <1>5 DEF LoadRow
  <2>4. Current(r, deal')
    BY <2>1, <2>3 DEF Current
  <2> HIDE DEF r
  <2>5. QED
    BY <1>3, <2>2, <2>3, <2>4, OneRequest
<1>6. CASE LoadPayments(s)
  <2>1. req[s] # Idle /\ req[s].phase = "row"
    BY <1>6 DEF LoadPayments, Idle
  <2> DEFINE r == [req[s] EXCEPT !.copy.payments = deal.payments, !.phase = "payments"]
  <2>2. req' = [req EXCEPT ![s] = r] /\ UNCHANGED <<deal, bookings>>
    BY <1>6 DEF LoadPayments
  <2>3. req[s].copy = RowOf(deal) /\ req[s].op \in NeedsRelated
    BY <1>4, <2>1 DEF Current
  <2>4. /\ r.phase = "payments" /\ r.op = req[s].op /\ r.user = req[s].user
        /\ r.copy = [req[s].copy EXCEPT !.payments = deal.payments]
        /\ r.left = req[s].left
    BY <1>4, <2>1 DEF Requests
  <2> HIDE DEF r
  <2>5. Current(r, deal')
    BY <1>4, <2>1, <2>2, <2>3, <2>4 DEF Current
  <2>6. QED
    BY <1>3, <2>2, <2>5, OneRequest
<1>14. CASE LoadSolution(s)
  <2>1. req[s] # Idle /\ req[s].phase = "payments"
    BY <1>14 DEF LoadSolution, Idle
  <2> DEFINE r == [req[s] EXCEPT
                      !.copy.solution = deal.solution,
                      !.phase = IF req[s].op = "approve" THEN "sending" ELSE "ready",
                      !.left  = IF req[s].op = "approve" THEN req[s].copy.payments
                                ELSE {}]
  <2>2. req' = [req EXCEPT ![s] = r] /\ UNCHANGED <<deal, bookings>>
    BY <1>14 DEF LoadSolution
  <2>3. /\ req[s].copy = [RowOf(deal) EXCEPT !.payments = deal.payments]
        /\ req[s].op \in NeedsRelated
    BY <1>4, <2>1 DEF Current
  <2>4. /\ [req[s].copy EXCEPT !.solution = deal.solution] = deal
        /\ req[s].copy.payments = deal.payments
    BY <1>2, <2>3 DEF RowOf, Deals
  <2>5. /\ r.phase \notin {"row", "payments"} /\ r.op = req[s].op
        /\ r.user = req[s].user
        /\ r.copy = [req[s].copy EXCEPT !.solution = deal.solution]
        /\ r.left \subseteq req[s].copy.payments
    BY <1>4, <2>1 DEF Requests
  <2>6. Allowed(req[s].op, req[s].user, deal)
    BY <1>4, <2>1 DEF Current
  <2> HIDE DEF r
  <2>7. Current(r, deal')
    BY <2>2, <2>3, <2>4, <2>5, <2>6 DEF Current
  <2>8. QED
    BY <1>3, <2>2, <2>7, OneRequest
\* A send leaves the copy alone and has less and less to do.
<1>7. ASSUME req[s].phase = "sending", NEW ph \in {"sending", "sent", "failed"},
             NEW L \in SUBSET req[s].left,
             req' = [req EXCEPT ![s] = [@ EXCEPT !.phase = ph, !.left = L]],
             UNCHANGED deal, bookings \subseteq bookings'
      PROVE  SerialInv'
  <2>1. req[s] # Idle
    BY <1>7 DEF Idle
  <2> DEFINE r == [req[s] EXCEPT !.phase = ph, !.left = L]
  <2>2. /\ r.phase = ph /\ r.left = L /\ r.op = req[s].op
        /\ r.user = req[s].user /\ r.copy = req[s].copy
    BY <1>4, <2>1 DEF Requests
  <2>3. req' = [req EXCEPT ![s] = r]
    BY <1>7 DEF IInv, TypeOK
  <2> HIDE DEF r
  <2>4. Current(r, deal')
    BY <1>4, <1>7, <2>1, <2>2 DEF Current
  <2>5. QED
    BY <1>3, <1>7, <2>3, <2>4, OneRequest
<1>8. CASE SendPayment(s)
  <2>1. PICK p \in req[s].left :
            Booked(s, p) /\ req' = [req EXCEPT ![s].left = @ \ {p}]
    BY <1>8 DEF SendPayment
  <2>2. req[s].phase = "sending" /\ UNCHANGED deal /\ req[s] # Idle
    BY <1>8 DEF SendPayment, Idle
  <2>3. [req[s] EXCEPT !.left = @ \ {p}]
           = [req[s] EXCEPT !.phase = "sending", !.left = req[s].left \ {p}]
    BY <1>4, <2>2 DEF Requests
  <2>4. req' = [req EXCEPT ![s] =
                   [@ EXCEPT !.phase = "sending", !.left = req[s].left \ {p}]]
    BY <2>1, <2>3
  <2>5. bookings \subseteq bookings'
    BY <2>1 DEF Booked
  <2>6. req[s].left \ {p} \in SUBSET req[s].left
    OBVIOUS
  <2>7. QED
    BY <1>7, <2>2, <2>4, <2>5, <2>6
<1>9. CASE SendDone(s)
  <2>1. /\ req[s].phase = "sending" /\ req[s].left = {} /\ req[s] # Idle
        /\ UNCHANGED <<deal, bookings>>
        /\ req' = [req EXCEPT ![s].phase = "sent"]
    BY <1>9 DEF SendDone, Idle
  <2>2. [req[s] EXCEPT !.phase = "sent"] = [req[s] EXCEPT !.phase = "sent", !.left = {}]
    BY <1>4, <2>1 DEF Requests
  <2>3. req' = [req EXCEPT ![s] = [@ EXCEPT !.phase = "sent", !.left = {}]]
    BY <2>1, <2>2
  <2>4. {} \in SUBSET req[s].left /\ bookings \subseteq bookings'
    BY <2>1
  <2>5. QED
    BY <1>7, <2>1, <2>3, <2>4
<1>10. CASE SendFails(s)
  <2>1. /\ req[s].phase = "sending" /\ UNCHANGED deal
        /\ req' = [req EXCEPT ![s] = [@ EXCEPT !.phase = "failed", !.left = {}]]
    BY <1>10 DEF SendFails
  <2>2. bookings \subseteq bookings'
    BY <1>10 DEF SendFails, Booked
  <2>3. {} \in SUBSET req[s].left
    OBVIOUS
  <2>4. QED
    BY <1>7, <2>1, <2>2, <2>3
<1>11. CASE Commit(s)
  <2>1. /\ req[s] # Idle /\ UNCHANGED bookings
        /\ req' = [req EXCEPT ![s] = Idle]
    BY <1>11 DEF Commit, Finish
  <2>2. PICK u \in Users : HandledBy(u)
    BY <1>4, <1>11, <2>1, CommitIsHandler
  <2>3. deal'.state = "EXECUTED" => Delivered(deal', bookings')
    BY <2>1, <2>2, HandledDelivers
  <2>4. QED
    BY <2>1, <2>3, OneRequest
<1>12. CASE Abort(s)
  <2>1. UNCHANGED <<deal, bookings>> /\ req' = [req EXCEPT ![s] = Idle]
    BY <1>12 DEF Abort, Finish
  <2>2. QED
    BY <1>3, <2>1, OneRequest
<1>13. QED
  BY <1>1, <1>5, <1>6, <1>8, <1>9, <1>10, <1>11, <1>12, <1>14

-----------------------------------------------------------------------------
(***************************************************************************)
(* The handlers of DealLifecycle see the deal without the identity of its  *)
(* payment rows: what they make of it is what is left of what the handlers *)
(* here make of it.                                                        *)
(***************************************************************************)
UnbatchedSet(P) == {Unbatched(p) : p \in P}

LEMMA UnbatchedLegs ==
    ASSUME NEW t, NEW v, NEW b \in Nat
    PROVE  UnbatchedSet(LegsOf(t, v, b)) = LegsOf(t, v, 0)
<1>1. ASSUME NEW p \in LegsOf(t, v, b)
      PROVE  Unbatched(p) \in LegsOf(t, v, 0)
  BY <1>1 DEF LegsOf, Unbatched
<1>2. ASSUME NEW q \in LegsOf(t, v, 0)
      PROVE  q \in UnbatchedSet(LegsOf(t, v, b))
  <2> DEFINE p == [leg |-> q.leg, terms |-> t, date |-> v, batch |-> b]
  <2>1. p \in LegsOf(t, v, b)
    BY DEF LegsOf
  <2>2. Unbatched(p) = [leg |-> q.leg, terms |-> t, date |-> v, batch |-> 0]
    BY DEF Unbatched
  <2>3. q = [leg |-> q.leg, terms |-> t, date |-> v, batch |-> 0]
    BY DEF LegsOf
  <2>4. Unbatched(p) = q
    BY <2>2, <2>3
  <2> HIDE DEF p
  <2>5. QED
    BY <2>1, <2>4 DEF UnbatchedSet
<1>3. QED
  BY <1>1, <1>2 DEF UnbatchedSet

\* w is d without the identity of its rows.
Without(d, w) ==
    /\ w \in Deals
    /\ w.state = d.state /\ w.valid = d.valid /\ w.terms = d.terms
    /\ w.date = d.date /\ w.trader = d.trader
    /\ w.positioner = d.positioner /\ w.solution = d.solution
    /\ w.payments = UnbatchedSet(d.payments)

LEMMA WithoutBatchesFacts ==
    ASSUME NEW d \in Deals
    PROVE  Without(d, WithoutBatches(d))
<1>1. WithoutBatches(d) = [d EXCEPT !.payments = UnbatchedSet(d.payments)]
  BY DEF WithoutBatches, UnbatchedSet
<1>2. UnbatchedSet(d.payments) \in SUBSET Payments
  <2>1. d.payments \in SUBSET Payments
    BY DEF Deals
  <2>2. ASSUME NEW p \in Payments
        PROVE  Unbatched(p) \in Payments
    BY <2>2 DEF Payments, Unbatched
  <2>3. QED
    BY <2>1, <2>2 DEF UnbatchedSet
<1>3. QED
  BY <1>1, <1>2 DEF Deals, Without

\* There is only one such deal.
LEMMA WithoutIsUnique ==
    ASSUME NEW d \in Deals, NEW w, Without(d, w)
    PROVE  WithoutBatches(d) = w
<1> DEFINE x == WithoutBatches(d)
<1>1. Without(d, x)
  BY WithoutBatchesFacts
<1> HIDE DEF x
<1>2. x = [state |-> x.state, valid |-> x.valid, terms |-> x.terms, date |-> x.date,
           trader |-> x.trader, positioner |-> x.positioner,
           payments |-> x.payments, solution |-> x.solution]
  BY <1>1 DEF Deals, Without
<1>3. w = [state |-> w.state, valid |-> w.valid, terms |-> w.terms, date |-> w.date,
           trader |-> w.trader, positioner |-> w.positioner,
           payments |-> w.payments, solution |-> w.solution]
  BY DEF Deals, Without
<1>4. x = w
  BY <1>1, <1>2, <1>3 DEF Without
<1>5. QED
  BY <1>4 DEF x

\* The rules are the same on both sides.
LEMMA SameRules ==
    ASSUME NEW d \in Deals, NEW u \in Users
    PROVE  LET w == WithoutBatches(d) IN
           /\ CanUpdate(u, d) => Serial!CanUpdate(u, w)
           /\ CanValidate(u, d) => Serial!CanValidate(u, w)
           /\ CanSubmit(u, d) => Serial!CanSubmit(u, w)
           /\ CanApprove(u, d) => Serial!CanApprove(u, w)
           /\ CanDecide(u, d) => Serial!CanDecide(u, w)
           /\ CanTakeForEdit(u, d) => Serial!CanTakeForEdit(u, w)
           /\ CanCancel(u, d) => Serial!CanCancel(u, w)
           /\ Serial!ValueDates(w) = ValueDates(d)
<1> DEFINE w == WithoutBatches(d)
<1>1. /\ w.state = d.state /\ w.valid = d.valid /\ w.terms = d.terms
      /\ w.date = d.date /\ w.trader = d.trader
  BY WithoutBatchesFacts DEF Without
<1> HIDE DEF w
<1>2. QED
  BY <1>1
  DEF w, CanUpdate, CanValidate, CanSubmit, CanApprove, CanDecide, CanTakeForEdit,
      CanCancel, RequireTrader, Trades, Decides, ValueDates,
      Serial!CanUpdate, Serial!CanValidate, Serial!CanSubmit, Serial!CanApprove,
      Serial!CanDecide, Serial!CanTakeForEdit, Serial!CanCancel,
      Serial!RequireTrader, Serial!Trades, Serial!Decides, Serial!ValueDates

\* Each handler commutes with forgetting the rows' identity.
LEMMA SameUpdated ==
    ASSUME NEW d \in Deals, NEW t \in Terms, NEW v \in OptDates
    PROVE  WithoutBatches(Updated(d, t, v)) = Serial!Updated(WithoutBatches(d), t, v)
<1> DEFINE w == WithoutBatches(d)
<1>1. Serial!Updated(w, t, v) = Updated(w, t, v)
  BY DEF Serial!Updated, Updated
<1>2. Without(d, w)
  BY WithoutBatchesFacts
<1> HIDE DEF w
<1>3. Updated(d, t, v) \in Deals
  BY UpdatedFacts
<1>4. Without(Updated(d, t, v), Updated(w, t, v))
  BY <1>2 DEF Without, Updated, Deals, ValidationStatuses, UnbatchedSet
<1>5. QED
  BY <1>1, <1>3, <1>4, WithoutIsUnique DEF w

LEMMA SameInvalid ==
    ASSUME NEW d \in Deals
    PROVE  WithoutBatches(Invalid(d)) = Serial!Invalid(WithoutBatches(d))
<1> DEFINE w == WithoutBatches(d)
<1>1. Serial!Invalid(w) = Invalid(w)
  BY DEF Serial!Invalid, Invalid
<1>2. Without(d, w)
  BY WithoutBatchesFacts
<1> HIDE DEF w
<1>3. Invalid(d) \in Deals
  BY InvalidFacts
<1>4. Without(Invalid(d), Invalid(w))
  BY <1>2 DEF Without, Invalid, Deals, ValidationStatuses
<1>5. QED
  BY <1>1, <1>3, <1>4, WithoutIsUnique DEF w

LEMMA SamePriced ==
    ASSUME NEW d \in Deals, NEW v \in ValueDates(d), NEW b \in Nat
    PROVE  WithoutBatches(Priced(d, v, b)) = Serial!Priced(WithoutBatches(d), v, 0)
<1> DEFINE w == WithoutBatches(d)
<1>1. Serial!Priced(w, v, 0) = Priced(w, v, 0)
  BY DEF Serial!Priced, Priced, Serial!LegsOf, LegsOf, Serial!Legs, Legs
<1>2. Without(d, w)
  BY WithoutBatchesFacts
<1>3. v \in Dates /\ d.terms \in Terms
  BY ValueDatesType DEF Deals
<1> HIDE DEF w
<1>4. Priced(d, v, b) \in Deals
  BY <1>3, LegsOfType DEF Priced, Deals, ValidationStatuses, OptDates
<1>5. LegsOf(d.terms, v, 0) \in SUBSET Payments
  BY <1>3, LegsOfType
<1>6. UnbatchedSet(LegsOf(d.terms, v, b)) = LegsOf(d.terms, v, 0)
  BY UnbatchedLegs
<1>7. Without(Priced(d, v, b), Priced(w, v, 0))
  BY <1>2, <1>3, <1>5, <1>6 DEF Without, Priced, Deals, ValidationStatuses, OptDates
<1>8. QED
  BY <1>1, <1>4, <1>7, WithoutIsUnique DEF w

LEMMA SameInState ==
    ASSUME NEW d \in Deals, NEW x \in DealStates
    PROVE  WithoutBatches(InState(d, x)) = Serial!InState(WithoutBatches(d), x)
<1> DEFINE w == WithoutBatches(d)
<1>1. Serial!InState(w, x) = InState(w, x)
  BY DEF Serial!InState, InState
<1>2. Without(d, w)
  BY WithoutBatchesFacts
<1> HIDE DEF w
<1>3. InState(d, x) \in Deals
  BY InStateFacts
<1>4. Without(InState(d, x), InState(w, x))
  BY <1>2 DEF Without, InState, Deals
<1>5. QED
  BY <1>1, <1>3, <1>4, WithoutIsUnique DEF w

LEMMA SameDecided ==
    ASSUME NEW d \in Deals, NEW u \in Users, NEW x \in DealStates,
           NEW c \in ApprovalDecisions
    PROVE  WithoutBatches(Decided(d, u, x, c)) = Serial!Decided(WithoutBatches(d), u, x, c)
<1> DEFINE w == WithoutBatches(d)
<1>1. Serial!Decided(w, u, x, c) = Decided(w, u, x, c)
  BY DEF Serial!Decided, Decided
<1>2. Without(d, w)
  BY WithoutBatchesFacts
<1> HIDE DEF w
<1>3. Decided(d, u, x, c) \in Deals
  BY DEF Decided, Deals, OptUsers, Solutions
<1>4. Without(Decided(d, u, x, c), Decided(w, u, x, c))
  BY <1>2 DEF Without, Decided, Deals, OptUsers, Solutions
<1>5. QED
  BY <1>1, <1>3, <1>4, WithoutIsUnique DEF w

LEMMA InitRefines == Init => Serial!Init
<1> SUFFICES ASSUME Init PROVE Serial!Init
  OBVIOUS
<1>1. PICK u \in Users, t \in Terms, v \in OptDates :
          Trades(u) /\ deal = NewDeal(u, t, v)
  BY DEF Init
<1>2. NewDeal(u, t, v) \in Deals
  BY NewDealFacts
<1>3. Without(NewDeal(u, t, v), NewDeal(u, t, v))
  BY <1>2 DEF Without, UnbatchedSet, NewDeal
<1>4. WithoutBatches(deal) = NewDeal(u, t, v)
  BY <1>1, <1>2, <1>3, WithoutIsUnique
<1>5. /\ NewDeal(u, t, v) = Serial!NewDeal(u, t, v)
      /\ Serial!Trades(u) /\ v \in Serial!OptDates
  BY <1>1 DEF NewDeal, Serial!NewDeal, NoUser, Serial!NoUser, NoSolution,
     Serial!NoSolution, NoDecision, Serial!NoDecision, Trades, Serial!Trades,
     OptDates, Serial!OptDates, NoDate, Serial!NoDate
<1>6. /\ LastChange = [old |-> "NONE", new |-> "DRAFT"]
      /\ {Unbatched(b.payment) : b \in bookings} = {}
  BY DEF Init, Created, LastChange
<1>7. QED
  BY <1>4, <1>5, <1>6 DEF Serial!Init, LastChange

\* A payment accepted while a send goes on, or as it fails, is an approval
\* that is lost so far.
LEMMA BookedRefines ==
    ASSUME IInv, SerialInv, NEW s \in Slots, req[s].phase = "sending",
           NEW p \in req[s].left, Booked(s, p), UNCHANGED <<deal, audited>>
    PROVE  Serial!Next
<1>1. req[s] # Idle
  BY DEF Idle
<1>2. req[s] \in Requests /\ Sound(req[s], deal, bookings) /\ Current(req[s], deal)
  BY <1>1, AtWork DEF SerialInv
<1>3. req[s].user \in Users /\ deal \in Deals
  BY <1>2 DEF Requests, IInv, TypeOK
<1>4. req[s].op = "approve"
  BY <1>2 DEF Sound, InOrder
<1>5. Serial!CanApprove(req[s].user, WithoutBatches(deal)) /\ p \in deal.payments
  <2>1. CanApprove(req[s].user, deal)
    BY <1>2, <1>4 DEF Current, Allowed
  <2>2. QED
    BY <1>2, <1>3, <2>1, SameRules DEF Current
<1>6. {Unbatched(p)} \in SUBSET WithoutBatches(deal).payments
  BY <1>3, <1>5, WithoutBatchesFacts DEF Without, UnbatchedSet
<1>7. {Unbatched(b.payment) : b \in bookings'}
         = {Unbatched(b.payment) : b \in bookings} \cup {Unbatched(p)}
  <2> DEFINE x == [by |-> req[s].id, payment |-> p]
  <2>1. bookings' = bookings \cup {x} /\ x.payment = p
    BY DEF Booked
  <2> HIDE DEF x
  <2>2. QED
    BY <2>1
<1>8. WithoutBatches(deal)' = WithoutBatches(deal)
  OBVIOUS
<1>9. Serial!Approve(req[s].user)
  BY <1>5, <1>6, <1>7, <1>8 DEF Serial!Approve
<1>10. QED
  BY <1>3, <1>9 DEF Serial!Next

\* A handler on the rows is the same handler of DealLifecycle.
LEMMA HandledRefines ==
    ASSUME IInv, NEW u \in Users, HandledBy(u), UNCHANGED bookings
    PROVE  Serial!Next
<1> DEFINE w == WithoutBatches(deal)
           B == {Unbatched(b.payment) : b \in bookings}
<1>1. deal \in Deals /\ B' = B
  BY DEF IInv, TypeOK
<1>2. "APPROVE" \in ApprovalDecisions
      /\ {"APPROVED", "EXECUTED", "REJECTED", "WAITING_FOR_POSITIONER", "DRAFT",
          "CANCELLED"} \subseteq DealStates
  BY DEF ApprovalDecisions, DealStates
<1>3. w.state = deal.state /\ w.payments = UnbatchedSet(deal.payments)
  BY <1>1, WithoutBatchesFacts DEF Without
<1> USE DEF Serial!Next, LastChange
<1>4. CASE /\ CanUpdate(u, deal)
           /\ \E t \in Terms, v \in OptDates : deal' = Updated(deal, t, v)
           /\ UNCHANGED LastChange
  <2>1. PICK t \in Terms, v \in OptDates : deal' = Updated(deal, t, v)
    BY <1>4
  <2>2. w' = Serial!Updated(w, t, v)
    BY <1>1, <2>1, SameUpdated
  <2>3. Serial!CanUpdate(u, w) /\ v \in Serial!OptDates
    BY <1>1, <1>4, SameRules DEF OptDates, Serial!OptDates, NoDate, Serial!NoDate
  <2>4. Serial!Update(u)
    BY <1>1, <1>4, <2>2, <2>3 DEF Serial!Update
  <2>5. QED
    BY <2>4
<1>5. CASE /\ CanValidate(u, deal)
           /\ \/ deal' = Invalid(deal)
              \/ \E v \in ValueDates(deal), b \in Nat : deal' = Priced(deal, v, b)
           /\ UNCHANGED LastChange
  <2>1. Serial!CanValidate(u, w)
    BY <1>1, <1>5, SameRules
  <2>2. CASE deal' = Invalid(deal)
    <3>1. w' = Serial!Invalid(w)
      BY <1>1, <2>2, SameInvalid
    <3>2. Serial!Validate(u)
      BY <1>1, <1>5, <2>1, <3>1 DEF Serial!Validate
    <3>3. QED
      BY <3>2
  <2>3. CASE \E v \in ValueDates(deal), b \in Nat : deal' = Priced(deal, v, b)
    <3>1. PICK v \in ValueDates(deal), b \in Nat : deal' = Priced(deal, v, b)
      BY <2>3
    <3>2. w' = Serial!Priced(w, v, Serial!OneBatch)
      BY <1>1, <3>1, SamePriced DEF Serial!OneBatch
    <3>3. v \in Serial!ValueDates(w)
      BY <1>1, SameRules
    <3>4. Serial!Validate(u)
      BY <1>1, <1>5, <2>1, <3>2, <3>3 DEF Serial!Validate
    <3>5. QED
      BY <3>4
  <2>4. QED
    BY <1>5, <2>2, <2>3
<1>6. CASE CanSubmit(u, deal) /\ deal' = Invalid(deal) /\ UNCHANGED LastChange
  <2>1. w' = Serial!Invalid(w) /\ Serial!CanSubmit(u, w)
    BY <1>1, <1>6, SameInvalid, SameRules
  <2>2. Serial!Submit(u)
    BY <1>1, <1>6, <2>1 DEF Serial!Submit
  <2>3. QED
    BY <2>2
<1>7. CASE /\ CanApprove(u, deal)
           /\ deal' = Decided(deal, u, "APPROVED", "APPROVE")
           /\ UNCHANGED LastChange
  <2>1. w' = Serial!Decided(w, u, "APPROVED", "APPROVE")
    BY <1>1, <1>2, <1>7, SameDecided
  <2>2. Serial!CanApprove(u, w)
    BY <1>1, <1>7, SameRules
  <2>3. {} \in SUBSET w.payments /\ B' = B \cup {}
    BY <1>1
  <2>4. Serial!Approve(u)
    BY <1>7, <2>1, <2>2, <2>3 DEF Serial!Approve
  <2>5. QED
    BY <2>4
<1>8. CASE /\ CanApprove(u, deal)
           /\ deal' = Decided(deal, u, "EXECUTED", "APPROVE")
           /\ Delivered(deal, bookings)
           /\ LastChange' = [old |-> deal.state, new |-> "EXECUTED"]
  <2>1. w' = Serial!Decided(w, u, "EXECUTED", "APPROVE")
    BY <1>1, <1>2, <1>8, SameDecided
  <2>2. Serial!CanApprove(u, w)
    BY <1>1, <1>8, SameRules
  <2>3. B' = B \cup w.payments
    <3>1. w.payments \subseteq B
      BY <1>3, <1>8 DEF Delivered, UnbatchedSet
    <3>2. QED
      BY <1>1, <3>1
  <2>4. LastChange' = [old |-> w.state, new |-> "EXECUTED"]
    BY <1>3, <1>8
  <2>5. w.payments \in SUBSET w.payments
    OBVIOUS
  <2> HIDE DEF w, B
  <2>6. \E accepted \in SUBSET w.payments :
           /\ B' = B \cup accepted
           /\ accepted = w.payments
           /\ w' = Serial!Decided(w, u, "EXECUTED", "APPROVE")
           /\ LastChange' = [old |-> w.state, new |-> "EXECUTED"]
    BY <2>1, <2>3, <2>4, <2>5
  <2>7. Serial!Approve(u)
    BY <2>2, <2>6 DEF w, B, Serial!Approve, Serial!Sent, Serial!StatusChange
  <2>8. QED
    BY <2>7
<1>9. CASE /\ CanDecide(u, deal)
           /\ \E c \in {"RETURN_FOR_EDIT", "REJECT"} :
                 deal' = Decided(deal, u, "REJECTED", c)
           /\ LastChange' = [old |-> deal.state, new |-> "REJECTED"]
  <2>1. PICK c \in {"RETURN_FOR_EDIT", "REJECT"} : deal' = Decided(deal, u, "REJECTED", c)
    BY <1>9
  <2>2. c \in ApprovalDecisions
    BY DEF ApprovalDecisions
  <2>3. w' = Serial!Decided(w, u, "REJECTED", c) /\ Serial!CanDecide(u, w)
    BY <1>1, <1>2, <1>9, <2>1, <2>2, SameDecided, SameRules
  <2>4. LastChange' = [old |-> w.state, new |-> "REJECTED"]
    BY <1>3, <1>9
  <2>5. Serial!Decide(u)
    BY <1>1, <2>3, <2>4 DEF Serial!Decide, Serial!StatusChange
  <2>6. QED
    BY <2>5
<1>10. CASE \E x \in {"WAITING_FOR_POSITIONER", "DRAFT", "CANCELLED"} :
               /\ \/ x = "WAITING_FOR_POSITIONER" /\ CanSubmit(u, deal)
                  \/ x = "DRAFT" /\ CanTakeForEdit(u, deal)
                  \/ x = "CANCELLED" /\ CanCancel(u, deal)
               /\ deal' = InState(deal, x)
               /\ LastChange' = [old |-> deal.state, new |-> x]
  <2>1. PICK x \in {"WAITING_FOR_POSITIONER", "DRAFT", "CANCELLED"} :
               /\ \/ x = "WAITING_FOR_POSITIONER" /\ CanSubmit(u, deal)
                  \/ x = "DRAFT" /\ CanTakeForEdit(u, deal)
                  \/ x = "CANCELLED" /\ CanCancel(u, deal)
               /\ deal' = InState(deal, x)
               /\ LastChange' = [old |-> deal.state, new |-> x]
    BY <1>10
  <2>2. w' = Serial!InState(w, x) /\ LastChange' = [old |-> w.state, new |-> x]
    BY <1>1, <1>2, <1>3, <2>1, SameInState
  <2>3. CASE x = "WAITING_FOR_POSITIONER" /\ CanSubmit(u, deal)
    <3>1. Serial!CanSubmit(u, w)
      BY <1>1, <2>3, SameRules
    <3>2. Serial!Submit(u)
      BY <1>1, <2>2, <2>3, <3>1 DEF Serial!Submit, Serial!StatusChange
    <3>3. QED
      BY <3>2
  <2>4. CASE x = "DRAFT" /\ CanTakeForEdit(u, deal)
    <3>1. Serial!CanTakeForEdit(u, w)
      BY <1>1, <2>4, SameRules
    <3>2. Serial!TakeForEdit(u)
      BY <1>1, <2>2, <2>4, <3>1 DEF Serial!TakeForEdit, Serial!StatusChange
    <3>3. QED
      BY <3>2
  <2>5. CASE x = "CANCELLED" /\ CanCancel(u, deal)
    <3>1. Serial!CanCancel(u, w)
      BY <1>1, <2>5, SameRules
    <3>2. Serial!Cancel(u)
      BY <1>1, <2>2, <2>5, <3>1 DEF Serial!Cancel, Serial!StatusChange
    <3>3. QED
      BY <3>2
  <2>6. QED
    BY <2>1, <2>3, <2>4, <2>5
<1>11. QED
  BY <1>4, <1>5, <1>6, <1>7, <1>8, <1>9, <1>10 DEF HandledBy

LEMMA NextRefines ==
    ASSUME IInv, SerialInv, [Next]_vars
    PROVE  [Serial!Next]_(Serial!vars)
<1>1. CASE UNCHANGED <<deal, audited, bookings>>
  <2>1. WithoutBatches(deal)' = WithoutBatches(deal)
    BY <1>1
  <2>2. {Unbatched(b.payment) : b \in bookings}' = {Unbatched(b.payment) : b \in bookings}
    BY <1>1
  <2>3. QED
    BY <1>1, <2>1, <2>2 DEF Serial!vars
<1>2. ASSUME NEW s \in Slots, SendPayment(s)
      PROVE  Serial!Next
  BY <1>2, BookedRefines DEF SendPayment
<1>3. ASSUME NEW s \in Slots, SendFails(s)
      PROVE  [Serial!Next]_(Serial!vars)
  <2>1. req[s].phase = "sending" /\ UNCHANGED <<deal, audited>>
    BY <1>3 DEF SendFails
  <2>2. CASE UNCHANGED bookings
    BY <1>1, <2>1, <2>2
  <2>3. CASE \E p \in req[s].left : Booked(s, p)
    BY <2>1, <2>3, BookedRefines
  <2>4. QED
    BY <1>3, <2>2, <2>3 DEF SendFails
<1>4. ASSUME NEW s \in Slots, Commit(s)
      PROVE  Serial!Next
  <2>1. req[s] # Idle /\ UNCHANGED bookings
    BY <1>4 DEF Commit
  <2>2. \E u \in Users : HandledBy(u)
    BY <1>4, <2>1, CommitIsHandler DEF SerialInv
  <2>3. QED
    BY <2>1, <2>2, HandledRefines
<1>5. ASSUME NEW s \in Slots, LoadRow(s) \/ LoadPayments(s) \/ LoadSolution(s)
                                \/ SendDone(s) \/ Abort(s)
      PROVE  UNCHANGED <<deal, audited, bookings>>
  BY <1>5 DEF LoadRow, LoadPayments, LoadSolution, SendDone, Abort
<1>6. QED
  BY <1>1, <1>2, <1>3, <1>4, <1>5 DEF Next, vars

\* With one request at a time, a request's copy is the deal as it is, and an
\* EXECUTED deal's payments have all been accepted.
THEOREM SerialInvariance ==
    ASSUME OneSlot
    PROVE  Spec => []SerialInv
<1>1. Init => SerialInv
  BY SerialInit
<1>2. IInv /\ SerialInv /\ [Next]_vars => SerialInv'
  <2> SUFFICES ASSUME IInv, SerialInv, UNCHANGED vars PROVE SerialInv'
    BY SerialStep
  <2>1. QED
    BY DEF vars, SerialInv, Current, Delivered
<1>3. QED
  BY <1>1, <1>2, Invariance, PTL DEF Spec

\* One request at a time: loading, sending payment by payment and committing
\* column by column implement handlers that run in one step, requests that
\* are lost on the way included.
THEOREM Refinement ==
    ASSUME OneSlot
    PROVE  Spec => ServesSerially
<1>1. Init => Serial!Init
  BY InitRefines
<1>2. IInv /\ SerialInv /\ [Next]_vars => [Serial!Next]_(Serial!vars)
  BY NextRefines
<1>3. QED
  BY <1>1, <1>2, Invariance, SerialInvariance, PTL
  DEF Spec, ServesSerially, Serial!Spec

-----------------------------------------------------------------------------
(***************************************************************************)
(* The overview beside the requests: what stood at its first read has been *)
(* counted as exposure or is among the positions by then, and nothing ever *)
(* leaves the positions.                                                   *)
(***************************************************************************)
Accepted == {b.payment : b \in bookings}

ViewInv ==
    /\ view.reads \in 0..2
    /\ view.reads = 1 => view.standing \subseteq view.counted \cup Accepted
    /\ NothingMissed

OverviewInv == IInv /\ SerialInv /\ ViewInv

LEMMA OverviewStep ==
    ASSUME OneSlot, OverviewInv, [OverviewNext]_<<vars, view>>
    PROVE  OverviewInv'
<1>1. [Next]_vars
  BY DEF OverviewNext, Read, Close
<1>2. IInv' /\ SerialInv'
  <2>1. IInv'
    BY <1>1, NextIInv DEF OverviewInv
  <2>2. CASE Next
    BY <2>1, <2>2, SerialStep DEF OverviewInv
  <2>3. CASE UNCHANGED vars
    BY <2>1, <2>3 DEF OverviewInv, vars, SerialInv, Current, Delivered
  <2>4. QED
    BY <1>1, <2>1, <2>2, <2>3
<1>3. ViewInv'
  <2>1. CASE Read
    <3>1. PICK day \in IF Order[view.reads + 1] = "positions" THEN Days ELSE {view.day} :
             view' = [reads    |-> view.reads + 1,
                      day      |-> day,
                      standing |-> IF view.reads = 0 THEN Standing
                                   ELSE view.standing \cap Standing,
                      counted  |-> view.counted \cup
                                   (IF Order[view.reads + 1] = "exposure"
                                    THEN Exposure ELSE Positions(day))]
      BY <2>1 DEF Read
    <3>2. view.reads \in {0, 1}
      BY <2>1 DEF Read, OverviewInv, ViewInv
    <3>3. CASE view.reads = 0
      <4>1. view'.reads = 1 /\ view'.standing = Standing /\ Exposure \subseteq view'.counted
        BY <3>1, <3>3 DEF Order
      <4>2. Standing \subseteq Exposure \cup Accepted
        BY DEF OverviewInv, SerialInv, Delivered, Standing, Exposure, Accepted, Open
      <4>3. Accepted' = Accepted
        BY <2>1 DEF Read, vars, Accepted
      <4>4. QED
        BY <4>1, <4>2, <4>3 DEF ViewInv, NothingMissed
    <3>4. CASE view.reads = 1
      <4>1. /\ view'.reads = 2 /\ view'.standing \subseteq view.standing
            /\ view'.counted = view.counted \cup Positions(day) /\ view'.day = day
        BY <3>1, <3>4 DEF Order
      <4>2. view.standing \subseteq view.counted \cup Accepted
        BY <3>4 DEF OverviewInv, ViewInv
      <4>3. ASSUME NEW p \in view'.standing, p.date \in Due[day]
            PROVE  p \in view'.counted
        BY <4>1, <4>2, <4>3 DEF Positions, Accepted
      <4>4. QED
        BY <4>1, <4>3 DEF ViewInv, NothingMissed
    <3>5. QED
      BY <3>2, <3>3, <3>4
  <2>2. CASE Close
    BY <2>2 DEF Close, NoView, ViewInv, NothingMissed
  <2>3. CASE UNCHANGED view
    <3>1. bookings \subseteq bookings'
      BY <1>1 DEF Next, vars, LoadRow, LoadPayments, LoadSolution, SendPayment,
         SendDone, SendFails, Booked, Commit, Abort
    <3>2. Accepted \subseteq Accepted'
      BY <3>1 DEF Accepted
    <3>3. QED
      BY <2>3, <3>2 DEF OverviewInv, ViewInv, NothingMissed
  <2>4. QED
    BY <2>1, <2>2, <2>3 DEF OverviewNext
<1>4. QED
  BY <1>2, <1>3 DEF OverviewInv

\* Whatever is approved, executed, returned or lost while the positions
\* overview is made, one request at a time: no payment that stands from its
\* first read to its last, and that the position system counts on the day the
\* overview is for, is missing from both of its sums.
THEOREM OverviewWhole ==
    ASSUME OneSlot
    PROVE  OverviewSpec => []NothingMissed
<1>1. OverviewInit => OverviewInv
  <2> SUFFICES ASSUME OverviewInit PROVE OverviewInv
    OBVIOUS
  <2>1. IInv /\ SerialInv
    BY InitIInv, SerialInit DEF OverviewInit
  <2>2. ViewInv
    BY DEF OverviewInit, NoView, ViewInv, NothingMissed
  <2>3. QED
    BY <2>1, <2>2 DEF OverviewInv
<1>2. OverviewInv /\ [OverviewNext]_<<vars, view>> => OverviewInv'
  BY OverviewStep
<1>3. OverviewInv => NothingMissed
  BY DEF OverviewInv, ViewInv
<1>4. QED
  BY <1>1, <1>2, <1>3, PTL DEF OverviewSpec

=============================================================================
