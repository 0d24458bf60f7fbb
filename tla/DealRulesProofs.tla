--------------------------- MODULE DealRulesProofs ---------------------------
(***************************************************************************)
(* What the rules make of a deal: one lemma per rule, so that the proofs   *)
(* about the handlers see fields and never an EXCEPT.                      *)
(***************************************************************************)
EXTENDS DealRules, TLAPS

\* Entering a deal yields a row of the right type, a draft without payments.
LEMMA NewDealFacts ==
    ASSUME NEW u \in Users, NEW t \in Terms, NEW v \in OptDates
    PROVE  LET n == NewDeal(u, t, v) IN
           /\ n \in Deals
           /\ n.state = "DRAFT" /\ n.valid = "NOT_VALIDATED"
           /\ n.payments = {} /\ n.positioner = NoUser /\ n.trader = u
BY DEF NewDeal, Deals, DealStates, ValidationStatuses, OptUsers, Solutions

\* An edit takes the terms and the date over and drops verdict and payments.
LEMMA UpdatedFacts ==
    ASSUME NEW d \in Deals, NEW t \in Terms, NEW v \in OptDates
    PROVE  LET n == Updated(d, t, v) IN
           /\ n \in Deals
           /\ n.valid = "NOT_VALIDATED" /\ n.payments = {}
           /\ n.state = d.state /\ n.solution = d.solution
           /\ n.trader = d.trader /\ n.positioner = d.positioner
BY DEF Updated, Deals, ValidationStatuses

\* A failed validation changes the verdict and nothing else.
LEMMA InvalidFacts ==
    ASSUME NEW d \in Deals
    PROVE  LET n == Invalid(d) IN
           /\ n \in Deals
           /\ n.valid = "INVALID"
           /\ n.payments = d.payments /\ n.terms = d.terms /\ n.date = d.date
           /\ n.state = d.state /\ n.solution = d.solution
           /\ n.trader = d.trader /\ n.positioner = d.positioner
BY DEF Invalid, Deals, ValidationStatuses

\* The payments computed for a date are rows of the payment table.
LEMMA LegsOfType ==
    ASSUME NEW t \in Terms, NEW v \in Dates, NEW b \in Nat
    PROVE  LegsOf(t, v, b) \in SUBSET Payments
BY DEF LegsOf, Payments

\* A value date is a date.
LEMMA ValueDatesType ==
    ASSUME NEW d \in Deals
    PROVE  ValueDates(d) \in SUBSET Dates
<1>1. d.terms \in Terms /\ d.date \in OptDates
  BY DEF Deals
<1>2. Settle[<<d.terms, d.date>>] \in SUBSET Dates
  BY <1>1, RulesAssumption
<1>3. QED
  BY <1>2 DEF ValueDates

\* Pricing stores the payments of the row's terms and its new date.
LEMMA PricedFacts ==
    ASSUME NEW d \in Deals, NEW b \in Nat, NEW v \in ValueDates(d)
    PROVE  LET n == Priced(d, v, b) IN
           /\ n \in Deals
           /\ n.valid = "VALID"
           /\ n.payments = LegsOf(n.terms, n.date, b)
           /\ n.state = d.state /\ n.solution = d.solution
           /\ n.trader = d.trader /\ n.positioner = d.positioner
<1>1. d.terms \in Terms /\ v \in Dates
  BY ValueDatesType DEF Deals
<1>2. LegsOf(d.terms, v, b) \in SUBSET Payments
  BY <1>1, LegsOfType
<1>3. QED
  BY <1>1, <1>2 DEF Priced, Deals, ValidationStatuses, OptDates

\* A move of the status machine changes the status and nothing else.
LEMMA InStateFacts ==
    ASSUME NEW d \in Deals, NEW s \in DealStates
    PROVE  LET n == InState(d, s) IN
           /\ n \in Deals
           /\ n.state = s
           /\ n.payments = d.payments /\ n.terms = d.terms /\ n.date = d.date
           /\ n.valid = d.valid /\ n.solution = d.solution
           /\ n.trader = d.trader /\ n.positioner = d.positioner
BY DEF InState, Deals

\* A decision names its positioner in the row and in the solution.
LEMMA DecidedFacts ==
    ASSUME NEW d \in Deals, NEW u \in Users, NEW s \in DealStates,
           NEW c \in ApprovalDecisions
    PROVE  LET n == Decided(d, u, s, c) IN
           /\ n \in Deals
           /\ n.state = s /\ n.positioner = u
           /\ n.solution = [decision |-> c, by |-> u]
           /\ n.payments = d.payments /\ n.terms = d.terms /\ n.date = d.date
           /\ n.valid = d.valid /\ n.trader = d.trader
BY DEF Decided, Deals, OptUsers, Solutions

=============================================================================
