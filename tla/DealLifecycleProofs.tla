------------------------- MODULE DealLifecycleProofs -------------------------
(***************************************************************************)
(* Proofs about DealLifecycle, for every set of users, roles, terms and    *)
(* dates and every settlement rule.                                        *)
(***************************************************************************)
EXTENDS DealLifecycle, DealRulesProofs, TLAPS

-----------------------------------------------------------------------------
(***************************************************************************)
(* The inductive invariant.  ValidIsPriced alone is not inductive: a       *)
(* validation that only changes the verdict needs PaymentsCurrent, and     *)
(* the queue needs to know what a VALID draft holds; ExecutedDelivered     *)
(* needs nothing more, because no handler touches an executed deal's       *)
(* payments.  AuditUnbroken needs to know where the trail ends (TrailEnd). *)
(***************************************************************************)
\* The newest entry names the status of the deal, except that a deal left in
\* APPROVED has none of its own; no handler that logs starts from there.
TrailEnd == audited.new = IF deal.state = "APPROVED" THEN "WAITING_FOR_POSITIONER"
                                                     ELSE deal.state

IInv == /\ TypeOK
        /\ PaymentsCurrent
        /\ ValidIsPriced
        /\ QueuedIsPriced
        /\ ExecutedDelivered
        /\ DecisionOnRecord
        /\ TrailEnd

\* The part of IInv that looks at the deal and the bookings alone.
Conforms == /\ PaymentsCurrent /\ ValidIsPriced /\ QueuedIsPriced
            /\ ExecutedDelivered /\ DecisionOnRecord

LEMMA InitIInv == Init => IInv
<1> SUFFICES ASSUME Init PROVE IInv
  OBVIOUS
<1>1. PICK u \in Users, t \in Terms, v \in OptDates : deal = NewDeal(u, t, v)
  BY DEF Init
<1>2. /\ deal \in Deals
      /\ deal.state = "DRAFT" /\ deal.valid = "NOT_VALIDATED"
      /\ deal.payments = {}
  BY <1>1, NewDealFacts
<1>3. TypeOK
  BY <1>2 DEF TypeOK, Init, DealStates
<1>4. Conforms
  BY <1>2 DEF Conforms, PaymentsCurrent, OwnPayments, ValidIsPriced,
         QueuedIsPriced, ExecutedDelivered, DecisionOnRecord, FourEyes
<1>5. TrailEnd
  BY <1>2 DEF TrailEnd, Init
<1>6. QED
  BY <1>3, <1>4, <1>5 DEF IInv, Conforms

LEMMA UpdateStep ==
    ASSUME IInv, NEW u \in Users, Update(u)
    PROVE  IInv'
<1>1. PICK t \in Terms, v \in OptDates : deal' = Updated(deal, t, v)
  BY DEF Update
<1>2. /\ deal.state = "DRAFT"
      /\ UNCHANGED <<audited, booked>>
  BY DEF Update, CanUpdate
<1>3. deal \in Deals
  BY DEF IInv, TypeOK
<1>4. /\ deal' \in Deals
      /\ deal'.valid = "NOT_VALIDATED" /\ deal'.payments = {}
      /\ deal'.state = "DRAFT"
  BY <1>1, <1>2, <1>3, UpdatedFacts
<1>5. TypeOK'
  BY <1>2, <1>4 DEF IInv, TypeOK
<1>6. Conforms'
  BY <1>4 DEF Conforms, PaymentsCurrent, OwnPayments, ValidIsPriced,
         QueuedIsPriced, ExecutedDelivered, DecisionOnRecord, FourEyes
<1>7. TrailEnd'
  BY <1>2, <1>4 DEF IInv, TrailEnd
<1>8. QED
  BY <1>5, <1>6, <1>7 DEF IInv, Conforms

\* A failed check, in validate_deal or in submit_deal, whatever the status.
LEMMA InvalidStep ==
    ASSUME IInv, deal' = Invalid(deal), UNCHANGED <<audited, booked>>
    PROVE  IInv'
<1>1. deal \in Deals
  BY DEF IInv, TypeOK
<1>2. /\ deal' \in Deals
      /\ deal'.valid = "INVALID"
      /\ deal'.payments = deal.payments
      /\ deal'.terms = deal.terms /\ deal'.date = deal.date
      /\ deal'.state = deal.state /\ deal'.solution = deal.solution
      /\ deal'.trader = deal.trader /\ deal'.positioner = deal.positioner
  BY <1>1, InvalidFacts
<1>3. TypeOK'
  BY <1>2 DEF IInv, TypeOK
<1>4. Conforms'
  BY <1>2 DEF IInv, Conforms, PaymentsCurrent, OwnPayments, ValidIsPriced,
         QueuedIsPriced, ExecutedDelivered, DecisionOnRecord, FourEyes
<1>5. TrailEnd'
  BY <1>2 DEF IInv, TrailEnd
<1>6. QED
  BY <1>3, <1>4, <1>5 DEF IInv, Conforms

LEMMA ValidateStep ==
    ASSUME IInv, NEW u \in Users, Validate(u)
    PROVE  IInv'
<1>1. CASE deal' = Invalid(deal)
  BY <1>1, InvalidStep DEF Validate
<1>2. ASSUME NEW v \in ValueDates(deal), deal' = Priced(deal, v, OneBatch)
      PROVE  IInv'
  <2>1. deal \in Deals /\ OneBatch \in Nat /\ UNCHANGED <<audited, booked>>
    BY DEF IInv, TypeOK, OneBatch, Validate
  <2>2. /\ deal' \in Deals
        /\ deal'.valid = "VALID"
        /\ deal'.payments = LegsOf(deal'.terms, deal'.date, OneBatch)
        /\ deal'.state = "DRAFT" /\ deal.state = "DRAFT"
    BY <1>2, <2>1, PricedFacts DEF ValueDates
  <2>3. TypeOK'
    BY <2>1, <2>2 DEF IInv, TypeOK
  <2>4. Conforms'
    BY <2>2 DEF Conforms, PaymentsCurrent, OwnPayments, ValidIsPriced,
         QueuedIsPriced, ExecutedDelivered, DecisionOnRecord, FourEyes
  <2>5. TrailEnd'
    BY <2>1, <2>2 DEF IInv, TrailEnd
  <2>6. QED
    BY <2>3, <2>4, <2>5 DEF IInv, Conforms
<1>3. QED
  BY <1>1, <1>2 DEF Validate

\* A logged move of the status machine that needs no positioner: submit,
\* take for edit, cancel.
LEMMA MoveStep ==
    ASSUME IInv, NEW s \in {"DRAFT", "WAITING_FOR_POSITIONER", "CANCELLED"},
           deal' = InState(deal, s), StatusChange(deal.state, s),
           UNCHANGED booked,
           s = "WAITING_FOR_POSITIONER" => deal.valid = "VALID"
    PROVE  IInv'
<1>1. deal \in Deals /\ s \in DealStates
  BY DEF IInv, TypeOK, DealStates
<1>2. /\ deal' \in Deals
      /\ deal'.state = s
      /\ deal'.payments = deal.payments
      /\ deal'.terms = deal.terms /\ deal'.date = deal.date
      /\ deal'.valid = deal.valid
  BY <1>1, InStateFacts
<1>3. audited' = [old |-> deal.state, new |-> s]
  BY DEF StatusChange
<1>4. TypeOK'
  BY <1>1, <1>2, <1>3 DEF IInv, TypeOK, Deals
<1>5. Conforms'
  BY <1>2 DEF IInv, Conforms, PaymentsCurrent, OwnPayments, ValidIsPriced,
         QueuedIsPriced, ExecutedDelivered, DecisionOnRecord, FourEyes
<1>6. TrailEnd'
  BY <1>2, <1>3 DEF TrailEnd
<1>7. QED
  BY <1>4, <1>5, <1>6 DEF IInv, Conforms

LEMMA SubmitStep ==
    ASSUME IInv, NEW u \in Users, Submit(u)
    PROVE  IInv'
<1>1. CASE deal' = Invalid(deal) /\ UNCHANGED audited
  BY <1>1, InvalidStep DEF Submit
<1>2. CASE /\ deal' = InState(deal, "WAITING_FOR_POSITIONER")
           /\ StatusChange(deal.state, "WAITING_FOR_POSITIONER")
  BY <1>2, MoveStep DEF Submit, CanSubmit
<1>3. QED
  BY <1>1, <1>2 DEF Submit

LEMMA TakeForEditStep ==
    ASSUME IInv, NEW u \in Users, TakeForEdit(u)
    PROVE  IInv'
BY MoveStep DEF TakeForEdit

LEMMA CancelStep ==
    ASSUME IInv, NEW u \in Users, Cancel(u)
    PROVE  IInv'
BY MoveStep DEF Cancel

LEMMA DecideStep ==
    ASSUME IInv, NEW u \in Users, Decide(u)
    PROVE  IInv'
<1>1. PICK c \in {"RETURN_FOR_EDIT", "REJECT"} :
         deal' = Decided(deal, u, "REJECTED", c)
  BY DEF Decide
<1>2. /\ deal \in Deals
      /\ deal.state = "WAITING_FOR_POSITIONER"
      /\ audited' = [old |-> deal.state, new |-> "REJECTED"]
      /\ booked' = booked
  BY DEF IInv, TypeOK, Decide, CanDecide, StatusChange
<1>3. /\ deal' \in Deals
      /\ deal'.state = "REJECTED" /\ deal'.positioner = u
      /\ deal'.solution = [decision |-> c, by |-> u]
      /\ deal'.payments = deal.payments
      /\ deal'.terms = deal.terms /\ deal'.date = deal.date
      /\ deal'.valid = deal.valid
  <2>1. c \in ApprovalDecisions /\ "REJECTED" \in DealStates
    BY DEF ApprovalDecisions, DealStates
  <2>2. QED
    BY <1>1, <1>2, <2>1, DecidedFacts
<1>4. TypeOK'
  BY <1>2, <1>3 DEF IInv, TypeOK, DealStates
<1>5. Conforms'
  BY <1>2, <1>3 DEF IInv, Conforms, PaymentsCurrent, OwnPayments, ValidIsPriced,
         QueuedIsPriced, ExecutedDelivered, DecisionOnRecord, FourEyes
<1>6. TrailEnd'
  BY <1>2, <1>3 DEF TrailEnd
<1>7. QED
  BY <1>4, <1>5, <1>6 DEF IInv, Conforms

LEMMA ApproveStep ==
    ASSUME IInv, NEW u \in Users, Approve(u)
    PROVE  IInv'
<1>1. /\ deal \in Deals /\ u # NoUser /\ u # deal.trader
      /\ deal.state = "WAITING_FOR_POSITIONER"
      /\ deal.payments \in SUBSET Payments
  BY RulesAssumption DEF IInv, TypeOK, Deals, Approve, CanApprove
<1>2. ASSUME NEW s \in {"APPROVED", "EXECUTED"},
             deal' = Decided(deal, u, s, "APPROVE"),
             s = "EXECUTED" => deal.payments \subseteq booked'
      PROVE  deal' \in Deals /\ deal'.state = s /\ Conforms'
  <2>1. /\ deal' \in Deals
        /\ deal'.state = s /\ deal'.positioner = u
        /\ deal'.solution = [decision |-> "APPROVE", by |-> u]
        /\ deal'.payments = deal.payments
        /\ deal'.terms = deal.terms /\ deal'.date = deal.date
        /\ deal'.valid = deal.valid /\ deal'.trader = deal.trader
    <3>1. s \in DealStates /\ "APPROVE" \in ApprovalDecisions
      BY DEF DealStates, ApprovalDecisions
    <3>2. QED
      BY <1>1, <1>2, <3>1, DecidedFacts
  <2>2. Conforms'
    BY <1>1, <1>2, <2>1 DEF IInv, Conforms, PaymentsCurrent, OwnPayments, ValidIsPriced,
         QueuedIsPriced, ExecutedDelivered, DecisionOnRecord, FourEyes
  <2>3. QED
    BY <2>1, <2>2
<1>3. PICK accepted \in SUBSET deal.payments :
         /\ booked' = booked \cup accepted
         /\ \/ /\ Sent(accepted)
               /\ deal' = Decided(deal, u, "EXECUTED", "APPROVE")
               /\ StatusChange(deal.state, "EXECUTED")
            \/ /\ deal' = Decided(deal, u, "APPROVED", "APPROVE")
               /\ UNCHANGED audited
            \/ UNCHANGED <<deal, audited>>
  BY DEF Approve
<1>4. booked' \in SUBSET Payments /\ booked \subseteq booked'
  BY <1>1, <1>3 DEF IInv, TypeOK
<1>5. CASE /\ Sent(accepted)
           /\ deal' = Decided(deal, u, "EXECUTED", "APPROVE")
           /\ StatusChange(deal.state, "EXECUTED")
  <2>1. deal.payments \subseteq booked'
    BY <1>3, <1>5 DEF Sent
  <2>2. deal' \in Deals /\ deal'.state = "EXECUTED" /\ Conforms'
    BY <1>2, <1>5, <2>1
  <2>3. audited' = [old |-> "WAITING_FOR_POSITIONER", new |-> "EXECUTED"]
    BY <1>1, <1>5 DEF StatusChange
  <2>4. TypeOK' /\ TrailEnd'
    BY <1>4, <2>2, <2>3 DEF TypeOK, DealStates, TrailEnd
  <2>5. QED
    BY <2>2, <2>4 DEF IInv, Conforms
<1>6. CASE deal' = Decided(deal, u, "APPROVED", "APPROVE") /\ UNCHANGED audited
  <2>1. deal' \in Deals /\ deal'.state = "APPROVED" /\ Conforms'
    BY <1>2, <1>6
  <2>2. TypeOK' /\ TrailEnd'
    BY <1>1, <1>4, <1>6, <2>1 DEF IInv, TypeOK, TrailEnd
  <2>3. QED
    BY <2>1, <2>2 DEF IInv, Conforms
<1>7. CASE UNCHANGED <<deal, audited>>
  BY <1>4, <1>7
  DEF IInv, TypeOK, TrailEnd, PaymentsCurrent, OwnPayments,
      ValidIsPriced, QueuedIsPriced, ExecutedDelivered, DecisionOnRecord,
      FourEyes
<1>8. QED
  BY <1>3, <1>5, <1>6, <1>7

-----------------------------------------------------------------------------
LEMMA NextIInv == IInv /\ [Next]_vars => IInv'
<1> SUFFICES ASSUME IInv, [Next]_vars PROVE IInv'
  OBVIOUS
<1>1. CASE UNCHANGED vars
  BY <1>1 DEF vars, IInv, TypeOK, PaymentsCurrent, OwnPayments, ValidIsPriced,
         QueuedIsPriced, ExecutedDelivered, DecisionOnRecord, FourEyes,
         TrailEnd
<1>2. ASSUME NEW u \in Users,
             \/ Update(u) \/ Validate(u) \/ Submit(u) \/ Approve(u)
             \/ Decide(u) \/ TakeForEdit(u) \/ Cancel(u)
      PROVE  IInv'
  BY <1>2, UpdateStep, ValidateStep, SubmitStep, ApproveStep, DecideStep,
     TakeForEditStep, CancelStep
<1>3. QED
  BY <1>1, <1>2 DEF Next

\* The tables hold what their columns may hold; the deal is priced, delivered
\* and decided as its status says; the audit log names the status.
THEOREM Invariance == Spec => []IInv
BY InitIInv, NextIInv, PTL DEF Spec

\* Type correctness.
THEOREM TypeCorrect == Spec => []TypeOK
<1>1. IInv => TypeOK
  BY DEF IInv
<1>2. QED
  BY <1>1, Invariance, PTL

\* Stored payments are those of the current terms and value date, or none: an
\* edit, a failed validation and take-for-edit leave no others behind.
THEOREM PaymentsFollowTerms == Spec => []PaymentsCurrent
<1>1. IInv => PaymentsCurrent
  BY DEF IInv
<1>2. QED
  BY <1>1, Invariance, PTL

\* A VALID deal has both its payments, whatever validation failed before.
THEOREM ValidHasPayments == Spec => []ValidIsPriced
<1>1. IInv => ValidIsPriced
  BY DEF IInv
<1>2. QED
  BY <1>1, Invariance, PTL

\* From the queue on a deal has both payments of its own terms: send_deal
\* never finds nothing to send.
THEOREM QueueHasPayments == Spec => []QueuedIsPriced
<1>1. IInv => QueuedIsPriced
  BY DEF IInv
<1>2. QED
  BY <1>1, Invariance, PTL

\* An executed deal's payments are all with the position system.
THEOREM Delivery == Spec => []ExecutedDelivered
<1>1. IInv => ExecutedDelivered
  BY DEF IInv
<1>2. QED
  BY <1>1, Invariance, PTL

\* Row and solution agree, and nobody approves a deal of their own.
THEOREM FourEyesPrinciple == Spec => []DecisionOnRecord
<1>1. IInv => DecisionOnRecord
  BY DEF IInv
<1>2. QED
  BY <1>1, Invariance, PTL

\* The audit trail has no gap: STATUS_CHANGE entries start where the one
\* before ended, although approve_deal passes through APPROVED unlogged.
THEOREM AuditTrail == Spec => AuditUnbroken
<1>1. IInv /\ [Next]_vars => [audited' # audited => audited'.old = audited.new]_vars
  <2> SUFFICES ASSUME IInv, NEW u \in Users, audited' # audited,
                      \/ Update(u) \/ Validate(u) \/ Submit(u) \/ Approve(u)
                      \/ Decide(u) \/ TakeForEdit(u) \/ Cancel(u)
               PROVE  audited'.old = audited.new
    BY DEF Next, vars
  <2>1. deal.state # "APPROVED" => audited.new = deal.state
    BY DEF IInv, TrailEnd
  <2>2. /\ deal.state # "APPROVED"
        /\ \E s \in DealStates : audited' = [old |-> deal.state, new |-> s]
    BY DEF Update, Validate, Submit, Approve, Decide, TakeForEdit, Cancel,
           CanSubmit, CanApprove, CanDecide, CanTakeForEdit, CanCancel,
           StatusChange, DealStates
  <2>3. QED
    BY <2>1, <2>2
<1>2. QED
  BY <1>1, Invariance, PTL DEF Spec, AuditUnbroken

-----------------------------------------------------------------------------
(***************************************************************************)
(* The handlers implement DealStatus: each step of a handler is a step of  *)
(* the abstract machine or leaves it alone.                                *)
(***************************************************************************)
LEMMA PromiseInit == Init => Promise!Init
<1> SUFFICES ASSUME Init PROVE Promise!Init
  OBVIOUS
<1>1. PICK u \in Users, t \in Terms, v \in OptDates : deal = NewDeal(u, t, v)
  BY DEF Init
<1>2. deal.state = "DRAFT" /\ deal.positioner = NoUser
  BY <1>1, NewDealFacts
<1>3. QED
  BY <1>2 DEF Promise!Init, FourEyes

LEMMA PromiseStep ==
    ASSUME IInv, NEW u \in Users,
           \/ Update(u) \/ Validate(u) \/ Submit(u) \/ Approve(u)
           \/ Decide(u) \/ TakeForEdit(u) \/ Cancel(u)
    PROVE  Promise!Next \/ UNCHANGED Promise!vars
<1>1. deal \in Deals
  BY DEF IInv, TypeOK
<1>2. ASSUME NEW s \in DealStates, NEW c \in ApprovalDecisions,
             deal' = Decided(deal, u, s, c)
      PROVE  /\ deal'.state = s
             /\ UNCHANGED <<deal.terms, deal.date, deal.payments, deal.trader>>
             /\ deal'.positioner = u
  <2>1. /\ deal'.state = s /\ deal'.positioner = u
        /\ deal'.payments = deal.payments
        /\ deal'.terms = deal.terms /\ deal'.date = deal.date
        /\ deal'.trader = deal.trader
        /\ deal'.solution = [decision |-> c, by |-> u]
    BY <1>1, <1>2, DecidedFacts
  <2>2. QED
    BY <2>1
<1> USE DEF Promise!Next, Promise!vars, Promise!Move, FourEyes
<1>3. ASSUME deal' = Invalid(deal), UNCHANGED booked
      PROVE  UNCHANGED Promise!vars
  BY <1>1, <1>3, InvalidFacts
<1>4. CASE Update(u)
  <2>1. PICK t \in Terms, v \in OptDates : deal' = Updated(deal, t, v)
    BY <1>4 DEF Update
  <2>2. Promise!Prepare
    BY <1>1, <1>4, <2>1, UpdatedFacts DEF Promise!Prepare, Update, CanUpdate
  <2>3. QED
    BY <2>2
<1>5. CASE Validate(u)
  <2>1. ASSUME NEW v \in ValueDates(deal), deal' = Priced(deal, v, OneBatch)
        PROVE  [Promise!Next]_(Promise!vars)
    <3>1. OneBatch \in Nat
      BY DEF OneBatch
    <3>2. /\ deal'.state = "DRAFT" /\ deal.state = "DRAFT"
          /\ deal'.trader = deal.trader /\ deal'.positioner = deal.positioner
      BY <1>1, <2>1, <3>1, PricedFacts DEF ValueDates
    <3>3. Promise!Prepare
      BY <3>2 DEF Promise!Prepare
    <3>4. QED
      BY <3>3
  <2>2. QED
    BY <1>3, <1>5, <2>1 DEF Validate
<1>6. ASSUME NEW s \in DealStates, deal' = InState(deal, s), UNCHANGED booked
      PROVE  /\ deal'.state = s
             /\ UNCHANGED <<deal.terms, deal.date, deal.payments, deal.trader,
                            deal.positioner>>
  BY <1>1, <1>6, InStateFacts
<1>7. CASE Submit(u)
  <2>1. CASE deal' = InState(deal, "WAITING_FOR_POSITIONER")
    <3>1. Promise!Queue
      BY <1>6, <1>7, <2>1 DEF Promise!Queue, Submit, CanSubmit, DealStates
    <3>2. QED
      BY <3>1
  <2>2. QED
    BY <1>3, <1>7, <2>1 DEF Submit
<1>8. CASE TakeForEdit(u)
  <2>1. Promise!Reopen
    BY <1>6, <1>8 DEF Promise!Reopen, TakeForEdit, CanTakeForEdit, DealStates
  <2>2. QED
    BY <2>1
<1>9. CASE Cancel(u)
  <2>1. Promise!Cancel
    BY <1>6, <1>9 DEF Promise!Cancel, Cancel, CanCancel, DealStates
  <2>2. QED
    BY <2>1
<1>10. CASE Decide(u)
  <2>1. PICK c \in {"RETURN_FOR_EDIT", "REJECT"} :
           deal' = Decided(deal, u, "REJECTED", c)
    BY <1>10 DEF Decide
  <2>2. "REJECTED" \in DealStates /\ c \in ApprovalDecisions
    BY DEF DealStates, ApprovalDecisions
  <2>3. Promise!SendBack
    BY <1>2, <1>10, <2>1, <2>2 DEF Promise!SendBack, Decide, CanDecide
  <2>4. QED
    BY <2>3
<1>11. CASE Approve(u)
  <2>1. /\ deal.state = "WAITING_FOR_POSITIONER" /\ u # deal.trader
        /\ u # NoUser
        /\ {"APPROVED", "EXECUTED"} \subseteq DealStates
        /\ "APPROVE" \in ApprovalDecisions
        /\ booked \subseteq booked'
    BY <1>11, RulesAssumption
    DEF Approve, CanApprove, DealStates, ApprovalDecisions
  <2>2. CASE deal' = Decided(deal, u, "EXECUTED", "APPROVE")
             /\ deal.payments \subseteq booked'
    <3>1. Promise!Execute
      BY <1>2, <2>1, <2>2 DEF Promise!Execute
    <3>2. QED
      BY <3>1
  <2>3. CASE deal' = Decided(deal, u, "APPROVED", "APPROVE")
    <3>1. Promise!Approve
      BY <1>2, <2>1, <2>3 DEF Promise!Approve
    <3>2. QED
      BY <3>1
  <2>4. CASE UNCHANGED deal
    <3>1. Promise!Attempt
      BY <2>1, <2>4 DEF Promise!Attempt
    <3>2. QED
      BY <3>1
  <2>5. QED
    BY <1>11, <2>2, <2>3, <2>4 DEF Approve, Sent
<1>12. QED
  BY <1>4, <1>5, <1>7, <1>8, <1>9, <1>10, <1>11

\* The service keeps its promise: whatever requests arrive one after the
\* other, the deal behaves as DealStatus says.
THEOREM Refinement == Spec => KeepsPromise
<1>1. IInv /\ [Next]_vars => [Promise!Next]_Promise!vars
  <2> SUFFICES ASSUME IInv, [Next]_vars
               PROVE  Promise!Next \/ UNCHANGED Promise!vars
    OBVIOUS
  <2>1. CASE UNCHANGED vars
    BY <2>1 DEF vars, Promise!vars, FourEyes
  <2>2. CASE Next
    BY <2>2, PromiseStep DEF Next
  <2>3. QED
    BY <2>1, <2>2
<1>2. QED
  BY <1>1, PromiseInit, Invariance, PTL DEF Spec, KeepsPromise, Promise!Spec

=============================================================================
