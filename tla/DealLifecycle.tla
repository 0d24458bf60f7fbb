---------------------------- MODULE DealLifecycle ----------------------------
(***************************************************************************)
(* One deal from create_deal on, its handlers run one after the other:     *)
(* every handler is one step, from the SELECT to the COMMIT.  A request    *)
(* refused with 403, 404 or 422 that writes nothing is no step, and so is  *)
(* one rolled back, unless it has told the position system something.      *)
(*                                                                         *)
(* Reference data and limits change under the service's feet: what the     *)
(* checks of validate_deal and submit_deal say is open at every call.      *)
(***************************************************************************)
EXTENDS DealRules

VARIABLES
    deal,      \* the deal's row, its payments and its positioner_solution
    audited,   \* the newest status in the audit log, and the one before
    booked     \* the payments the position system has accepted

vars == <<deal, audited, booked>>

\* Rows are replaced as a whole: in this module their identity is moot.
OneBatch == 0

Init ==
    /\ \E u \in Users, t \in Terms, v \in OptDates :
          Trades(u) /\ deal = NewDeal(u, t, v)
    /\ audited = [old |-> "NONE", new |-> "DRAFT"]
    /\ booked = {}

\* The STATUS_CHANGE entry of the audit log.
StatusChangeReadLate(old, new) == audited' = [old |-> new, new |-> new]
StatusChange(old, new) == audited' = [old |-> old, new |-> new]

-----------------------------------------------------------------------------
\* update_deal
Update(u) ==
    /\ CanUpdate(u, deal)
    /\ \E t \in Terms, v \in OptDates : deal' = Updated(deal, t, v)
    /\ UNCHANGED <<audited, booked>>

\* validate_deal: some check finds an issue, or the deal is priced.
Validate(u) ==
    /\ CanValidate(u, deal)
    /\ \/ deal' = Invalid(deal)
       \/ \E v \in ValueDates(deal) : deal' = Priced(deal, v, OneBatch)
    /\ UNCHANGED <<audited, booked>>

\* submit_deal: the limits are checked once more.
Submit(u) ==
    /\ CanSubmit(u, deal)
    /\ \/ deal' = Invalid(deal) /\ UNCHANGED audited
       \/ /\ deal' = InState(deal, "WAITING_FOR_POSITIONER")
          /\ StatusChange(deal.state, "WAITING_FOR_POSITIONER")
    /\ UNCHANGED booked

\* send_deal succeeds when the position system accepts every payment.
SentAny(accepted) == accepted # {}
Sent(accepted) == accepted = deal.payments

\* approve_deal: the payments are sent before anything is written.  Any of
\* them may have been booked when the send fails (the deal is stored as
\* APPROVED) or when the request is lost (nothing is stored).
Approve(u) ==
    /\ CanApprove(u, deal)
    /\ \E accepted \in SUBSET deal.payments :
          /\ booked' = booked \cup accepted
          /\ \/ /\ Sent(accepted)
                /\ deal' = Decided(deal, u, "EXECUTED", "APPROVE")
                /\ StatusChange(deal.state, "EXECUTED")
             \/ /\ deal' = Decided(deal, u, "APPROVED", "APPROVE")
                /\ UNCHANGED audited
             \/ UNCHANGED <<deal, audited>>

\* return_deal and reject_deal
Decide(u) ==
    /\ CanDecide(u, deal)
    /\ \E decision \in {"RETURN_FOR_EDIT", "REJECT"} :
          deal' = Decided(deal, u, "REJECTED", decision)
    /\ StatusChange(deal.state, "REJECTED")
    /\ UNCHANGED booked

\* take_for_edit
TakeForEdit(u) ==
    /\ CanTakeForEdit(u, deal)
    /\ deal' = InState(deal, "DRAFT")
    /\ StatusChange(deal.state, "DRAFT")
    /\ UNCHANGED booked

\* cancel_deal
Cancel(u) ==
    /\ CanCancel(u, deal)
    /\ deal' = InState(deal, "CANCELLED")
    /\ StatusChange(deal.state, "CANCELLED")
    /\ UNCHANGED booked

Next ==
    \E u \in Users :
        \/ Update(u) \/ Validate(u) \/ Submit(u) \/ Approve(u)
        \/ Decide(u) \/ TakeForEdit(u) \/ Cancel(u)

Spec == Init /\ [][Next]_vars

\* Users never stop: whatever some user keeps being able to do is done.
FairSpec ==
    /\ Spec
    /\ \A u \in Users : /\ SF_vars(Submit(u))
                        /\ SF_vars(Approve(u))
                        /\ SF_vars(Decide(u))
                        /\ SF_vars(TakeForEdit(u))

-----------------------------------------------------------------------------
(***************************************************************************)
(* Properties                                                              *)
(***************************************************************************)
\* Type correctness of the tables, the audit trail and the bookings.
TypeOK ==
    /\ deal \in Deals
    /\ audited \in [old: DealStates \cup {"NONE"}, new: DealStates]
    /\ booked \in SUBSET Payments

\* The payments the current terms and value date call for.
OwnPayments == LegsOf(deal.terms, deal.date, OneBatch)

\* Stored payments never outlive the terms they were computed from, however
\* edits, failed validations and take-for-edit follow on one another (the
\* exposure report sums them without looking at the validation status).
PaymentsCurrent == deal.payments \in {{}, OwnPayments}

\* A VALID deal has both its payments: a validation that fails half-way or
\* on the calendar (which leaves the old verdict) cannot leave VALID behind
\* without them.
ValidIsPriced == deal.valid = "VALID" => deal.payments = OwnPayments

\* From the queue on a deal has both payments of its terms, whatever is
\* validated or returned on the way: send_deal never finds "nothing to send".
QueuedIsPriced ==
    deal.state \notin {"DRAFT", "CANCELLED"} => deal.payments = OwnPayments

\* EXECUTED: the position system has accepted every payment of the deal as
\* it now stands, not those of an earlier round.
ExecutedDelivered == deal.state = "EXECUTED" => deal.payments \subseteq booked

FourEyes == deal.positioner \notin {NoUser, deal.trader}

\* The row and the positioner_solution tell the same story of the last
\* decision over any number of rounds, and an approval is by someone else
\* than the trader.
DecisionOnRecord ==
    /\ deal.state = "REJECTED" =>
          deal.solution \in [decision: {"RETURN_FOR_EDIT", "REJECT"},
                             by: {deal.positioner}]
    /\ deal.state \in {"APPROVED", "EXECUTED"} =>
          /\ FourEyes
          /\ deal.solution = [decision |-> "APPROVE", by |-> deal.positioner]

\* Every STATUS_CHANGE starts where the one before it ended, though each
\* handler reads the old status by hand: no entry contradicts another.  The
\* trail is not complete: approve_deal writes no entry for APPROVED, neither
\* when the deal stays there nor on its way to EXECUTED.
AuditUnbroken == [][audited' # audited => audited'.old = audited.new]_vars

\* The abstract promise: the mapping forgets verdicts, the audit trail and
\* which positioner decided.
Promise == INSTANCE DealStatus WITH
    status    <- deal.state,
    content   <- <<deal.terms, deal.date, deal.payments>>,
    delivered <- deal.payments \subseteq booked,
    fourEyes  <- FourEyes

\* The handlers keep the promise: status machine, content frozen outside
\* DRAFT, delivery before execution, four eyes.
KeepsPromise == Promise!Spec

-----------------------------------------------------------------------------
(***************************************************************************)
(* What documents and messages say, and the code does not do.              *)
(***************************************************************************)
\* "In case of an integration error the deal stays APPROVED; the resend is
\* initiated by the administrator" (user guide): it is not stuck there.
ResendPossible == deal.state = "APPROVED" ~> deal.state # "APPROVED"

=============================================================================
