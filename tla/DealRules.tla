------------------------------ MODULE DealRules ------------------------------
(***************************************************************************)
(* What the handlers of DealService and ApprovalService demand of a deal   *)
(* and what they make of it.  The operators are functions of one deal, so  *)
(* that DealLifecycle can apply them to the stored deal in a single step   *)
(* and DealRequests to the copy a request has loaded, committed later.     *)
(*                                                                         *)
(* Handlers never read two deals, so one deal is enough.  Money, rates,    *)
(* currencies, the counterparty and the deal type are one opaque value,    *)
(* its terms; the value date is apart because validation overwrites it.    *)
(***************************************************************************)
EXTENDS Naturals

CONSTANTS
    Users,      \* the users of the identity provider
    Role,       \* Role[u]: the role claim of u's token
    Terms,      \* what a trader can agree on, the value date excluded
    Dates,      \* calendar dates
    Settle      \* Settle[t, v]: the dates SettlementService may compute for
                \* terms t and the value_date v, as the calendar changes

NoDate == "no date"
NoUser == "nobody"
NoDecision == "none"

Roles == {"TRADER", "POSITIONER", "AUDITOR", "ADMIN"}
OptDates == Dates \cup {NoDate}
OptUsers == Users \cup {NoUser}

ASSUME RulesAssumption ==
    /\ Role \in [Users -> Roles]
    /\ NoUser \notin Users
    /\ Settle \in [Terms \X OptDates -> SUBSET Dates]

-----------------------------------------------------------------------------
(***************************************************************************)
(* The tables fx_deal, payment and positioner_solution.                    *)
(***************************************************************************)
DealStates == {"DRAFT", "WAITING_FOR_POSITIONER", "APPROVED",
               "REJECTED", "EXECUTED", "CANCELLED"}
ValidationStatuses == {"NOT_VALIDATED", "VALID", "INVALID"}
ApprovalDecisions == {"APPROVE", "RETURN_FOR_EDIT", "REJECT"}

\* The two payments of an exchange: currency in, currency out.
Legs == {"IN", "OUT"}

\* A payment row: the leg, the terms and date it was computed from, and the
\* batch of rows it was inserted with (rows have an identity of their own).
Payments == [leg: Legs, terms: Terms, date: Dates, batch: Nat]

\* The positioner_solution row, or its absence.
NoSolution == [decision |-> NoDecision, by |-> NoUser]
Solutions == [decision: ApprovalDecisions, by: Users] \cup {NoSolution}

Deals == [state: DealStates, valid: ValidationStatuses, terms: Terms,
          date: OptDates, trader: Users, positioner: OptUsers,
          payments: SUBSET Payments, solution: Solutions]

-----------------------------------------------------------------------------
(***************************************************************************)
(* Who may act: the role gate of the route and the checks of the service.  *)
(* A definition with the name of another and a suffix (CanUpdateRejected,  *)
(* UpdatedKeepsVerdict...) is that rule with a slip in it: the properties  *)
(* must notice each one.  Next never uses them.                            *)
(***************************************************************************)
Trades(u) == Role[u] \in {"TRADER", "ADMIN"}
Decides(u) == Role[u] \in {"POSITIONER", "ADMIN"}

RequireTrader(u, d) == Trades(u) /\ (d.trader = u \/ Role[u] = "ADMIN")

\* Not even an administrator edits another trader's deal.
CanUpdateRejected(u, d) ==
    Trades(u) /\ d.state \in {"DRAFT", "REJECTED"} /\ d.trader = u
CanUpdate(u, d) == Trades(u) /\ d.state = "DRAFT" /\ d.trader = u

\* Nothing here asks for a DRAFT: that check comes with the verdict.
CanValidate(u, d) == RequireTrader(u, d)

CanSubmitUnvalidated(u, d) == RequireTrader(u, d) /\ d.state = "DRAFT"
CanSubmit(u, d) == RequireTrader(u, d) /\ d.state = "DRAFT" /\ d.valid = "VALID"

CanApproveOwn(u, d) == Decides(u) /\ d.state = "WAITING_FOR_POSITIONER"
CanApprove(u, d) ==
    Decides(u) /\ d.state = "WAITING_FOR_POSITIONER" /\ d.trader # u
\* Returning and rejecting do not ask who traded the deal.
CanDecide(u, d) == Decides(u) /\ d.state = "WAITING_FOR_POSITIONER"
CanTakeForEdit(u, d) == RequireTrader(u, d) /\ d.state = "REJECTED"
CanCancel(u, d) == RequireTrader(u, d) /\ d.state = "DRAFT"

-----------------------------------------------------------------------------
(***************************************************************************)
(* What becomes of the deal.                                               *)
(***************************************************************************)
NewDeal(u, t, v) ==
    [state |-> "DRAFT", valid |-> "NOT_VALIDATED", terms |-> t, date |-> v,
     trader |-> u, positioner |-> NoUser, payments |-> {},
     solution |-> NoSolution]

UpdatedKeepsPayments(d, t, v) ==
    [d EXCEPT !.terms = t, !.date = v, !.valid = "NOT_VALIDATED"]
UpdatedKeepsVerdict(d, t, v) ==
    [d EXCEPT !.terms = t, !.date = v, !.payments = {}]
Updated(d, t, v) ==
    [d EXCEPT !.terms = t, !.date = v, !.valid = "NOT_VALIDATED",
              !.payments = {}]

\* The payments PaymentCalculator and NostroAssignmentService make.
LegsOf(t, v, b) == [leg: Legs, terms: {t}, date: {v}, batch: {b}]

\* Every verdict but the calendar's: the stored payments stay.
Invalid(d) == [d EXCEPT !.valid = "INVALID"]

\* A deal that is not DRAFT always has an issue; a ValueError instead of a
\* date leaves the deal alone.
ValueDates(d) == IF d.state = "DRAFT" THEN Settle[<<d.terms, d.date>>] ELSE {}

PricedWithRowDate(d, v, b) ==
    [d EXCEPT !.date = v, !.valid = "VALID",
              !.payments = LegsOf(d.terms, d.date, b)]
PricedFirstLeg(d, v, b) ==
    [d EXCEPT !.date = v, !.valid = "VALID",
              !.payments = {p \in LegsOf(d.terms, v, b) : p.leg = "IN"}]
Priced(d, v, b) ==
    [d EXCEPT !.date = v, !.valid = "VALID", !.payments = LegsOf(d.terms, v, b)]

InState(d, s) == [d EXCEPT !.state = s]

\* A positioner's decision, with the solution row inserted or updated.
DecidedOnRowOnly(d, u, s, decision) ==
    [d EXCEPT !.state = s, !.positioner = u]
Decided(d, u, s, decision) ==
    [d EXCEPT !.state = s, !.positioner = u,
              !.solution = [decision |-> decision, by |-> u]]

=============================================================================
