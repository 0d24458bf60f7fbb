-------------------------- MODULE PositionsOverview --------------------------
(***************************************************************************)
(* The positions overview of a positioner beside the requests on a deal:   *)
(* one SELECT sums the payments of open deals (the exposure), then the     *)
(* position system is asked for what it holds; the projected position is   *)
(* the sum of both.  Nothing keeps the deal still in between.              *)
(*                                                                         *)
(* The exposure has no date, but the position system is asked for one date *)
(* and payments reach it with their value date, which as a rule is later:  *)
(* what its report of a day includes is its own affair (Due).              *)
(*                                                                         *)
(* Amounts are left out: the overview is the set of payments it has        *)
(* counted on either side.  As in DealRules, a name with a suffix is the   *)
(* definition with a slip.                                                 *)
(***************************************************************************)
EXTENDS DealRequests

CONSTANTS
    Days,    \* the dates a positioner may ask for
    Due      \* Due[day]: value dates of the payments in the positions of day

ASSUME OverviewAssumption == Due \in [Days -> SUBSET Dates]

VARIABLE view    \* the overview in progress or just answered

Open == {"DRAFT", "WAITING_FOR_POSITIONER", "APPROVED"}
NoView == [reads |-> 0, day |-> NoDate, standing |-> {}, counted |-> {}]

\* The payments that somebody who knows the database at this moment expects
\* to see: those of a deal that is neither rejected nor cancelled.
Standing == IF deal.state \in Open \cup {"EXECUTED"} THEN deal.payments ELSE {}

\* _open_exposure_by_currency
Exposure == IF deal.state \in Open THEN deal.payments ELSE {}

\* GET /integration/reports/positions?date=...: of what the position system has
\* booked, the part that has an effect on that day.
Positions(day) == {p \in {b.payment : b \in bookings} : p.date \in Due[day]}

OrderReversed == <<"positions", "exposure">>
Order == <<"exposure", "positions">>

\* The next of the two reads.  The day of the request plays no part before the
\* position system is asked, and is chosen there.
Read ==
    /\ view.reads < 2
    /\ LET source == Order[view.reads + 1] IN
       \E day \in IF source = "positions" THEN Days ELSE {view.day} :
          view' = [reads    |-> view.reads + 1,
                   day      |-> day,
                   standing |-> IF view.reads = 0 THEN Standing
                                ELSE view.standing \cap Standing,
                   counted  |-> view.counted \cup
                                (IF source = "exposure" THEN Exposure
                                                        ELSE Positions(day))]
    /\ UNCHANGED vars

\* The answer has been delivered, or it is a 502: the position system could
\* not be asked.
Close ==
    /\ view # NoView
    /\ view' = NoView
    /\ UNCHANGED vars

OverviewInit == Init /\ view = NoView

\* Nothing else needs to happen while an answer is being looked at.
OverviewNext ==
    \/ view.reads < 2 /\ Next /\ UNCHANGED view
    \/ Read \/ Close

OverviewSpec == OverviewInit /\ [][OverviewNext]_<<vars, view>>

-----------------------------------------------------------------------------
\* Whatever is approved, executed, returned or lost while the overview is
\* made, a payment that stood from its first read to its last is in the
\* exposure or in the positions (or, while it is being sent, in both): the
\* exposure is read first, and payments are sent before their deal is
\* EXECUTED and leaves it.  For requests one after the other; and only for
\* payments that the position system counts on the day asked for: one of an
\* executed deal with a later value date may be on neither side.
NothingMissed ==
    view.reads = 2 =>
        \A p \in view.standing : p.date \in Due[view.day] => p \in view.counted

=============================================================================
