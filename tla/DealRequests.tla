---------------------------- MODULE DealRequests ----------------------------
(***************************************************************************)
(* The handlers of one deal as the database sees them: several requests at *)
(* once, each with a session of its own.  A request SELECTs the deal's     *)
(* row, then its payments, then its solution; checks and computes on that  *)
(* copy; an approval calls the position system payment by payment; then    *)
(* one flush and COMMIT writes.                                            *)
(*                                                                         *)
(* PostgreSQL runs it READ COMMITTED, there is no version column and no    *)
(* SELECT FOR UPDATE: nothing tells a request that its copy is stale.  The *)
(* UPDATE names only the columns whose value differs from the copy's, the  *)
(* DELETEs name the payments of the copy, and only positioner_solution has *)
(* a UNIQUE deal_id.                                                       *)
(*                                                                         *)
(* A request that the checks refuse writes nothing and is left out, and so *)
(* are reads.  MaxRequests bounds the requests that pass their checks.     *)
(* As in DealRules, a name with a suffix is the definition with a slip.    *)
(***************************************************************************)
EXTENDS DealRules

CONSTANTS
    Slots,         \* requests in progress at the same time
    MaxRequests    \* requests served in all

ASSUME RequestsAssumption == MaxRequests \in Nat

VARIABLES
    deal,       \* the committed rows, as in DealLifecycle
    audited,    \* the audit log: its first STATUS_CHANGE and its last one
    bookings,   \* which request had which payment accepted
    served,     \* number of requests begun, the last one's identity
    req         \* req[s]: the request that slot s is serving

vars == <<deal, audited, bookings, served, req>>

Ops == {"update", "validate", "submit", "approve", "decide", "takeForEdit",
        "cancel"}

\* "row": the deal's row is loaded; "payments": its payments, too; "ready": all
\* that the handler works on is there; "sending": in send_deal; "sent" and
\* "failed": after it.
Phases == {"row", "payments", "ready", "sending", "sent", "failed"}

Idle == [phase |-> "idle"]
Requests == [phase: Phases, op: Ops, user: Users, id: 1..MaxRequests,
             copy: Deals, left: SUBSET Payments]

\* A STATUS_CHANGE.  created_at is now(), the start of the transaction; BEGIN
\* and the first SELECT are one step here, so transactions start in the order
\* of the requests' identities.
Entries == [by: 0..MaxRequests, old: DealStates \cup {"NONE"}, new: DealStates]

Created == [by |-> 0, old |-> "NONE", new |-> "DRAFT"]

Init ==
    /\ \E u \in Users, t \in Terms, v \in OptDates :
          Trades(u) /\ deal = NewDeal(u, t, v)
    /\ audited = [top |-> Created, last |-> Created]
    /\ bookings = {}
    /\ served = 0
    /\ req = [s \in Slots |-> Idle]

-----------------------------------------------------------------------------
(***************************************************************************)
(* Loading: get_by_id.                                                     *)
(***************************************************************************)
Allowed(op, u, d) ==
    CASE op = "update"      -> CanUpdate(u, d)
      [] op = "validate"    -> CanValidate(u, d)
      [] op = "submit"      -> CanSubmit(u, d)
      [] op = "approve"     -> CanApprove(u, d)
      [] op = "decide"      -> CanDecide(u, d)
      [] op = "takeForEdit" -> CanTakeForEdit(u, d)
      [] op = "cancel"      -> CanCancel(u, d)

\* The handlers whose outcome depends on the payments or the solution.
NeedsRelated == {"update", "validate", "approve", "decide"}

\* The first SELECT.  Every check of a handler looks at the row alone.
LoadRow(s) ==
    /\ req[s] = Idle
    /\ served < MaxRequests
    /\ served' = served + 1
    /\ \E op \in Ops, u \in Users :
          /\ Allowed(op, u, deal)
          /\ req' = [req EXCEPT ![s] =
                [phase |-> IF op \in NeedsRelated THEN "row" ELSE "ready",
                 op |-> op, user |-> u, id |-> served',
                 copy |-> [deal EXCEPT !.payments = {}, !.solution = NoSolution],
                 left |-> {}]]
    /\ UNCHANGED <<deal, audited, bookings>>

\* The SELECTs of the relationships, on a database that may have moved on: the
\* payments, and a few lookups later the solution.
LoadPayments(s) ==
    /\ req[s].phase = "row"
    /\ req' = [req EXCEPT ![s].copy.payments = deal.payments,
                          ![s].phase = "payments"]
    /\ UNCHANGED <<deal, audited, bookings, served>>

LoadSolution(s) ==
    /\ req[s].phase = "payments"
    /\ req' = [req EXCEPT
          ![s].copy.solution = deal.solution,
          ![s].phase = IF req[s].op = "approve" THEN "sending" ELSE "ready",
          ![s].left  = IF req[s].op = "approve" THEN req[s].copy.payments ELSE {}]
    /\ UNCHANGED <<deal, audited, bookings, served>>

-----------------------------------------------------------------------------
(***************************************************************************)
(* Sending, in approve_deal: nothing is written and no row is locked yet.  *)
(***************************************************************************)
Booked(s, p) == bookings' = bookings \cup {[by |-> req[s].id, payment |-> p]}

SendPayment(s) ==
    /\ req[s].phase = "sending"
    /\ \E p \in req[s].left :
          /\ Booked(s, p)
          /\ req' = [req EXCEPT ![s].left = @ \ {p}]
    /\ UNCHANGED <<deal, audited, served>>

SendDoneEarly(s) ==
    /\ req[s].phase = "sending"
    /\ req' = [req EXCEPT ![s].phase = "sent", ![s].left = {}]
    /\ UNCHANGED <<deal, audited, bookings, served>>

\* All payments accepted, or none there: "nothing to send" is a success.
SendDone(s) ==
    /\ req[s].phase = "sending"
    /\ req[s].left = {}
    /\ req' = [req EXCEPT ![s].phase = "sent"]
    /\ UNCHANGED <<deal, audited, bookings, served>>

SendFailsUnnoticed(s) ==
    /\ req[s].phase = "sending"
    /\ req' = [req EXCEPT ![s].phase = "sent", ![s].left = {}]
    /\ UNCHANGED <<deal, audited, bookings, served>>

\* A refusal, an exhausted retry, no token, no URL; the payment at hand may
\* have been accepted all the same, its answer lost.
SendFails(s) ==
    /\ req[s].phase = "sending"
    /\ UNCHANGED bookings \/ \E p \in req[s].left : Booked(s, p)
    /\ req' = [req EXCEPT ![s].phase = "failed", ![s].left = {}]
    /\ UNCHANGED <<deal, audited, served>>

-----------------------------------------------------------------------------
(***************************************************************************)
(* Writing: flush and COMMIT, in one step (nothing that is read between    *)
(* them decides what is written).                                          *)
(***************************************************************************)
\* A column: written when the request changed its copy of it.
Column(copy, new, stored) == IF new = copy THEN stored ELSE new

\* The rows: those the request dropped are deleted, its new ones inserted.
Rows(copy, new, stored) == (stored \ (copy \ new)) \cup (new \ copy)

SolutionRow(copy, new, stored) ==
    IF copy = NoSolution THEN Column(copy, new, stored)
    ELSE [decision |-> Column(copy.decision, new.decision, stored.decision),
          by       |-> Column(copy.by, new.by, stored.by)]

MergedWholeRow(copy, new, stored) ==
    [new EXCEPT !.payments = Rows(copy.payments, @, stored.payments),
                !.solution = SolutionRow(copy.solution, @, stored.solution)]
Merged(copy, new, stored) ==
    [state      |-> Column(copy.state, new.state, stored.state),
     valid      |-> Column(copy.valid, new.valid, stored.valid),
     terms      |-> Column(copy.terms, new.terms, stored.terms),
     date       |-> Column(copy.date, new.date, stored.date),
     trader     |-> stored.trader,
     positioner |-> Column(copy.positioner, new.positioner, stored.positioner),
     payments   |-> Rows(copy.payments, new.payments, stored.payments),
     solution   |-> SolutionRow(copy.solution, new.solution, stored.solution)]

\* What handler r.op may make of its copy.
Outcomes(r) ==
    CASE r.op = "update" ->
             {Updated(r.copy, t, v) : t \in Terms, v \in OptDates}
      [] r.op = "validate" ->
             {Invalid(r.copy)} \cup
                {Priced(r.copy, v, r.id) : v \in ValueDates(r.copy)}
      [] r.op = "submit" ->
             {Invalid(r.copy), InState(r.copy, "WAITING_FOR_POSITIONER")}
      [] r.op = "approve" ->
             {Decided(r.copy, r.user,
                      IF r.phase = "sent" THEN "EXECUTED" ELSE "APPROVED",
                      "APPROVE")}
      [] r.op = "decide" ->
             {Decided(r.copy, r.user, "REJECTED", decision) :
                 decision \in {"RETURN_FOR_EDIT", "REJECT"}}
      [] r.op = "takeForEdit" -> {InState(r.copy, "DRAFT")}
      [] r.op = "cancel" -> {InState(r.copy, "CANCELLED")}

\* A second positioner_solution for the deal violates UNIQUE(deal_id).
Inserts(copy, new) == copy.solution = NoSolution /\ new.solution # NoSolution
Violates(copy, new, stored) ==
    Inserts(copy, new) /\ stored.solution # NoSolution

\* STATUS_CHANGE, from the status of the copy; none for APPROVED.  It is the
\* last entry; readers of the log, which is sorted by created_at, see it on
\* top unless a request that began later has logged before.
Appended(entry, log) ==
    [top  |-> IF log.top.by > entry.by THEN log.top ELSE entry, last |-> entry]

Logged(r, new, log) ==
    IF new.state \in {r.copy.state, "APPROVED"} THEN log
    ELSE Appended([by |-> r.id, old |-> r.copy.state, new |-> new.state], log)

Finish(s) == req' = [req EXCEPT ![s] = Idle]

Commit(s) ==
    /\ req[s] # Idle
    /\ req[s].phase \in {"ready", "sent", "failed"}
    /\ \E new \in Outcomes(req[s]) :
          LET copy == req[s].copy IN
          /\ ~Violates(copy, new, deal)
          /\ deal' = Merged(copy, new, deal)
          /\ audited' = Logged(req[s], new, audited)
    /\ Finish(s)
    /\ UNCHANGED <<bookings, served>>

\* Rolled back: a constraint, a fault, a client gone, a process killed.  What
\* the position system was told stays told.
Abort(s) ==
    /\ req[s] # Idle
    /\ Finish(s)
    /\ UNCHANGED <<deal, audited, bookings, served>>

Next ==
    \E s \in Slots :
        \/ LoadRow(s) \/ LoadPayments(s) \/ LoadSolution(s)
        \/ SendPayment(s) \/ SendDone(s) \/ SendFails(s)
        \/ Commit(s) \/ Abort(s)

Spec == Init /\ [][Next]_vars

-----------------------------------------------------------------------------
(***************************************************************************)
(* Properties that hold however the requests interleave                    *)
(***************************************************************************)
TypeOK ==
    /\ deal \in Deals
    /\ audited \in [top: Entries, last: Entries]
    /\ bookings \in SUBSET [by: 1..MaxRequests, payment: Payments]
    /\ served \in 0..MaxRequests
    /\ req \in [Slots -> Requests \cup {Idle}]

\* Payments are stored and deleted two by two: whatever validations and edits
\* overlap, no deal is left with one leg of an exchange.
BatchesWhole ==
    \A p \in deal.payments : LegsOf(p.terms, p.date, p.batch) \subseteq deal.payments

\* Whatever overlaps, the status on the row is one the log accounts for: its
\* top entry names it, or another does that was committed after the top one by
\* a request that began before it (an approval that was sending while a return
\* was committed: the row is EXECUTED, the log shows REJECTED on top).
StatusRecorded ==
    \/ deal.state \in {"APPROVED", audited.top.new}
    \/ audited.last.new = deal.state /\ audited.last.by < audited.top.by

\* A deal that a positioner has decided has a solution row and a positioner,
\* also when decisions race for the solution row.
DecidedHasSolution ==
    deal.state \in {"REJECTED", "APPROVED", "EXECUTED"} =>
        deal.solution # NoSolution /\ deal.positioner # NoUser

\* A deal becomes EXECUTED only by a request that has had every payment it
\* loaded accepted, whatever happened to the rows meanwhile.
ExecutionConfirmed ==
    [][\A s \in Slots :
          /\ deal.state # "EXECUTED" /\ deal'.state = "EXECUTED"
          /\ req'[s] # req[s]
          => \A p \in req[s].copy.payments :
                [by |-> req[s].id, payment |-> p] \in bookings]_vars

-----------------------------------------------------------------------------
(***************************************************************************)
(* One request at a time: the handlers are the steps of DealLifecycle.     *)
(***************************************************************************)
Unbatched(p) == [p EXCEPT !.batch = 0]
WithoutBatches(d) == [d EXCEPT !.payments = {Unbatched(p) : p \in @}]

Serial == INSTANCE DealLifecycle WITH
    deal    <- WithoutBatches(deal),
    audited <- [old |-> audited.last.old, new |-> audited.last.new],
    booked  <- {Unbatched(b.payment) : b \in bookings}

\* With a single slot, loading, sending and committing step by step cannot be
\* told from running every handler at once: lost requests included.
ServesSerially == Serial!Spec

-----------------------------------------------------------------------------
(***************************************************************************)
(* What the tests and the guides say of a deal, and two overlapping        *)
(* requests break.                                                         *)
(***************************************************************************)
\* "After a successful transfer the deal becomes EXECUTED" (user guide): an
\* executed deal was transferred.
ExecutedWasSent == deal.state = "EXECUTED" => bookings # {}

\* An executed deal is closed: it is not executed again (test_g24: the position
\* system hears nothing more of it), not returned to draft (test_g10) and not
\* cancelled (test_g12).
ExecutedIsClosed ==
    [][deal.state = "EXECUTED" => deal'.state = "EXECUTED" /\ bookings' = bookings]_vars

=============================================================================
