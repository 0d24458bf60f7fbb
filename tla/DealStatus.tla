------------------------------ MODULE DealStatus ------------------------------
(***************************************************************************)
(* What the service promises its users about a deal, said without its      *)
(* tables: the documented status machine; the content of a deal is worked  *)
(* on in DRAFT and nowhere else; a deal is executed only once the position *)
(* system holds all of it; whoever approved it is not who traded it.       *)
(***************************************************************************)
VARIABLES
    status,     \* the deal's status
    content,    \* what is traded: terms, value date, payments
    delivered,  \* is every payment known to the position system?
    fourEyes    \* is the last positioner someone other than the trader?

vars == <<status, content, delivered, fourEyes>>

Init == status = "DRAFT" /\ ~fourEyes

\* The deal is edited or validated.
Prepare == status = "DRAFT" /\ UNCHANGED <<status, fourEyes>>

\* A move in the status machine: the content stays, and so does what the
\* position system was told of it.
Move(from, to) ==
    /\ status = from
    /\ status' = to
    /\ UNCHANGED content
    /\ delivered => delivered'

Queue == Move("DRAFT", "WAITING_FOR_POSITIONER") /\ UNCHANGED fourEyes
Cancel == Move("DRAFT", "CANCELLED") /\ UNCHANGED fourEyes

\* A send that came to nothing may still have delivered something.
Attempt == /\ Move("WAITING_FOR_POSITIONER", "WAITING_FOR_POSITIONER")
           /\ UNCHANGED fourEyes

SendBack == Move("WAITING_FOR_POSITIONER", "REJECTED")
Reopen == Move("REJECTED", "DRAFT") /\ UNCHANGED fourEyes

Approve == Move("WAITING_FOR_POSITIONER", "APPROVED") /\ fourEyes'
Execute == /\ Move("WAITING_FOR_POSITIONER", "EXECUTED")
           /\ fourEyes'
           /\ delivered'

Next == \/ Prepare \/ Queue \/ Cancel \/ Attempt
        \/ SendBack \/ Reopen \/ Approve \/ Execute

Spec == Init /\ [][Next]_vars

=============================================================================
