----------------------------- MODULE SendContract -----------------------------
(***************************************************************************)
(* What approve_deal may rely on when send_deal returns: success means     *)
(* that the position system holds every payment; payments get there in     *)
(* order, none before the one ahead of it; a failure says nothing about    *)
(* the payment at hand, which may even arrive after it.                    *)
(***************************************************************************)
EXTENDS Naturals

CONSTANT N    \* number of payments of the deal

VARIABLES
    delivered,   \* the payments that the position system holds
    outcome      \* "open" until send_deal returns

vars == <<delivered, outcome>>

Init == delivered = {} /\ outcome = "open"

Deliver ==
    \E k \in (1..N) \ delivered :
        /\ 1..(k - 1) \subseteq delivered
        /\ delivered' = delivered \cup {k}
        /\ UNCHANGED outcome

Return(result) == outcome = "open" /\ outcome' = result /\ UNCHANGED delivered

Succeed == delivered = 1..N /\ Return("success")
Fail == Return("failure")

Next == Deliver \/ Succeed \/ Fail

Spec == Init /\ [][Next]_vars

=============================================================================
