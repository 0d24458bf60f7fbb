------------------------- MODULE MCPositionsOverview -------------------------
(***************************************************************************)
(* The deal of MCDealRequests with somebody looking at the positions.      *)
(***************************************************************************)
EXTENDS PositionsOverview, MCDealRequests

\* Payments of Monday are in the positions of Monday, and not in Friday's.
MCDays == {"friday", "monday"}
MCDue == [day \in MCDays |-> {day} \cap MCDates]

=============================================================================
