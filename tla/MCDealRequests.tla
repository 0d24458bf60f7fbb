--------------------------- MODULE MCDealRequests ---------------------------
(***************************************************************************)
(* Two requests at a time on one deal.                                     *)
(***************************************************************************)
EXTENDS DealRequests, TLC

MCUsers == {"trader", "positioner"}
MCRole == [u \in MCUsers |-> IF u = "trader" THEN "TRADER" ELSE "POSITIONER"]
MCTerms == {"old", "new"}
MCDates == {"monday"}
MCSettle == [<<t, v>> \in MCTerms \X (MCDates \cup {NoDate}) |-> {"monday"}]

\* The slots are interchangeable: no property names one.
SlotSymmetry == Permutations(Slots)

=============================================================================
