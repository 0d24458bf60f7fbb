--------------------------- MODULE MCDealLifecycle ---------------------------
(***************************************************************************)
(* A trader, a positioner and an administrator (who may trade, decide and  *)
(* act on the trader's deals) over spot and forward terms.                 *)
(***************************************************************************)
EXTENDS DealLifecycle

MCUsers == {"trader", "positioner", "admin"}
MCRole == [u \in MCUsers |-> CASE u = "trader" -> "TRADER"
                               [] u = "positioner" -> "POSITIONER"
                               [] u = "admin" -> "ADMIN"]
MCTerms == {"spot", "forward"}
MCDates == {"monday", "friday"}

\* Spot settles on Monday, or later when Monday becomes a holiday, whatever
\* value_date says; forward on the date the row holds, if it holds one.
MCSettle == [<<t, v>> \in MCTerms \X (MCDates \cup {NoDate}) |->
                IF t = "spot" THEN MCDates ELSE {v} \ {NoDate}]

=============================================================================
