---------------------------- MODULE MCDealPricing ----------------------------
(***************************************************************************)
(* A small instance of DealPricing: a Friday and a Saturday to trade on,   *)
(* six states of the reference data.                                      *)
(***************************************************************************)
EXTENDS DealPricing

Limit(id, counterparty, currency, max, active) ==
    [id |-> id, counterparty |-> counterparty, currency |-> currency,
     max |-> max, active |-> active]

Account(id, currency, active) ==
    [id |-> id, currency |-> currency, active |-> active, short |-> TRUE]

\* Everything in place.
Regular ==
    [open |-> {}, closed |-> {}, places |-> [USD |-> 2, RUB |-> 2],
     active |-> Counterparties,
     accounts |-> {Account(1, "USD", TRUE), Account(2, "RUB", TRUE),
                   Account(3, "RUB", TRUE)},
     limits |-> {}]

\* The Monday is a holiday, the Saturday is worked; the first rouble account
\* is closed and dollars have one decimal place.
Holidays ==
    [Regular EXCEPT !.open = {5}, !.closed = {7}, !.places.USD = 1,
                    !.accounts = {Account(1, "USD", TRUE), Account(2, "RUB", FALSE),
                                  Account(3, "RUB", TRUE)}]

\* Too many holidays for a SPOT deal, no dollar account.
Stalled ==
    [Regular EXCEPT !.closed = {7, 8},
                    !.accounts = {Account(2, "RUB", TRUE)}]

\* A limit of every kind, an obsolete one too, in no order of strictness.
Limited ==
    [Regular EXCEPT !.limits =
        {Limit(1, Any, Any, 1, TRUE), Limit(2, Any, "RUB", 40, TRUE),
         Limit(3, "vtbr", Any, 14, TRUE), Limit(4, "vtbr", "USD", 30, TRUE),
         Limit(5, "vtbr", Any, 45, TRUE), Limit(6, "vtbr", "RUB", 0, FALSE)}]

\* One counterparty is gone, and so is the rouble.
Reduced ==
    [Regular EXCEPT !.active = {"vtbr"}, !.places = [USD |-> 2],
                    !.accounts = {Account(1, "USD", TRUE)}]

\* The number of the first rouble account is too long to be stored.
Overlong ==
    [Regular EXCEPT !.accounts = {Account(1, "USD", TRUE),
                                  [Account(2, "RUB", TRUE) EXCEPT !.short = FALSE],
                                  Account(3, "RUB", TRUE)}]

MCReference == {Regular, Holidays, Stalled, Limited, Reduced, Overlong}

=============================================================================
