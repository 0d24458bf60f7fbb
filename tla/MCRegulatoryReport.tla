------------------------- MODULE MCRegulatoryReport -------------------------
(***************************************************************************)
(* A small instance of RegulatoryReport: two deals, three currencies of    *)
(* which the NSI has two or one, four states of the reference data.        *)
(***************************************************************************)
EXTENDS RegulatoryReport

Account(id, number, currency, active) ==
    [id |-> id, number |-> number, currency |-> currency, active |-> active]

\* Everything in place.
Regular ==
    [currencies |-> {"USD", "RUB"}, active |-> {"vtbr"}, complete |-> {"vtbr"},
     accounts |-> {Account(1, 11, "USD", TRUE), Account(2, 12, "RUB", TRUE)}]

\* The rouble account goes by its id until the bank has given it a number;
\* the counterparty has no BIC.
Placeholder ==
    [Regular EXCEPT !.complete = {},
                    !.accounts = {Account(1, 11, "USD", TRUE),
                                  Account(2, 2, "RUB", TRUE)}]

\* The dollar account has a second row, and that one is closed.
Shared ==
    [Regular EXCEPT !.accounts = {Account(1, 11, "USD", TRUE),
                                  Account(2, 12, "RUB", TRUE),
                                  Account(3, 11, "USD", FALSE)}]

\* The rouble is gone.
Reduced ==
    [Regular EXCEPT !.currencies = {"USD"},
                    !.accounts = {Account(1, 11, "USD", TRUE)}]

MCReference == {Regular, Placeholder, Shared, Reduced}
MCExchanges == {<<"USD", "RUB">>, <<"USD", "XAU">>}

=============================================================================
