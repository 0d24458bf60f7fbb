------------------------------ MODULE DealPricing ------------------------------
(***************************************************************************)
(* What DealRules calls terms, verdict and payments: a DRAFT deal that is  *)
(* edited and validated while the reference data (NSI) changes.            *)
(* validate_deal checks the fields, the limits, computes a value date from *)
(* the calendar and the two payments, and finds an account for each.       *)
(*                                                                         *)
(* Money is counted in the last digit of its column: amounts in cents,     *)
(* rates in 1/Unit.  A request may carry one digit more (Amounts, Rates);  *)
(* the columns round it off.  Days are numbered.                           *)
(*                                                                         *)
(* A definition with another one's name and a suffix is that definition    *)
(* with a slip in it, for the properties to notice.                        *)
(***************************************************************************)
EXTENDS Integers, FiniteSets

CONSTANTS
    Currencies,       \* codes a deal may name, in the NSI or not
    Counterparties,
    TradeDates,       \* days a trader may enter
    ValueDates,
    Amounts,          \* positive, in tenths of a cent
    Rates,            \* positive, in tenths of 1/Unit
    Unit,             \* NUMERIC(18,6): 10^6
    MaxMoney,         \* NUMERIC(18,2): 10^18 cents are too many
    Weekend,          \* the Saturdays and Sundays
    Window,           \* days of calendar loaded after the trade date: 30
    Patience,         \* days after which the search for one is given up: 366
    Reference,        \* the states of the reference data, see NsiShape
    MaxChanges        \* changes of it while one validation reads it

\* What a NUMERIC column makes of a number with one digit too many.
Column(x) == (x + 5) \div 10

NoDate == -1
Any == "any"          \* NULL in deal_limit

Types == {"TOD", "TOM", "SPOT", "FORWARD"}
Directions == {"IN", "OUT"}

\* The NSI tables: calendar exceptions, decimal places of the known
\* currencies, active counterparties, accounts and limits (with their ids).
NsiTables(n) ==
    /\ n.open \in SUBSET Nat /\ n.closed \in SUBSET Nat
    /\ DOMAIN n.places \subseteq Currencies
    /\ \A c \in DOMAIN n.places : n.places[c] \in 0..2
    /\ n.active \in SUBSET Counterparties
    /\ IsFiniteSet(n.accounts) /\ IsFiniteSet(n.limits)
    /\ \A a, b \in n.accounts : a.id = b.id => a = b
    /\ \A k, l \in n.limits : k.id = l.id => k = l
    /\ \A a \in n.accounts :
          /\ a.id \in Nat /\ a.currency \in Currencies
          /\ a.active \in BOOLEAN
          /\ a.short \in BOOLEAN      \* at most 30 of the 34 characters used
    /\ \A l \in n.limits :
          /\ l.id \in Nat /\ l.max \in Nat /\ l.active \in BOOLEAN
          /\ l.counterparty \in Counterparties \cup {Any}
          /\ l.currency \in Currencies \cup {Any}

\* All of them at one moment: what accounts and limits refer to is there.
NsiShape(n) ==
    /\ NsiTables(n)
    /\ {a.currency : a \in n.accounts} \subseteq DOMAIN n.places
    /\ {l.currency : l \in n.limits} \subseteq DOMAIN n.places \cup {Any}

ASSUME PricingAssumption ==
    /\ TradeDates \in SUBSET Nat /\ ValueDates \in SUBSET Nat
    /\ Amounts \in SUBSET (Nat \ {0}) /\ Rates \in SUBSET (Nat \ {0})
    /\ Unit \in Nat \ {0}
    /\ MaxMoney \in Nat /\ \A x \in Amounts : Column(x) < MaxMoney
    /\ Window \in Nat /\ Patience \in Nat
    /\ \A n \in Reference : NsiShape(n)
    /\ MaxChanges \in Nat

VARIABLES
    row,       \* the deal: its fields, verdict and payments
    nsi,       \* the reference data now
    checked,   \* what the validation that made the deal VALID has read
    given      \* has the trader given the value date the row holds?

vars == <<row, nsi, checked, given>>

-----------------------------------------------------------------------------
(***************************************************************************)
(* Numbers                                                                 *)
(***************************************************************************)
\* quantize(0.01, ROUND_HALF_UP) of amount * rate.
CounterAmountDown(d) == (d.amount * d.rate) \div Unit
CounterAmount(d) == (2 * d.amount * d.rate + Unit) \div (2 * Unit)

\* No more decimals than the currency has.
DecimalsValid(amount, places) == amount % (10 ^ (2 - places)) = 0

-----------------------------------------------------------------------------
(***************************************************************************)
(* SettlementService                                                       *)
(***************************************************************************)
IsBusinessDay(n, d) == d \in n.open \/ (d \notin n.closed /\ d \notin Weekend)

\* The calendar of a validation; any other day counts as closed.
LoadCalendar(n, trade) == {d \in trade..(trade + Window) : IsBusinessDay(n, d)}

\* The day itself or the first business day after it.
RollForward(start, calendar) ==
    LET roll[d \in start..(start + Patience + 1)] ==
            IF d \in calendar THEN d
            ELSE IF d + 1 > start + Patience THEN NoDate
            ELSE roll[d + 1]
    IN  roll[start]

\* The business_days-th business day after start.
AddBusinessDaysInclusive(start, business_days, calendar) ==
    LET walk[d \in (start - 1)..(start + Patience + 1)] ==
            [added \in 0..business_days |->
                IF added = business_days THEN d
                ELSE IF d + 1 > start + Patience THEN NoDate
                ELSE walk[d + 1][IF d + 1 \in calendar THEN added + 1 ELSE added]]
    IN  IF business_days = 0 THEN RollForward(start, calendar)
                             ELSE walk[start - 1][0]
AddBusinessDays(start, business_days, calendar) ==
    LET walk[d \in start..(start + Patience + 1)] ==
            [added \in 0..business_days |->
                IF added = business_days THEN d
                ELSE IF d + 1 > start + Patience THEN NoDate
                ELSE walk[d + 1][IF d + 1 \in calendar THEN added + 1 ELSE added]]
    IN  IF business_days = 0 THEN RollForward(start, calendar)
                             ELSE walk[start][0]

Offset == [TOD |-> 0, TOM |-> 1, SPOT |-> 2]

\* NoDate: a ValueError.
CalculateValueDateFromStored(d, calendar) ==
    LET base == IF d.date # NoDate /\ d.date > d.trade THEN d.date ELSE d.trade
    IN  IF d.type = "FORWARD"
        THEN IF d.date \in calendar THEN d.date ELSE NoDate
        ELSE AddBusinessDays(base, Offset[d.type], calendar)
CalculateValueDate(d, calendar) ==
    IF d.type = "FORWARD"
    THEN IF d.date \in calendar THEN d.date ELSE NoDate
    ELSE AddBusinessDays(d.trade, Offset[d.type], calendar)

-----------------------------------------------------------------------------
(***************************************************************************)
(* ValidationService, LimitCheckService, NostroAssignmentService           *)
(***************************************************************************)
\* That the request's fields were positive is not enough: they were rounded.
PassesUnrounded(d, n) ==
    /\ d.buy # d.sell
    /\ {d.buy, d.sell} \subseteq DOMAIN n.places
    /\ DecimalsValid(d.amount, n.places[d.buy])
    /\ d.counterparty \in n.active
    /\ d.type = "FORWARD" => d.date # NoDate
Passes(d, n) ==
    /\ d.buy # d.sell
    /\ d.amount > 0 /\ d.rate > 0
    /\ {d.buy, d.sell} \subseteq DOMAIN n.places
    /\ DecimalsValid(d.amount, n.places[d.buy])
    /\ d.counterparty \in n.active
    /\ d.type = "FORWARD" => d.date # NoDate

Matching(n, counterparty, currency) ==
    {l \in n.limits : /\ l.active
                      /\ l.counterparty \in {Any, counterparty}
                      /\ l.currency \in {Any, currency}}

\* The pair (counterparty named, currency named), compared as a pair.
SpecificityReversed(l) == (IF l.currency # Any THEN 2 ELSE 0) +
                          (IF l.counterparty # Any THEN 1 ELSE 0)
Specificity(l) == (IF l.counterparty # Any THEN 2 ELSE 0) +
                  (IF l.currency # Any THEN 1 ELSE 0)

\* max() keeps the first of equals, and limits come ordered by id.
Outranks(k, l) == \/ Specificity(k) > Specificity(l)
                  \/ Specificity(k) = Specificity(l) /\ k.id < l.id

\* The best of the limits that match, if any.
BestLimits(n, counterparty, currency) ==
    LET matching == Matching(n, counterparty, currency)
    IN  {l \in matching : ~\E k \in matching : Outranks(k, l)}

WithinLimits(d, n) ==
    /\ \A l \in BestLimits(n, d.counterparty, d.buy) : d.amount <= l.max
    /\ \A l \in BestLimits(n, d.counterparty, d.sell) : CounterAmount(d) <= l.max

ActiveAccounts(n, currency) ==
    {a \in n.accounts : a.active /\ a.currency = currency}

\* The first one by id.
NostroAnyCurrency(n, currency) ==
    CHOOSE a \in n.accounts : a.active /\ \A b \in n.accounts : a.id <= b.id
Nostro(n, currency) ==
    CHOOSE a \in ActiveAccounts(n, currency) :
        \A b \in ActiveAccounts(n, currency) : a.id <= b.id

HasNostro(d, n) == \A c \in {d.buy, d.sell} : ActiveAccounts(n, c) # {}

\* BUY: the buy currency comes in, the counter amount goes out; SELL: the
\* other way round.
Calculated(d, n, date) ==
    LET out == IF d.side = "BUY" THEN "OUT" ELSE "IN"
        in  == IF d.side = "BUY" THEN "IN" ELSE "OUT"
    IN  {[direction |-> in, currency |-> d.buy, amount |-> d.amount,
          account |-> Nostro(n, d.buy).id, date |-> date],
         [direction |-> out, currency |-> d.sell, amount |-> CounterAmount(d),
          account |-> Nostro(n, d.sell).id, date |-> date]}

\* payment.amount is NUMERIC(18,2), and payment.account_code has room for 30
\* characters of an account number.
FitsRoughly(d, n) ==
    /\ CounterAmount(d) <= MaxMoney
    /\ \A c \in {d.buy, d.sell} : Nostro(n, c).short
Fits(d, n) ==
    /\ CounterAmount(d) < MaxMoney
    /\ \A c \in {d.buy, d.sell} : Nostro(n, c).short

-----------------------------------------------------------------------------
(***************************************************************************)
(* The requests                                                            *)
(***************************************************************************)
\* No validation has read anything for the verdict there is.
Nothing == [open |-> {}, closed |-> {}, places |-> [c \in {} |-> 0],
            active |-> {},
            accounts |-> {}, limits |-> {}]

\* create_deal
Init ==
    /\ nsi \in Reference
    /\ row \in [type: Types, trade: TradeDates, date: ValueDates \cup {NoDate},
                buy: Currencies, sell: Currencies, side: {"BUY", "SELL"},
                amount: {Column(x) : x \in Amounts},
                rate: {Column(x) : x \in Rates},
                counterparty: nsi.active,
                verdict: {"NOT_VALIDATED"}, payments: {{}}]
    /\ given = (row.date # NoDate)
    /\ checked = Nothing

Edited(d, field, value) ==
    [d EXCEPT ![field] = value, !.verdict = "NOT_VALIDATED", !.payments = {}]

Change(field, values) ==
    /\ \E value \in values : row' = Edited(row, field, value)
    /\ checked' = Nothing
    /\ UNCHANGED <<nsi, given>>

\* update_deal, one field at a time: as every PATCH drops verdict and
\* payments, a PATCH of several fields is several PATCHes.
Update ==
    \/ Change("type", Types)
    \/ Change("trade", TradeDates)
    \/ Change("buy", Currencies)
    \/ Change("sell", Currencies)
    \/ Change("side", {"BUY", "SELL"})
    \/ Change("amount", {Column(x) : x \in Amounts})
    \/ Change("rate", {Column(x) : x \in Rates})
    \/ Change("counterparty", nsi.active)

UpdateValueDate ==
    /\ \E date \in ValueDates \cup {NoDate} :
          row' = Edited(row, "date", date) /\ given' = (date # NoDate)
    /\ checked' = Nothing
    /\ UNCHANGED nsi

\* An issue is recorded; the payments of an earlier validation stay.
Rejected(d) == [d EXCEPT !.verdict = "INVALID"]

\* validate_deal, in its order: issues and limits are recorded, a date that
\* cannot be computed is not, a missing account is; a payment that does not
\* fit its columns rolls everything back.
Validated(d, n) ==
    LET date == CalculateValueDate(d, LoadCalendar(n, d.trade))
    IN  IF ~Passes(d, n) \/ ~WithinLimits(d, n) THEN Rejected(d)
        ELSE IF date = NoDate THEN d
        ELSE IF ~HasNostro(d, n) THEN Rejected(d)
        ELSE IF ~Fits(d, n) THEN d
        ELSE [d EXCEPT !.date = date, !.verdict = "VALID",
                       !.payments = Calculated(d, n, date)]

\* Does the validation succeed?
Succeeds(d, n) ==
    /\ Passes(d, n) /\ WithinLimits(d, n) /\ HasNostro(d, n)
    /\ CalculateValueDate(d, LoadCalendar(n, d.trade)) # NoDate
    /\ Fits(d, n)

\* Migrations and administrators maintain the tables by hand; a currency
\* that payments name cannot be deleted.
Maintained(n) ==
    n \in Reference /\ {p.currency : p \in row.payments} \subseteq DOMAIN n.places

MaintainNsi ==
    /\ \E n \in Reference : Maintained(n) /\ nsi' = n
    /\ UNCHANGED <<row, checked, given>>

\* validate_deal reads table by table, each in its state of that moment: the
\* counterparty (with the deal), currencies, limits, calendar and accounts.
\* states[i] is the reference data at the i-th of these SELECTs.  A change after
\* the last one might as well come after the validation; or it deletes a
\* currency of the new payments, the flush fails and the row stays as it was.
Reads == 1..5

Found(states) ==
    [active   |-> states[1].active,
     places   |-> states[2].places,
     limits   |-> states[3].limits,
     open     |-> states[4].open,
     closed   |-> states[4].closed,
     accounts |-> states[5].accounts]

\* The reference data at each SELECT, if it has changed to new[i] before those
\* with i in DOMAIN new.
Course(new) ==
    [i \in Reads |-> LET past == {j \in DOMAIN new : j <= i}
                     IN  IF past = {} THEN nsi
                         ELSE new[CHOOSE j \in past : \A k \in past : k <= j]]

Courses ==
    LET moments == {m \in SUBSET (Reads \ {1}) : Cardinality(m) <= MaxChanges}
    IN  UNION {{Course(new) : new \in [m -> {n \in Reference : Maintained(n)}]} :
                  m \in moments}

Validate ==
    /\ \E states \in Courses :
          LET found == Found(states) IN
          /\ row' = Validated(row, found)
          /\ nsi' = states[5]
          /\ checked' = IF Succeeds(row, found) THEN found
                        ELSE IF row'.verdict = "VALID" THEN checked
                        ELSE Nothing
    /\ given' = (given /\ row'.date = row.date)

\* submit_deal checks the limits again; the deal stays a DRAFT.
SubmitOverLimit ==
    /\ row.verdict = "VALID" /\ ~WithinLimits(row, nsi)
    /\ row' = Rejected(row)
    /\ checked' = Nothing
    /\ UNCHANGED <<nsi, given>>

Next == Update \/ UpdateValueDate \/ Validate \/ SubmitOverLimit \/ MaintainNsi

Spec == Init /\ [][Next]_vars

-----------------------------------------------------------------------------
(***************************************************************************)
(* Properties.  VALID is the verdict validate_deal gives and every PATCH   *)
(* takes back; `checked' is what that validation found in the tables, which *)
(* need not have been there all at one moment.                             *)
(***************************************************************************)
Valid == row.verdict = "VALID"

\* The types of the columns; a stored payment fits its column.
TypeOK ==
    /\ row.type \in Types /\ row.side \in {"BUY", "SELL"}
    /\ row.trade \in TradeDates /\ row.date \in Nat \cup {NoDate}
    /\ row.buy \in Currencies /\ row.sell \in Currencies
    /\ row.amount \in Nat /\ row.rate \in Nat
    /\ row.counterparty \in Counterparties
    /\ row.verdict \in {"NOT_VALIDATED", "VALID", "INVALID"}
    /\ \A p \in row.payments :
          /\ p.direction \in Directions /\ p.currency \in Currencies
          /\ p.amount \in 0..(MaxMoney - 1)
          /\ p.account \in Nat /\ p.date \in Nat
    /\ nsi \in Reference /\ NsiTables(checked) /\ given \in BOOLEAN

\* The value date of a VALID deal, said without the loops of settlement.py:
\* a business day no earlier than the trade date, with as many business days
\* between the two as the type asks for; a FORWARD deal's lies in the window.
\* A date stored by an earlier validation, of another type or trade date,
\* does not shift the next one.
SettlesOnTime ==
    LET n == checked
        businessDays(from, to) == {d \in from..to : IsBusinessDay(n, d)}
    IN  Valid =>
          /\ IsBusinessDay(n, row.date)
          /\ row.date \in row.trade..(row.trade + Window)
          /\ row.type # "FORWARD" =>
                Cardinality(businessDays(IF row.type = "TOD" THEN row.trade
                                                            ELSE row.trade + 1,
                                         row.date))
                    = IF row.type = "SPOT" THEN 2 ELSE 1

\* A VALID deal is an exchange: one payment in, one out, each in its own
\* currency through an account of that currency that was active and whose
\* number the payment can hold, both on the value date, and the two amounts
\* are worth the same at the rate, to half a cent.
PaymentsBalance ==
    Valid =>
      /\ Cardinality(row.payments) = 2 /\ row.buy # row.sell
      /\ {p.direction : p \in row.payments} = Directions
      /\ {p.currency : p \in row.payments} = {row.buy, row.sell}
      /\ \A p \in row.payments :
            /\ p.date = row.date
            /\ (p.currency = row.buy) <=> (p.direction = "IN") = (row.side = "BUY")
            /\ \E a \in checked.accounts :
                  a.id = p.account /\ a.active /\ a.currency = p.currency /\ a.short
      /\ \A p, q \in row.payments :
            p.currency = row.buy /\ q.currency = row.sell =>
                LET error == 2 * (Unit * q.amount - row.rate * p.amount)
                IN  p.amount = row.amount /\ -Unit < error /\ error <= Unit

\* Neither payment of a VALID deal exceeds the limit that was in force for
\* it: one for this counterparty and currency, or else one for the
\* counterparty, or else one for the currency, or else the general one, and
\* the oldest of several.
LimitsRespected ==
    LET inForce(counterparty, currency) ==
            {l \in checked.limits : /\ l.active
                                    /\ l.counterparty = counterparty
                                    /\ l.currency = currency}
        cascade(c) == <<inForce(row.counterparty, c), inForce(row.counterparty, Any),
                        inForce(Any, c), inForce(Any, Any)>>
    IN  Valid =>
          \A p \in row.payments : \A i \in 1..4 :
             LET here == cascade(p.currency)[i]
             IN  (/\ here # {}
                  /\ \A j \in 1..(i - 1) : cascade(p.currency)[j] = {})
                 => \E l \in here : /\ \A k \in here : l.id <= k.id
                                    /\ p.amount <= l.max

\* A positive amount of a request can be rounded to nothing by its column;
\* no VALID deal has one.
PositiveAmounts == Valid => row.amount > 0 /\ row.rate > 0

\* A validation that finds in the tables what the one before found changes
\* nothing, whenever each of the two has read each table: the value date that
\* a validation stores does not move the value date the next one computes.
RevalidationStable == Valid => Validated(row, checked) = row

\* "FORWARD deals require an explicit value date" (settlement.py:16).
\* Violated: the date a validation computed for a SPOT deal stays on the row
\* when a PATCH makes it a FORWARD deal.
ForwardDateIsGiven == Valid /\ row.type = "FORWARD" => given

=============================================================================
