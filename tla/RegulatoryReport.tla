--------------------------- MODULE RegulatoryReport ---------------------------
(***************************************************************************)
(* RegulatoryReportService.generate over the deals of a period while       *)
(* traders go on and the reference data (NSI) change.  The report reads    *)
(* with one SELECT after the other under READ COMMITTED: the deals, their  *)
(* payments, the counterparties, the currencies, the accounts twice.  It   *)
(* checks the VALID deals against what it read and refuses with a list of  *)
(* errors, or it serialises every deal it read; the route answers with the *)
(* items in JSON, or in CSV with a row for each of their payments.         *)
(*                                                                         *)
(* Of a deal there is what the report looks at; the requests on one deal   *)
(* come one after the other.  A period and a counterparty select deals:    *)
(* any set of them is a scope.  Of the four kinds of field the check names *)
(* there are three: those of a counterparty are one.                       *)
(*                                                                         *)
(* A definition with another one's name and a suffix is that definition    *)
(* with a slip in it, for the properties to notice.                        *)
(***************************************************************************)
EXTENDS Naturals, FiniteSets

CONSTANTS
    Ids,              \* deals, numbered in the order of the report
    Exchanges,        \* pairs <<buy_currency, sell_currency>>, in the NSI or not
    Counterparties,
    Reference,        \* the states of the reference data, see NsiShape
    MaxCommits        \* commits of others in all

ASSUME ReportAssumption == Ids \subseteq Nat /\ MaxCommits \in Nat

Currencies == {x[1] : x \in Exchanges} \cup {x[2] : x \in Exchanges}

\* Ids and numbers of accounts are both codes; numbers need not be unique.
Accounts == [id: Nat, number: Nat, currency: Currencies, active: BOOLEAN]

NsiShape(n) ==
    /\ n.currencies \subseteq Currencies
    /\ n.active \subseteq Counterparties
    /\ n.complete \subseteq Counterparties     \* with an id, a name, a BIC
    /\ n.accounts \subseteq Accounts /\ IsFiniteSet(n.accounts)
    /\ {a.currency : a \in n.accounts} \subseteq n.currencies
    /\ \A a, b \in n.accounts : a.id = b.id => a = b

ASSUME ReferenceAssumption == \A n \in Reference : NsiShape(n)

VARIABLES
    deals,     \* the committed deals with their payments
    nsi,       \* the committed reference data
    read,      \* what a report in progress has read
    answer,    \* what the report has answered
    logged,    \* its REGULATORY_REPORT_FAILED entry in the audit log
    commits,   \* number of commits of others
    quiet      \* none of them since the report began

vars == <<deals, nsi, read, answer, logged, commits, quiet>>

\* "OPEN" stands for every state but CANCELLED: from the queue on a deal is,
\* for the report, a draft that nobody happens to edit.
States == {"OPEN", "CANCELLED"}
Verdicts == {"NOT_VALIDATED", "VALID", "INVALID"}
Absent == [state |-> "ABSENT"]
Existing == {i \in Ids : deals[i] # Absent}

NoRead == [step |-> "none", asked |-> {}, rows |-> <<>>, complete |-> {},
           currencies |-> {}, byNumber |-> <<>>]
NoAnswer == [kind |-> "none"]
NoEntry == [deal |-> 0, errors |-> {}]

Init ==
    /\ deals = [i \in Ids |-> Absent]
    /\ nsi \in Reference
    /\ read = NoRead
    /\ answer = NoAnswer
    /\ logged = NoEntry
    /\ commits = 0
    /\ quiet = TRUE

-----------------------------------------------------------------------------
(***************************************************************************)
(* The requests of the traders and positioners, and the tables maintained  *)
(* by hand                                                                 *)
(***************************************************************************)
\* Somebody else commits; nothing of interest comes after an answer.
Others ==
    /\ answer = NoAnswer
    /\ commits < MaxCommits /\ commits' = commits + 1
    /\ quiet' = (read = NoRead)
    /\ UNCHANGED <<read, answer, logged>>

Commits(i, d) ==
    /\ deals' = [deals EXCEPT ![i] = d]
    /\ UNCHANGED nsi
    /\ Others

\* create_deal and update_deal look at a counterparty they are given only.
Entered(x, c) == [state |-> "OPEN", verdict |-> "NOT_VALIDATED", exchange |-> x,
                  counterparty |-> c, payments |-> {}]

CreateOrUpdate(i) ==
    /\ deals[i].state \in {"ABSENT", "OPEN"}
    /\ \E x \in Exchanges,
          c \in nsi.active \cup {deals[j].counterparty : j \in {i} \cap Existing} :
          Commits(i, Entered(x, c))

\* The first active account of the currency, by id.
Nostro(currency) ==
    LET active == {a \in nsi.accounts : a.active /\ a.currency = currency}
    IN  {a \in active : \A b \in active : a.id <= b.id}

\* validate_deal succeeds: two payments, each under its account's number.
Priced(d) ==
    [d EXCEPT !.verdict = "VALID",
              !.payments = UNION {{[currency |-> c, account |-> a.number] :
                                      a \in Nostro(c)} : c \in {d.exchange[1],
                                                                d.exchange[2]}}]

Validate(i) ==
    /\ deals[i].state = "OPEN"
    /\ deals[i].counterparty \in nsi.active
    /\ deals[i].exchange[1] # deals[i].exchange[2]
    /\ \A k \in {1, 2} : /\ deals[i].exchange[k] \in nsi.currencies
                         /\ Nostro(deals[i].exchange[k]) # {}
    /\ Commits(i, Priced(deals[i]))

\* Any failed check; the payments stay.
Invalidate(i) ==
    /\ deals[i].state = "OPEN"
    /\ Commits(i, [deals[i] EXCEPT !.verdict = "INVALID"])

Cancel(i) ==
    /\ deals[i].state = "OPEN"
    /\ Commits(i, [deals[i] EXCEPT !.state = "CANCELLED"])

\* A currency that payments name cannot be deleted; those of a deal can.
MaintainNsiUnchecked ==
    /\ nsi' \in Reference \ {nsi}
    /\ UNCHANGED deals
    /\ Others
MaintainNsi ==
    /\ nsi' \in Reference \ {nsi}
    /\ \A i \in Existing :
          {p.currency : p \in deals[i].payments} \subseteq nsi'.currencies
    /\ UNCHANGED deals
    /\ Others

-----------------------------------------------------------------------------
(***************************************************************************)
(* The SELECTs of the report, in their order                               *)
(***************************************************************************)
\* The columns of a deal that the report looks at; its payments come later.
Row(d) == [verdict |-> d.verdict, exchange |-> d.exchange,
           counterparty |-> d.counterparty, payments |-> {}]

Listed(scope) == {i \in scope \cap Existing : deals[i].state # "CANCELLED"}

ReadDeals ==
    /\ read = NoRead /\ answer = NoAnswer
    /\ \E scope \in SUBSET Ids :
          read' = [NoRead EXCEPT
                      !.step = "rows",
                      !.asked = scope \cap Existing,
                      !.rows = [i \in Listed(scope) |-> Row(deals[i])]]
    /\ logged' = NoEntry /\ quiet' = TRUE
    /\ UNCHANGED <<deals, nsi, answer, commits>>

\* The next SELECT, on a database that may have moved on.
Reads(from, new) ==
    /\ read.step = from
    /\ read' = new
    /\ UNCHANGED <<deals, nsi, answer, logged, commits, quiet>>

ReadPayments ==
    Reads("rows", [read EXCEPT !.step = "payments",
                      !.rows = [i \in DOMAIN @ |->
                                   [@[i] EXCEPT !.payments = deals[i].payments]]])

ReadCounterparties ==
    Reads("payments", [read EXCEPT !.step = "parties", !.complete = nsi.complete])

ReadCurrencies ==
    Reads("parties", [read EXCEPT !.step = "currencies",
                                  !.currencies = nsi.currencies])

\* {account.account_number: account}: of equal numbers the last one by id.
ByNumber(accounts) ==
    [number \in {a.number : a \in accounts} |->
        CHOOSE a \in accounts :
            /\ a.number = number
            /\ \A b \in accounts : b.number = number => b.id <= a.id]

ReadNumbers ==
    Reads("currencies", [read EXCEPT !.step = "numbers",
                                     !.byNumber = ByNumber(nsi.accounts)])

\* {account.id: account}: the session hands out the objects it still holds,
\* as they were read the first time.
ById(accounts, byNumber) ==
    [id \in {a.id : a \in accounts} |->
        LET held == {a \in {byNumber[n] : n \in DOMAIN byNumber} : a.id = id}
        IN  CHOOSE a \in (IF held # {} THEN held ELSE accounts) : a.id = id]

-----------------------------------------------------------------------------
(***************************************************************************)
(* The check and the answer                                                *)
(***************************************************************************)
NoAccount == [id |-> 0]

ResolveByNumber(code, byNumber, byId) ==
    IF code \in DOMAIN byNumber THEN byNumber[code] ELSE NoAccount
Resolve(code, byNumber, byId) ==
    IF code \in DOMAIN byNumber THEN byNumber[code]
    ELSE IF code \in DOMAIN byId THEN byId[code] ELSE NoAccount

UsableIfThere(a) == a # NoAccount
Usable(a) == a # NoAccount /\ a.active

UnknownBought(d, currencies) == {d.exchange[1]} \ currencies
Unknown(d, currencies) == {d.exchange[1], d.exchange[2]} \ currencies

\* _validate_nsi
Faults(d, r, byId) ==
    {"counterparty" : c \in {d.counterparty} \ r.complete}
    \cup {"currency" : c \in Unknown(d, r.currencies)}
    \cup {"account" : p \in {p \in d.payments :
                               ~Usable(Resolve(p.account, r.byNumber, byId))}}

Errors(r, byId) ==
    UNION {{[deal |-> i, field |-> f] : f \in Faults(r.rows[i], r, byId)} :
              i \in {i \in DOMAIN r.rows : r.rows[i].verdict = "VALID"}}

\* currencies[deal.buy_currency] raises a KeyError.
Missing(r) == {i \in DOMAIN r.rows :
                  \E k \in {1, 2} : r.rows[i].exchange[k] \notin r.currencies}

\* _serialize_deal
Item(i, d, byNumber, byId) ==
    [deal |-> i, verdict |-> d.verdict, exchange |-> d.exchange,
     lines |-> {[payment |-> p, account |-> Resolve(p.account, byNumber, byId)] :
                   p \in d.payments}]

\* CSV has one row for each payment, and nothing of a deal without payments.
Formats == {"json", "csv"}
Rendered(items, format) ==
    IF format = "json" THEN items ELSE {item \in items : item.lines # {}}

Answered(a) == answer' = a /\ read' = NoRead /\ UNCHANGED <<deals, nsi, commits, quiet>>

\* The entry is filed under the first deal read and committed; then 422, if
\* the answer to the commit arrives.
Refuse(errors) ==
    /\ logged' = [deal |-> CHOOSE i \in DOMAIN read.rows :
                              \A j \in DOMAIN read.rows : i <= j,
                  errors |-> errors]
    /\ Answered([kind |-> "errors", errors |-> errors]) \/ Answered(NoAnswer)

\* After the last SELECT nothing else is awaited.
Conclude ==
    /\ read.step = "numbers"
    /\ LET byId == ById(nsi.accounts, read.byNumber)
           errors == Errors(read, byId)
       IN  IF errors # {} THEN Refuse(errors)
           ELSE /\ UNCHANGED logged
                /\ IF Missing(read) # {}
                   THEN Answered([kind |-> "crash", missing |-> Missing(read),
                                  rows |-> read.rows])
                   ELSE \E format \in Formats :
                           Answered([kind |-> "items", asked |-> read.asked,
                                     items |-> Rendered(
                                        {Item(i, read.rows[i], read.byNumber, byId) :
                                            i \in DOMAIN read.rows}, format)])

\* A lost connection, a commit that fails, a client gone.
Abort ==
    /\ read # NoRead
    /\ answer' = NoAnswer /\ read' = NoRead /\ quiet' = TRUE
    /\ UNCHANGED <<deals, nsi, logged, commits>>

\* The answer has been delivered.
Deliver ==
    /\ answer # NoAnswer
    /\ answer' = NoAnswer /\ logged' = NoEntry /\ quiet' = TRUE
    /\ UNCHANGED <<deals, nsi, read, commits>>

Next ==
    \/ \E i \in Ids : CreateOrUpdate(i) \/ Validate(i) \/ Invalidate(i) \/ Cancel(i)
    \/ MaintainNsi
    \/ ReadDeals \/ ReadPayments \/ ReadCounterparties \/ ReadCurrencies
    \/ ReadNumbers \/ Conclude \/ Abort \/ Deliver

Spec == Init /\ [][Next]_vars

-----------------------------------------------------------------------------
(***************************************************************************)
(* Properties                                                              *)
(***************************************************************************)
PaymentSets == SUBSET [currency: Currencies, account: Nat]
Deals == [state: States, verdict: Verdicts, exchange: Exchanges,
          counterparty: Counterparties, payments: PaymentSets]
Rows == [verdict: Verdicts, exchange: Exchanges, counterparty: Counterparties,
         payments: PaymentSets]

\* The types of the rows and the foreign key of a payment's currency; a report
\* in progress has an empty answer.
TypeOK ==
    /\ \A i \in Existing :
          /\ deals[i] \in Deals
          /\ \A p \in deals[i].payments : p.currency \in nsi.currencies
    /\ nsi \in Reference
    /\ read.step \in {"none", "rows", "payments", "parties", "currencies", "numbers"}
    /\ DOMAIN read.rows \subseteq read.asked /\ read.asked \subseteq Existing
    /\ \A i \in DOMAIN read.rows : read.rows[i] \in Rows
    /\ answer.kind \in {"none", "items", "errors", "crash"}
    /\ read # NoRead => answer = NoAnswer
    /\ logged.deal \in Ids \cup {0}
    /\ commits \in 0..MaxCommits /\ quiet \in BOOLEAN

\* Whatever changes between its SELECTs, a report names for every payment of
\* a VALID deal an account that was active when it was read; and it lists the
\* two payments of an exchange or, for a deal edited meanwhile, none.
ExportResolved ==
    answer.kind = "items" =>
        \A item \in answer.items :
            /\ item.verdict = "VALID" =>
                  \A l \in item.lines : l.account # NoAccount /\ l.account.active
            /\ item.lines = {} \/ \E x \in Exchanges :
                  {l.payment.currency : l \in item.lines} = {x[1], x[2]}

\* The only way to crash is a deal that nobody has found VALID and whose
\* currency the NSI does not have: for VALID deals, the check finds whatever
\* serialising would trip over, also if the currency went after the deal
\* was read.
CrashExplained ==
    answer.kind = "crash" =>
        /\ answer.missing # {}
        /\ \A i \in answer.missing : answer.rows[i].verdict # "VALID"

\* The accounts a payment's code stands for, as their number or as their id.
Carriers(code) == {a \in nsi.accounts : code \in {a.number, a.id}}

\* Nothing in the database, as it is now, stands against reporting deal d.
Impeccable(d) ==
    /\ d.counterparty \in nsi.complete
    /\ {d.exchange[1], d.exchange[2]} \subseteq nsi.currencies
    /\ \A p \in d.payments : /\ Carriers(p.account) # {}
                             /\ \A a \in Carriers(p.account) : a.active

\* With nothing committed while it runs, a report is refused only for VALID
\* deals with which something is wrong, and the audit log has the same
\* errors; otherwise it lists, in either format, each VALID deal asked for
\* that is not cancelled, with both of its payments and for each of them one
\* account its code stands for.
ExactWhenQuiet ==
    quiet =>
        /\ answer.kind = "errors" =>
              /\ logged.errors = answer.errors
              /\ \A e \in answer.errors : /\ deals[e.deal].verdict = "VALID"
                                         /\ ~Impeccable(deals[e.deal])
        /\ answer.kind = "items" =>
              \A i \in answer.asked :
                  deals[i].verdict = "VALID" /\ deals[i].state # "CANCELLED" =>
                      \E item \in answer.items : item.deal = i
        /\ answer.kind = "items" =>
              \A item \in answer.items : item.verdict = "VALID" =>
                  /\ deals[item.deal].counterparty \in nsi.complete
                  /\ Cardinality(item.lines) = 2
                  /\ {l.payment : l \in item.lines} = deals[item.deal].payments
                  /\ \A l \in item.lines : l.account \in Carriers(l.payment.account)

\* "Either no register is made or a protocol of errors is" (G.38): a report
\* ends in items or in errors.
\* Violated: a draft in a currency the NSI does not have.
NeverCrashes == answer.kind # "crash"

=============================================================================
