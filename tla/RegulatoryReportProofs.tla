----------------------- MODULE RegulatoryReportProofs -----------------------
(***************************************************************************)
(* Proofs about RegulatoryReport, for any deals, exchanges, counterparties *)
(* and states of the reference data and any number of commits: what a      *)
(* report may say although the database moves on between its SELECTs.      *)
(***************************************************************************)
EXTENDS RegulatoryReport, OrderFacts

-----------------------------------------------------------------------------
(***************************************************************************)
(* The inductive invariant: what holds of the deals, of a report in        *)
(* progress, and of one that nothing has overtaken.                        *)
(***************************************************************************)
\* The payments of an exchange, or none.
Exchanged(P) == P = {} \/ \E x \in Exchanges : {p.currency : p \in P} = {x[1], x[2]}

\* A VALID deal has two payments.
Two(P) == \E p, q \in P : p # q /\ P = {p, q}

DealsSound ==
    /\ deals \in [Ids -> Deals \cup {Absent}]
    /\ \A i \in Existing :
          /\ Exchanged(deals[i].payments)
          /\ deals[i].verdict = "VALID" => Two(deals[i].payments)

Steps == {"none", "rows", "payments", "parties", "currencies", "numbers"}

\* What has been read is a part of what was asked for, and has every deal of
\* it that is not cancelled.
ReadSound ==
    /\ read = [step |-> read.step, asked |-> read.asked, rows |-> read.rows,
               complete |-> read.complete, currencies |-> read.currencies,
               byNumber |-> read.byNumber]
    /\ read.step = "none" => read = NoRead
    /\ read.rows = [i \in DOMAIN read.rows |-> read.rows[i]]
    /\ \A i \in DOMAIN read.rows : Exchanged(read.rows[i].payments)
    /\ \A i \in read.asked : deals[i].state # "CANCELLED" => i \in DOMAIN read.rows

\* Without a commit in between, what has been read is what is there.
ReadFresh ==
    quiet =>
      /\ \A i \in DOMAIN read.rows :
            /\ read.rows[i].verdict = deals[i].verdict
            /\ read.rows[i].exchange = deals[i].exchange
            /\ read.rows[i].counterparty = deals[i].counterparty
            /\ read.step # "rows" => read.rows[i].payments = deals[i].payments
      /\ read.step \in {"parties", "currencies", "numbers"}
            => read.complete = nsi.complete
      /\ read.step \in {"currencies", "numbers"} => read.currencies = nsi.currencies
      /\ read.step = "numbers" => read.byNumber = ByNumber(nsi.accounts)

\* An answer is one of four things.
AnswerShaped == answer.kind = "none" => answer = NoAnswer

IInv == /\ TypeOK /\ DealsSound /\ ReadSound /\ ReadFresh /\ AnswerShaped
        /\ ExportResolved /\ CrashExplained /\ ExactWhenQuiet

-----------------------------------------------------------------------------
(***************************************************************************)
(* What the operators yield.                                               *)
(***************************************************************************)
\* The currencies of an exchange are currencies.
LEMMA ExchangeType ==
    ASSUME NEW x \in Exchanges
    PROVE  x[1] \in Currencies /\ x[2] \in Currencies
BY DEF Currencies

\* A deal that is there has a row; one that is not has none.
LEMMA ExistingFacts ==
    ASSUME DealsSound, NEW i \in Ids
    PROVE  /\ i \in Existing <=> deals[i] \in Deals
           /\ i \notin Existing <=> deals[i] = Absent
           /\ i \notin Existing <=> deals[i].state = "ABSENT"
BY DEF DealsSound, Existing, Absent, Deals, States

\* A currency with an active account has one that comes first.
LEMMA NostroFacts ==
    ASSUME nsi \in Reference, NEW c, Nostro(c) # {}
    PROVE  \E a \in nsi.accounts : Nostro(c) = {a} /\ a.currency = c
<1>1. NsiShape(nsi)
  BY ReferenceAssumption
<1>2. PICK a : a \in Nostro(c)
  OBVIOUS
<1>3. ASSUME NEW b \in Nostro(c)
      PROVE  b = a
  <2>1. /\ a \in nsi.accounts /\ b \in nsi.accounts
        /\ a.id <= b.id /\ b.id <= a.id
    BY <1>2, <1>3 DEF Nostro
  <2>2. a.id \in Nat /\ b.id \in Nat
    BY <1>1, <2>1 DEF NsiShape, Accounts
  <2>3. a.id = b.id
    BY <2>1, <2>2
  <2>4. QED
    BY <1>1, <2>1, <2>3 DEF NsiShape
<1>4. a \in nsi.accounts /\ a.currency = c
  BY <1>2 DEF Nostro
<1>5. QED
  BY <1>2, <1>3, <1>4

\* Of the accounts of one number the map has one.
LEMMA ByNumberFacts ==
    ASSUME NEW A \in SUBSET Accounts, IsFiniteSet(A), NEW n \in DOMAIN ByNumber(A)
    PROVE  ByNumber(A)[n] \in A /\ ByNumber(A)[n].number = n
<1> DEFINE same == {a \in A : a.number = n}
           ids == {a.id : a \in same}
<1>1. n \in {a.number : a \in A}
  BY DEF ByNumber
<1>2. ids \in SUBSET Nat /\ ids # {}
  BY <1>1 DEF Accounts
<1>3. IsFiniteSet(ids)
  <2>1. IsFiniteSet(same)
    BY FS_Subset
  <2> DEFINE f == [a \in same |-> a.id]
  <2>2. f \in Surjection(same, ids)
    BY DEF Surjection
  <2> HIDE DEF f, same, ids
  <2>3. QED
    BY <2>1, <2>2, FS_Surjection
<1>4. PICK m \in ids : \A k \in ids : k <= m
  <2> HIDE DEF ids
  <2>1. QED
    BY <1>2, <1>3, GreatestElement
<1>5. \E a \in A : /\ a.number = n
                   /\ \A b \in A : b.number = n => b.id <= a.id
  BY <1>4
<1>6. ByNumber(A)[n] = CHOOSE a \in A : /\ a.number = n
                                        /\ \A b \in A : b.number = n => b.id <= a.id
  BY <1>1 DEF ByNumber
<1>7. QED
  BY <1>5, <1>6

\* What a code is resolved to, as long as both maps are of the same accounts:
\* an account with that number or that id; nothing only if there is none.
LEMMA ResolveFacts ==
    ASSUME NEW A \in SUBSET Accounts, IsFiniteSet(A), NEW code,
           NEW r, r = Resolve(code, ByNumber(A), ById(A, ByNumber(A)))
    PROVE  \/ r \in A /\ code \in {r.number, r.id}
           \/ r = NoAccount /\ \A a \in A : code \notin {a.number, a.id}
<1> DEFINE m == ByNumber(A)
           held == {a \in {m[n] : n \in DOMAIN m} : a.id = code}
<1>1. DOMAIN m = {a.number : a \in A}
  BY DEF ByNumber
<1>2. \A n \in DOMAIN m : m[n] \in A /\ m[n].number = n
  BY ByNumberFacts
<1>3. DOMAIN ById(A, m) = {a.id : a \in A}
  BY DEF ById
<1>4. CASE code \in DOMAIN m
  <2>1. r = m[code]
    BY <1>4 DEF Resolve
  <2>2. QED
    BY <1>2, <1>4, <2>1
<1>5. CASE code \notin DOMAIN m /\ code \in DOMAIN ById(A, m)
  <2>1. r = ById(A, m)[code]
    BY <1>5 DEF Resolve
  <2>2. ById(A, m)[code] = CHOOSE a \in (IF held # {} THEN held ELSE A) : a.id = code
    BY <1>3, <1>5 DEF ById
  <2>3. \E a \in (IF held # {} THEN held ELSE A) : a.id = code
    BY <1>3, <1>5
  <2>4. held \subseteq A
    BY <1>2
  <2> HIDE DEF held, m
  <2>5. r \in A /\ r.id = code
    BY <2>1, <2>2, <2>3, <2>4
  <2>6. QED
    BY <2>5
<1>6. CASE code \notin DOMAIN m /\ code \notin DOMAIN ById(A, m)
  <2>1. r = NoAccount
    BY <1>6 DEF Resolve
  <2>2. QED
    BY <1>1, <1>3, <1>6, <2>1
<1>7. QED
  BY <1>4, <1>5, <1>6

-----------------------------------------------------------------------------
(***************************************************************************)
(* The steps of the others.                                                *)
(***************************************************************************)
\* Without an answer there is nothing to be said of one.
LEMMA NothingAnswered ==
    ASSUME answer = NoAnswer
    PROVE  /\ AnswerShaped /\ ExportResolved /\ CrashExplained
           /\ ExactWhenQuiet
           /\ answer.kind \in {"none", "items", "errors", "crash"}
BY DEF NoAnswer, AnswerShaped, ExportResolved, CrashExplained,
       ExactWhenQuiet

\* A report that has read nothing is sound and fresh.
LEMMA NothingRead ==
    ASSUME read = NoRead
    PROVE  /\ ReadSound /\ ReadFresh
           /\ DOMAIN read.rows = {} /\ read.asked = {} /\ read.step = "none"
BY DEF NoRead, ReadSound, ReadFresh

\* What another one commits is no concern of a report that has not begun, and
\* a report in progress is not fresh any more.
LEMMA OthersStep ==
    ASSUME IInv, Others, DealsSound', nsi' \in Reference,
           \A i \in Existing' : \A p \in deals'[i].payments : p.currency \in nsi'.currencies,
           \A i \in Existing : /\ i \in Existing'
                               /\ deals[i].state = "CANCELLED"
                                    => deals'[i].state = "CANCELLED"
    PROVE  IInv'
<1>1. /\ answer = NoAnswer /\ answer' = NoAnswer /\ read' = read /\ logged' = logged
      /\ quiet' = (read = NoRead) /\ commits' = commits + 1 /\ commits < MaxCommits
  BY DEF Others
<1>2. /\ (AnswerShaped /\ ExportResolved /\ CrashExplained)'
      /\ ExactWhenQuiet'
      /\ answer'.kind \in {"none", "items", "errors", "crash"}
  BY <1>1, NothingAnswered DEF NoAnswer, AnswerShaped, ExportResolved,
     CrashExplained, ExactWhenQuiet
<1>3. commits' \in 0..MaxCommits
  BY <1>1, ReportAssumption DEF IInv, TypeOK
<1>4. \A i \in Existing' : deals'[i] \in Deals
  BY DEF DealsSound, Existing
<1>5. TypeOK'
  BY <1>1, <1>2, <1>3, <1>4 DEF IInv, TypeOK
<1>6. ReadSound'
  BY <1>1 DEF IInv, ReadSound, TypeOK
<1>7. ReadFresh'
  BY <1>1, NothingRead DEF ReadFresh
<1>8. QED
  BY <1>2, <1>5, <1>6, <1>7 DEF IInv

\* A deal that is entered, edited, validated or moved.
LEMMA CommitsStep ==
    ASSUME IInv, NEW i \in Ids, NEW d \in Deals, Commits(i, d),
           \A p \in d.payments : p.currency \in nsi.currencies,
           Exchanged(d.payments),
           d.verdict = "VALID" => Two(d.payments),
           deals[i].state # "CANCELLED"
    PROVE  IInv'
<1>1. deals' = [deals EXCEPT ![i] = d] /\ nsi' = nsi /\ Others
  BY DEF Commits
<1>2. /\ deals' \in [Ids -> Deals \cup {Absent}] /\ deals'[i] = d
      /\ \A j \in Ids \ {i} : deals'[j] = deals[j]
  BY <1>1 DEF IInv, DealsSound
<1>3. d # Absent
  BY DEF Deals, Absent, States
<1>4. Existing' = Existing \cup {i}
  BY <1>2, <1>3 DEF Existing
<1>5. DealsSound'
  <2>1. ASSUME NEW j \in Existing'
        PROVE  /\ Exchanged(deals'[j].payments)
               /\ deals'[j].verdict = "VALID" => Two(deals'[j].payments)
    <3>1. CASE j = i
      BY <1>2, <3>1
    <3>2. CASE j # i
      BY <1>2, <1>4, <2>1, <3>2 DEF IInv, DealsSound, Existing
    <3>3. QED
      BY <3>1, <3>2
  <2>2. QED
    BY <1>2, <2>1 DEF DealsSound
<1>6. \A j \in Existing' : \A p \in deals'[j].payments : p.currency \in nsi'.currencies
  BY <1>1, <1>2, <1>4 DEF IInv, TypeOK, Existing
<1>7. \A j \in Existing : /\ j \in Existing'
                          /\ deals[j].state = "CANCELLED"
                               => deals'[j].state = "CANCELLED"
  BY <1>2, <1>4 DEF Existing
<1>8. nsi' \in Reference
  BY <1>1 DEF IInv, TypeOK
<1>9. QED
  BY <1>1, <1>5, <1>6, <1>7, <1>8, OthersStep

LEMMA CreateOrUpdateStep ==
    ASSUME IInv, NEW i \in Ids, CreateOrUpdate(i)
    PROVE  IInv'
<1>1. PICK x \in Exchanges,
           c \in nsi.active \cup {deals[j].counterparty : j \in {i} \cap Existing} :
           Commits(i, Entered(x, c))
  BY DEF CreateOrUpdate
<1>2. c \in Counterparties
  <2>1. CASE c \in nsi.active
    BY <2>1, ReferenceAssumption DEF IInv, TypeOK, NsiShape
  <2>2. CASE c \in {deals[j].counterparty : j \in {i} \cap Existing}
    BY <2>2 DEF IInv, TypeOK, Deals
  <2>3. QED
    BY <1>1, <2>1, <2>2
<1>3. /\ Entered(x, c) \in Deals
      /\ Entered(x, c).payments = {} /\ Entered(x, c).verdict = "NOT_VALIDATED"
  BY <1>2 DEF Entered, Deals, States, Verdicts, PaymentSets
<1>4. deals[i].state # "CANCELLED"
  BY DEF CreateOrUpdate
<1>5. QED
  BY <1>1, <1>3, <1>4, CommitsStep DEF Exchanged

\* The payments of a validation: one for either currency, in that currency.
LEMMA PricedFacts ==
    ASSUME NEW d \in Deals, nsi \in Reference, d.exchange[1] # d.exchange[2],
           \A k \in {1, 2} : Nostro(d.exchange[k]) # {}
    PROVE  LET n == Priced(d) IN
           /\ n \in Deals
           /\ n.verdict = "VALID" /\ n.state = d.state
           /\ Exchanged(n.payments) /\ Two(n.payments)
           /\ \A p \in n.payments : p.currency \in {d.exchange[1], d.exchange[2]}
<1> DEFINE n == Priced(d)
           c1 == d.exchange[1]
           c2 == d.exchange[2]
<1>1. d.exchange \in Exchanges /\ c1 \in Currencies /\ c2 \in Currencies
  BY ExchangeType DEF Deals
<1>2. NsiShape(nsi)
  BY ReferenceAssumption
<1>3. PICK a \in nsi.accounts : Nostro(c1) = {a}
  BY NostroFacts
<1>4. PICK b \in nsi.accounts : Nostro(c2) = {b}
  BY NostroFacts
<1> DEFINE p == [currency |-> c1, account |-> a.number]
           q == [currency |-> c2, account |-> b.number]
<1>5. n.payments = {p, q}
  <2>1. n.payments = UNION {{[currency |-> c, account |-> e.number] : e \in Nostro(c)} :
                               c \in {c1, c2}}
    BY DEF Priced, Deals
  <2> HIDE DEF n, c1, c2
  <2>2. {[currency |-> c1, account |-> e.number] : e \in Nostro(c1)} = {p}
    BY <1>3
  <2>3. {[currency |-> c2, account |-> e.number] : e \in Nostro(c2)} = {q}
    BY <1>4
  <2>4. QED
    BY <2>1, <2>2, <2>3
<1>6. p # q /\ p.currency = c1 /\ q.currency = c2
  OBVIOUS
<1>7. {p, q} \in PaymentSets
  BY <1>1, <1>2, <1>3, <1>4 DEF PaymentSets, NsiShape, Accounts
<1>8. /\ n \in Deals /\ n.verdict = "VALID" /\ n.state = d.state
  <2>1. n = [d EXCEPT !.verdict = "VALID", !.payments = {p, q}]
    BY <1>5 DEF Priced, Deals
  <2> HIDE DEF n, p, q
  <2>2. QED
    BY <1>7, <2>1 DEF Deals, Verdicts
<1>9. {r.currency : r \in n.payments} = {c1, c2}
  <2> HIDE DEF n, p, q, c1, c2
  <2>1. QED
    BY <1>5, <1>6
<1>10. Exchanged(n.payments)
  BY <1>1, <1>9 DEF Exchanged
<1>11. Two(n.payments)
  <2> HIDE DEF n, p, q
  <2>1. QED
    BY <1>5, <1>6 DEF Two
<1>12. \A r \in n.payments : r.currency \in {c1, c2}
  BY <1>9
<1> HIDE DEF n
<1>13. QED
  BY <1>8, <1>10, <1>11, <1>12 DEF n

LEMMA ValidateStep ==
    ASSUME IInv, NEW i \in Ids, Validate(i)
    PROVE  IInv'
<1>1. /\ deals[i].state = "OPEN" /\ Commits(i, Priced(deals[i]))
      /\ deals[i].exchange[1] # deals[i].exchange[2]
      /\ \A k \in {1, 2} : /\ deals[i].exchange[k] \in nsi.currencies
                           /\ Nostro(deals[i].exchange[k]) # {}
  BY DEF Validate
<1>2. deals[i] \in Deals
  BY <1>1, ExistingFacts DEF IInv
<1> DEFINE n == Priced(deals[i])
<1>3. /\ n \in Deals
      /\ Exchanged(n.payments) /\ Two(n.payments)
      /\ \A p \in n.payments :
            p.currency \in {deals[i].exchange[1], deals[i].exchange[2]}
  BY <1>1, <1>2, PricedFacts DEF IInv, TypeOK
<1>4. \A p \in n.payments : p.currency \in nsi.currencies
  BY <1>1, <1>3
<1>5. Commits(i, n) /\ deals[i].state # "CANCELLED"
  BY <1>1
<1> HIDE DEF n
<1>6. QED
  BY <1>3, <1>4, <1>5, CommitsStep

\* A verdict taken back or a cancellation leaves the payments.
LEMMA InvalidateStep ==
    ASSUME IInv, NEW i \in Ids, Invalidate(i)
    PROVE  IInv'
<1> DEFINE n == [deals[i] EXCEPT !.verdict = "INVALID"]
<1>1. deals[i].state = "OPEN" /\ Commits(i, n)
  BY DEF Invalidate
<1>2. deals[i] \in Deals /\ i \in Existing
  BY <1>1, ExistingFacts DEF IInv
<1>3. n \in Deals /\ n.payments = deals[i].payments /\ n.verdict = "INVALID"
  BY <1>2 DEF Deals, Verdicts
<1>4. /\ Exchanged(n.payments)
      /\ \A p \in n.payments : p.currency \in nsi.currencies
  BY <1>2, <1>3 DEF IInv, DealsSound, TypeOK
<1> HIDE DEF n
<1>5. QED
  BY <1>1, <1>3, <1>4, CommitsStep

LEMMA CancelStep ==
    ASSUME IInv, NEW i \in Ids, Cancel(i)
    PROVE  IInv'
<1> DEFINE n == [deals[i] EXCEPT !.state = "CANCELLED"]
<1>1. deals[i].state = "OPEN" /\ Commits(i, n)
  BY DEF Cancel
<1>2. deals[i] \in Deals /\ i \in Existing
  BY <1>1, ExistingFacts DEF IInv
<1>3. n \in Deals /\ n.payments = deals[i].payments /\ n.verdict = deals[i].verdict
  BY <1>2 DEF Deals, States
<1>4. /\ Exchanged(n.payments)
      /\ n.verdict = "VALID" => Two(n.payments)
      /\ \A p \in n.payments : p.currency \in nsi.currencies
  BY <1>2, <1>3 DEF IInv, DealsSound, TypeOK
<1> HIDE DEF n
<1>5. QED
  BY <1>1, <1>3, <1>4, CommitsStep

LEMMA MaintainNsiStep ==
    ASSUME IInv, MaintainNsi
    PROVE  IInv'
<1>1. /\ nsi' \in Reference /\ deals' = deals /\ Others
      /\ \A i \in Existing :
            {p.currency : p \in deals[i].payments} \subseteq nsi'.currencies
  BY DEF MaintainNsi
<1>2. Existing' = Existing
  BY <1>1 DEF Existing
<1>3. DealsSound'
  BY <1>1, <1>2 DEF IInv, DealsSound
<1>4. \A i \in Existing' : \A p \in deals'[i].payments : p.currency \in nsi'.currencies
  BY <1>1, <1>2
<1>5. QED
  BY <1>1, <1>2, <1>3, <1>4, OthersStep

-----------------------------------------------------------------------------
(***************************************************************************)
(* The steps of the report.                                                *)
(***************************************************************************)
\* A SELECT changes what has been read, and only that.
LEMMA SelectStep ==
    ASSUME IInv, UNCHANGED <<deals, nsi, answer, commits>>, answer = NoAnswer,
           logged'.deal \in Ids \cup {0}, quiet' \in BOOLEAN,
           read'.step \in Steps,
           DOMAIN read'.rows \subseteq read'.asked, read'.asked \subseteq Existing,
           \A i \in DOMAIN read'.rows : read'.rows[i] \in Rows,
           ReadSound', ReadFresh'
    PROVE  IInv'
<1>1. answer' = NoAnswer /\ Existing' = Existing
  BY DEF Existing
<1>2. /\ (AnswerShaped /\ ExportResolved /\ CrashExplained)'
      /\ ExactWhenQuiet'
      /\ answer'.kind \in {"none", "items", "errors", "crash"}
  BY <1>1, NothingAnswered DEF NoAnswer, AnswerShaped, ExportResolved,
     CrashExplained, ExactWhenQuiet
<1>3. TypeOK'
  BY <1>1, <1>2 DEF IInv, TypeOK, Steps
<1>4. DealsSound'
  BY <1>1 DEF IInv, DealsSound
<1>5. QED
  BY <1>2, <1>3, <1>4 DEF IInv

\* The deals of the scope, with none of those that are cancelled.
LEMMA ReadDealsStep ==
    ASSUME IInv, ReadDeals
    PROVE  IInv'
<1>1. PICK scope \in SUBSET Ids :
          read' = [NoRead EXCEPT !.step = "rows", !.asked = scope \cap Existing,
                                 !.rows = [i \in Listed(scope) |-> Row(deals[i])]]
  BY DEF ReadDeals
<1>2. /\ answer = NoAnswer /\ logged' = NoEntry /\ quiet' = TRUE
      /\ UNCHANGED <<deals, nsi, answer, commits>>
  BY DEF ReadDeals
<1> DEFINE R == [i \in Listed(scope) |-> Row(deals[i])]
<1>3. read' = [step |-> "rows", asked |-> scope \cap Existing, rows |-> R,
               complete |-> {}, currencies |-> {}, byNumber |-> <<>>]
  BY <1>1 DEF NoRead
<1>4. Listed(scope) \subseteq scope \cap Existing /\ DOMAIN R = Listed(scope)
  BY DEF Listed
<1>5. ASSUME NEW i \in Listed(scope)
      PROVE  /\ R[i] \in Rows /\ R[i].payments = {}
             /\ R[i].verdict = deals[i].verdict /\ R[i].exchange = deals[i].exchange
             /\ R[i].counterparty = deals[i].counterparty
  <2>1. deals[i] \in Deals
    BY <1>4, <1>5 DEF IInv, TypeOK
  <2>2. R[i] = [verdict |-> deals[i].verdict, exchange |-> deals[i].exchange,
                counterparty |-> deals[i].counterparty, payments |-> {}]
    BY <1>5 DEF Row
  <2>3. QED
    BY <2>1, <2>2 DEF Deals, Rows, PaymentSets
<1>6. R = [i \in DOMAIN R |-> R[i]]
  OBVIOUS
<1> HIDE DEF R
<1>7. /\ read'.step = "rows" /\ read'.asked = scope \cap Existing /\ read'.rows = R
      /\ read'.complete = {} /\ read'.currencies = {} /\ read'.byNumber = <<>>
  BY <1>3
<1>8. ReadSound'
  <2>1. \A i \in DOMAIN R : Exchanged(R[i].payments)
    BY <1>4, <1>5 DEF Exchanged
  <2>2. \A i \in scope \cap Existing : deals[i].state # "CANCELLED" => i \in DOMAIN R
    BY <1>4 DEF Listed
  <2>3. QED
    BY <1>2, <1>3, <1>6, <1>7, <2>1, <2>2 DEF ReadSound
<1>9. ReadFresh'
  BY <1>2, <1>4, <1>5, <1>7 DEF ReadFresh
<1>10. logged'.deal \in Ids \cup {0} /\ quiet' \in BOOLEAN /\ read'.step \in Steps
  BY <1>2, <1>7 DEF NoEntry, Steps
<1>11. /\ DOMAIN read'.rows \subseteq read'.asked /\ read'.asked \subseteq Existing
       /\ \A i \in DOMAIN read'.rows : read'.rows[i] \in Rows
  BY <1>4, <1>5, <1>7
<1>12. QED
  BY <1>2, <1>8, <1>9, <1>10, <1>11, SelectStep

\* Every SELECT finds the report in progress, with no answer yet.
LEMMA ReadsFacts ==
    ASSUME IInv, NEW from \in Steps \ {"none"}, NEW new, Reads(from, new)
    PROVE  /\ read.step = from /\ answer = NoAnswer /\ read' = new
           /\ UNCHANGED <<deals, nsi, answer, logged, commits, quiet>>
           /\ logged'.deal \in Ids \cup {0} /\ quiet' \in BOOLEAN
BY DEF Reads, IInv, TypeOK, NoRead, Steps

\* The payments of every row as they are now: an exchange or none.
LEMMA ReadPaymentsStep ==
    ASSUME IInv, ReadPayments
    PROVE  IInv'
<1> DEFINE R == [i \in DOMAIN read.rows |->
                    [read.rows[i] EXCEPT !.payments = deals[i].payments]]
           new == [read EXCEPT !.step = "payments",
                               !.rows = [i \in DOMAIN @ |->
                                  [@[i] EXCEPT !.payments = deals[i].payments]]]
<1>1. /\ read.step = "rows" /\ answer = NoAnswer /\ read' = new
      /\ UNCHANGED <<deals, nsi, answer, logged, commits, quiet>>
      /\ logged'.deal \in Ids \cup {0} /\ quiet' \in BOOLEAN
  <2>1. Reads("rows", new)
    BY DEF ReadPayments
  <2> HIDE DEF new
  <2>2. QED
    BY <2>1, ReadsFacts DEF Steps
<1>2. /\ read'.step = "payments" /\ read'.asked = read.asked /\ read'.rows = R
      /\ read' = [step |-> read'.step, asked |-> read'.asked, rows |-> read'.rows,
                  complete |-> read'.complete, currencies |-> read'.currencies,
                  byNumber |-> read'.byNumber]
  BY <1>1 DEF IInv, ReadSound
<1>3. ASSUME NEW i \in DOMAIN read.rows
      PROVE  /\ R[i] \in Rows /\ Exchanged(R[i].payments)
             /\ R[i].payments = deals[i].payments
             /\ R[i].verdict = read.rows[i].verdict
             /\ R[i].exchange = read.rows[i].exchange
             /\ R[i].counterparty = read.rows[i].counterparty
  <2>1. read.rows[i] \in Rows /\ i \in Existing /\ deals[i] \in Deals
    BY <1>3 DEF IInv, TypeOK
  <2>2. Exchanged(deals[i].payments)
    BY <2>1 DEF IInv, DealsSound
  <2>3. R[i] = [read.rows[i] EXCEPT !.payments = deals[i].payments]
    BY <1>3
  <2>4. QED
    BY <2>1, <2>2, <2>3 DEF Rows, Deals
<1>4. DOMAIN R = DOMAIN read.rows /\ R = [i \in DOMAIN R |-> R[i]]
  OBVIOUS
<1> HIDE DEF R, new
<1>5. ReadSound'
  BY <1>1, <1>2, <1>3, <1>4 DEF IInv, ReadSound
<1>6. ReadFresh'
  BY <1>1, <1>2, <1>3, <1>4 DEF IInv, ReadFresh
<1>7. /\ read'.step \in Steps
      /\ DOMAIN read'.rows \subseteq read'.asked /\ read'.asked \subseteq Existing
      /\ \A i \in DOMAIN read'.rows : read'.rows[i] \in Rows
  BY <1>2, <1>3, <1>4 DEF IInv, TypeOK, Steps
<1>8. QED
  BY <1>1, <1>5, <1>6, <1>7, SelectStep

\* A SELECT of reference data leaves the rows, and is fresh when it is done.
LEMMA ReadReferenceStep ==
    ASSUME IInv,
           \/ ReadCounterparties
           \/ ReadCurrencies
           \/ ReadNumbers
    PROVE  IInv'
<1> DEFINE Kept == /\ read.step # "rows" /\ read'.rows = read.rows
                   /\ read'.asked = read.asked
                   /\ read' = [step |-> read'.step, asked |-> read'.asked,
                               rows |-> read'.rows, complete |-> read'.complete,
                               currencies |-> read'.currencies,
                               byNumber |-> read'.byNumber]
           Still == /\ answer = NoAnswer
                    /\ UNCHANGED <<deals, nsi, answer, logged, commits, quiet>>
                    /\ logged'.deal \in Ids \cup {0} /\ quiet' \in BOOLEAN
<1>1. CASE ReadCounterparties
  <2> DEFINE new == [read EXCEPT !.step = "parties", !.complete = nsi.complete]
  <2>1. Reads("payments", new)
    BY <1>1 DEF ReadCounterparties
  <2>2. read.step = "payments" /\ read' = new /\ Still
    <3> HIDE DEF new
    <3>1. QED
      BY <2>1, ReadsFacts DEF Steps
  <2>3. Kept /\ read'.step = "parties" /\ read'.complete = nsi.complete
    BY <2>2 DEF IInv, ReadSound
  <2> HIDE DEF new
  <2>4. ReadSound' /\ ReadFresh'
    BY <2>2, <2>3 DEF IInv, ReadSound, ReadFresh
  <2>5. QED
    BY <2>2, <2>3, <2>4, SelectStep DEF IInv, TypeOK, Steps
<1>2. CASE ReadCurrencies
  <2> DEFINE new == [read EXCEPT !.step = "currencies", !.currencies = nsi.currencies]
  <2>1. Reads("parties", new)
    BY <1>2 DEF ReadCurrencies
  <2>2. read.step = "parties" /\ read' = new /\ Still
    <3> HIDE DEF new
    <3>1. QED
      BY <2>1, ReadsFacts DEF Steps
  <2>3. /\ Kept /\ read'.step = "currencies" /\ read'.currencies = nsi.currencies
        /\ read'.complete = read.complete
    BY <2>2 DEF IInv, ReadSound
  <2> HIDE DEF new
  <2>4. ReadSound' /\ ReadFresh'
    BY <2>2, <2>3 DEF IInv, ReadSound, ReadFresh
  <2>5. QED
    BY <2>2, <2>3, <2>4, SelectStep DEF IInv, TypeOK, Steps
<1>3. CASE ReadNumbers
  <2> DEFINE new == [read EXCEPT !.step = "numbers", !.byNumber = ByNumber(nsi.accounts)]
  <2>1. Reads("currencies", new)
    BY <1>3 DEF ReadNumbers
  <2>2. read.step = "currencies" /\ read' = new /\ Still
    <3> HIDE DEF new
    <3>1. QED
      BY <2>1, ReadsFacts DEF Steps
  <2>3. /\ Kept /\ read'.step = "numbers" /\ read'.byNumber = ByNumber(nsi.accounts)
        /\ read'.complete = read.complete /\ read'.currencies = read.currencies
    BY <2>2 DEF IInv, ReadSound
  <2> HIDE DEF new
  <2>4. ReadSound' /\ ReadFresh'
    BY <2>2, <2>3 DEF IInv, ReadSound, ReadFresh
  <2>5. QED
    BY <2>2, <2>3, <2>4, SelectStep DEF IInv, TypeOK, Steps
<1>4. QED
  BY <1>1, <1>2, <1>3

\* A row without a fault: its counterparty is complete, its currencies are
\* known, each of its payments has an account in use.
LEMMA NoFaults ==
    ASSUME NEW d, NEW r, NEW byId
    PROVE  Faults(d, r, byId) = {} <=>
              /\ d.counterparty \in r.complete
              /\ {d.exchange[1], d.exchange[2]} \subseteq r.currencies
              /\ \A p \in d.payments : Usable(Resolve(p.account, r.byNumber, byId))
<1> DEFINE C == {d.counterparty} \ r.complete
           X == Unknown(d, r.currencies)
           P == {p \in d.payments : ~Usable(Resolve(p.account, r.byNumber, byId))}
<1>1. Faults(d, r, byId) = {"counterparty" : c \in C} \cup {"currency" : c \in X}
                                                      \cup {"account" : p \in P}
  BY DEF Faults
<1>2. C = {} <=> d.counterparty \in r.complete
  OBVIOUS
<1>3. X = {} <=> {d.exchange[1], d.exchange[2]} \subseteq r.currencies
  BY DEF Unknown
<1>4. P = {} <=> \A p \in d.payments : Usable(Resolve(p.account, r.byNumber, byId))
  OBVIOUS
<1> HIDE DEF C, X, P
<1>5. Faults(d, r, byId) = {} <=> C = {} /\ X = {} /\ P = {}
  BY <1>1
<1>6. QED
  BY <1>2, <1>3, <1>4, <1>5

\* Errors are about rows found VALID and the faults of these.
LEMMA ErrorsFacts ==
    ASSUME NEW r, NEW byId
    PROVE  /\ \A e \in Errors(r, byId) :
                 /\ e.deal \in DOMAIN r.rows /\ r.rows[e.deal].verdict = "VALID"
                 /\ Faults(r.rows[e.deal], r, byId) # {}
           /\ Errors(r, byId) = {} =>
                 \A i \in DOMAIN r.rows :
                    r.rows[i].verdict = "VALID" => Faults(r.rows[i], r, byId) = {}
<1> DEFINE V == {i \in DOMAIN r.rows : r.rows[i].verdict = "VALID"}
           of(i) == {[deal |-> i, field |-> f] : f \in Faults(r.rows[i], r, byId)}
<1>1. Errors(r, byId) = UNION {of(i) : i \in V}
  BY DEF Errors
<1>2. \A i \in V : \A e \in of(i) : e.deal = i /\ Faults(r.rows[i], r, byId) # {}
  OBVIOUS
<1>3. \A i \in V : of(i) = {} => Faults(r.rows[i], r, byId) = {}
  OBVIOUS
<1>4. \A i : i \in V <=> i \in DOMAIN r.rows /\ r.rows[i].verdict = "VALID"
  OBVIOUS
<1> HIDE DEF V, of
<1>5. QED
  BY <1>1, <1>2, <1>3, <1>4

\* What an account code is resolved to if nothing was committed meanwhile.
LEMMA QuietResolve ==
    ASSUME IInv, quiet, read.step = "numbers", NEW code,
           NEW r, r = Resolve(code, read.byNumber, ById(nsi.accounts, read.byNumber))
    PROVE  \/ r \in Carriers(code)
           \/ r = NoAccount /\ Carriers(code) = {}
<1>1. read.byNumber = ByNumber(nsi.accounts)
  BY DEF IInv, ReadFresh
<1>2. nsi.accounts \in SUBSET Accounts /\ IsFiniteSet(nsi.accounts)
  BY ReferenceAssumption DEF IInv, TypeOK, NsiShape
<1>3. \/ r \in nsi.accounts /\ code \in {r.number, r.id}
      \/ r = NoAccount /\ \A a \in nsi.accounts : code \notin {a.number, a.id}
  BY <1>1, <1>2, ResolveFacts
<1>4. QED
  BY <1>3 DEF Carriers

\* What has been read if nothing was committed meanwhile.
LEMMA QuietRow ==
    ASSUME IInv, quiet, read.step = "numbers", NEW i \in DOMAIN read.rows
    PROVE  /\ read.rows[i].verdict = deals[i].verdict
           /\ read.rows[i].exchange = deals[i].exchange
           /\ read.rows[i].counterparty = deals[i].counterparty
           /\ read.rows[i].payments = deals[i].payments
           /\ read.complete = nsi.complete /\ read.currencies = nsi.currencies
BY DEF IInv, ReadFresh

\* A refusal is filed under a deal that was read, and in a quiet database it
\* is for a reason.
LEMMA RefuseStep ==
    ASSUME IInv, read.step = "numbers",
           NEW byId, byId = ById(nsi.accounts, read.byNumber),
           NEW errors, errors = Errors(read, byId), errors # {}, Refuse(errors)
    PROVE  IInv'
<1> DEFINE D == DOMAIN read.rows
<1>1. /\ UNCHANGED <<deals, nsi, commits, quiet>> /\ read' = NoRead
      /\ \/ answer' = [kind |-> "errors", errors |-> errors]
         \/ answer' = NoAnswer
      /\ logged' = [deal |-> CHOOSE i \in D : \A j \in D : i <= j, errors |-> errors]
  BY DEF Refuse, Answered
<1>2. D \subseteq Ids /\ Ids \subseteq Nat /\ D # {}
  <2>1. D # {}
    BY ErrorsFacts
  <2>2. QED
    BY <2>1, ReportAssumption DEF IInv, TypeOK, Existing
<1>3. logged'.deal \in Ids /\ logged'.errors = errors
  <2>1. \E i \in D : \A j \in D : i <= j
    <3> HIDE DEF D
    <3>1. QED
      BY <1>2, LeastElement
  <2>2. QED
    BY <1>1, <1>2, <2>1
<1>4. (ReadSound /\ ReadFresh)' /\ DOMAIN read'.rows = {} /\ read'.asked = {}
      /\ read'.step = "none"
  BY <1>1 DEF NoRead, ReadSound, ReadFresh
<1>5. Existing' = Existing
  BY <1>1 DEF Existing
<1>6. ASSUME quiet, NEW e \in errors
      PROVE  deals[e.deal].verdict = "VALID" /\ ~Impeccable(deals[e.deal])
  <2> DEFINE i == e.deal
  <2>1. /\ i \in D /\ read.rows[i].verdict = "VALID"
        /\ Faults(read.rows[i], read, byId) # {}
    BY <1>6, ErrorsFacts
  <2>2. /\ deals[i].verdict = "VALID"
        /\ read.rows[i].exchange = deals[i].exchange
        /\ read.rows[i].counterparty = deals[i].counterparty
        /\ read.rows[i].payments = deals[i].payments
        /\ read.complete = nsi.complete /\ read.currencies = nsi.currencies
    BY <1>6, <2>1, QuietRow
  <2>3. ~ /\ deals[i].counterparty \in nsi.complete
          /\ {deals[i].exchange[1], deals[i].exchange[2]} \subseteq nsi.currencies
          /\ \A p \in deals[i].payments :
                Usable(Resolve(p.account, read.byNumber, byId))
    <3> HIDE DEF i
    <3>1. QED
      BY <2>1, <2>2, NoFaults
  <2> HIDE DEF i
  <2>4. ASSUME Impeccable(deals[i])
        PROVE  FALSE
    <3>1. PICK p \in deals[i].payments :
             ~Usable(Resolve(p.account, read.byNumber, byId))
      BY <2>3, <2>4 DEF Impeccable
    <3> DEFINE r == Resolve(p.account, read.byNumber, byId)
    <3>2. Carriers(p.account) # {} /\ \A a \in Carriers(p.account) : a.active
      BY <2>4, <3>1 DEF Impeccable
    <3>3. r \in Carriers(p.account)
      BY <1>6, <3>2, QuietResolve
    <3>4. r # NoAccount
      BY <3>3, ReferenceAssumption DEF Carriers, IInv, TypeOK, NsiShape, Accounts, NoAccount
    <3>5. QED
      BY <3>1, <3>2, <3>3, <3>4 DEF Usable
  <2>5. QED
    BY <2>2, <2>4 DEF i
<1>7. /\ answer'.kind \in {"none", "items", "errors", "crash"}
      /\ answer'.kind # "items" /\ answer'.kind # "crash"
      /\ answer'.kind = "errors" => answer'.errors = errors
      /\ AnswerShaped'
  BY <1>1 DEF NoAnswer, AnswerShaped
<1>8. (ExportResolved /\ CrashExplained)'
  BY <1>7 DEF ExportResolved, CrashExplained
<1>9. ExactWhenQuiet'
  BY <1>1, <1>3, <1>6, <1>7 DEF ExactWhenQuiet, Impeccable, Carriers
<1>10. TypeOK'
  BY <1>1, <1>3, <1>4, <1>5, <1>7 DEF IInv, TypeOK
<1>11. DealsSound'
  BY <1>1, <1>5 DEF IInv, DealsSound
<1>12. QED
  BY <1>4, <1>7, <1>8, <1>9, <1>10, <1>11 DEF IInv

\* After a check without errors whatever is missing is missing for a deal
\* that is not VALID.
LEMMA CrashStep ==
    ASSUME IInv, read.step = "numbers", NEW byId, Errors(read, byId) = {},
           Missing(read) # {}, UNCHANGED logged,
           Answered([kind |-> "crash", missing |-> Missing(read), rows |-> read.rows])
    PROVE  IInv'
<1>1. /\ UNCHANGED <<deals, nsi, commits, quiet, logged>> /\ read' = NoRead
      /\ answer' = [kind |-> "crash", missing |-> Missing(read), rows |-> read.rows]
  BY DEF Answered
<1>2. ASSUME NEW i \in Missing(read)
      PROVE  read.rows[i].verdict # "VALID"
  <2>1. PICK k \in {1, 2} : read.rows[i].exchange[k] \notin read.currencies
    BY DEF Missing
  <2>2. i \in DOMAIN read.rows
    BY DEF Missing
  <2>3. Faults(read.rows[i], read, byId) # {}
    BY <2>1, NoFaults
  <2>4. QED
    BY <2>2, <2>3, ErrorsFacts
<1>3. (ReadSound /\ ReadFresh)' /\ DOMAIN read'.rows = {} /\ read'.asked = {}
      /\ read'.step = "none"
  BY <1>1 DEF NoRead, ReadSound, ReadFresh
<1>4. Existing' = Existing
  BY <1>1 DEF Existing
<1>5. /\ answer'.kind = "crash" /\ answer'.missing = Missing(read)
      /\ answer'.rows = read.rows
  BY <1>1
<1>6. (AnswerShaped /\ ExportResolved /\ ExactWhenQuiet)'
  BY <1>5 DEF AnswerShaped, ExportResolved, ExactWhenQuiet
<1>7. CrashExplained'
  BY <1>2, <1>5 DEF CrashExplained
<1>8. TypeOK'
  BY <1>1, <1>3, <1>4, <1>5 DEF IInv, TypeOK
<1>9. DealsSound'
  BY <1>1, <1>4 DEF IInv, DealsSound
<1>10. QED
  BY <1>3, <1>6, <1>7, <1>8, <1>9 DEF IInv

\* The lines of an item: a payment each, with what its code is resolved to.
LEMMA ItemFacts ==
    ASSUME NEW i, NEW d, NEW byNumber, NEW byId
    PROVE  LET item == Item(i, d, byNumber, byId) IN
           /\ item.deal = i /\ item.verdict = d.verdict
           /\ {l.payment : l \in item.lines} = d.payments
           /\ {l.payment.currency : l \in item.lines} = {p.currency : p \in d.payments}
           /\ \A l \in item.lines :
                 /\ l.payment \in d.payments
                 /\ l.account = Resolve(l.payment.account, byNumber, byId)
           /\ d.payments = {} => item.lines = {}
           /\ Two(d.payments) => Cardinality(item.lines) = 2
<1> DEFINE item == Item(i, d, byNumber, byId)
           line(p) == [payment |-> p, account |-> Resolve(p.account, byNumber, byId)]
<1>1. item.deal = i /\ item.verdict = d.verdict
  BY DEF Item
<1>2. item.lines = {line(p) : p \in d.payments}
  BY DEF Item
<1>3. \A p : line(p).payment = p /\ line(p).account = Resolve(p.account, byNumber, byId)
  OBVIOUS
<1> HIDE DEF item, line
<1>4. {l.payment : l \in item.lines} = d.payments
  BY <1>2, <1>3
<1>5. {l.payment.currency : l \in item.lines} = {p.currency : p \in d.payments}
  BY <1>2, <1>3
<1>6. \A l \in item.lines : /\ l.payment \in d.payments
                            /\ l.account = Resolve(l.payment.account, byNumber, byId)
  BY <1>2, <1>3
<1>7. ASSUME Two(d.payments)
      PROVE  Cardinality(item.lines) = 2
  <2>1. PICK p \in d.payments, q \in d.payments : p # q /\ d.payments = {p, q}
    BY <1>7 DEF Two
  <2>2. item.lines = {line(p)} \cup {line(q)}
    BY <1>2, <2>1
  <2>3. line(p) # line(q)
    BY <1>3, <2>1
  <2>4. IsFiniteSet({line(p)}) /\ Cardinality({line(p)}) = 1
    BY FS_Singleton
  <2>5. QED
    BY <2>2, <2>3, <2>4, FS_AddElement
<1>8. QED
  BY <1>1, <1>2, <1>4, <1>5, <1>6, <1>7 DEF item

\* A report without errors has, in JSON, every deal it has read, in CSV those
\* with payments; and of the VALID ones every payment with an account in use.
LEMMA ItemsStep ==
    ASSUME IInv, read.step = "numbers",
           NEW byId, byId = ById(nsi.accounts, read.byNumber),
           Errors(read, byId) = {}, UNCHANGED logged,
           NEW format \in Formats,
           Answered([kind |-> "items", asked |-> read.asked,
                     items |-> Rendered(
                        {Item(i, read.rows[i], read.byNumber, byId) :
                            i \in DOMAIN read.rows}, format)])
    PROVE  IInv'
<1> DEFINE it(i) == Item(i, read.rows[i], read.byNumber, byId)
           items == Rendered({it(i) : i \in DOMAIN read.rows}, format)
<1>1. /\ UNCHANGED <<deals, nsi, commits, quiet, logged>> /\ read' = NoRead
      /\ answer' = [kind |-> "items", asked |-> read.asked, items |-> items]
  BY DEF Answered
<1>2. (ReadSound /\ ReadFresh)' /\ DOMAIN read'.rows = {} /\ read'.asked = {}
      /\ read'.step = "none"
  BY <1>1 DEF NoRead, ReadSound, ReadFresh
<1>3. Existing' = Existing
  BY <1>1 DEF Existing
<1>4. ASSUME NEW i \in DOMAIN read.rows
      PROVE  /\ it(i).deal = i /\ it(i).verdict = read.rows[i].verdict
             /\ {l.payment : l \in it(i).lines} = read.rows[i].payments
             /\ {l.payment.currency : l \in it(i).lines}
                   = {p.currency : p \in read.rows[i].payments}
             /\ \A l \in it(i).lines :
                   /\ l.payment \in read.rows[i].payments
                   /\ l.account = Resolve(l.payment.account, read.byNumber, byId)
             /\ read.rows[i].payments = {} => it(i).lines = {}
             /\ Two(read.rows[i].payments) => Cardinality(it(i).lines) = 2
  BY ItemFacts
<1>5. ASSUME NEW i \in DOMAIN read.rows, read.rows[i].verdict = "VALID"
      PROVE  /\ read.rows[i].counterparty \in read.complete
             /\ \A p \in read.rows[i].payments :
                   Usable(Resolve(p.account, read.byNumber, byId))
  BY <1>5, ErrorsFacts, NoFaults
<1>6. \A j \in items : \E i \in DOMAIN read.rows : j = it(i)
  BY DEF Rendered
<1>7. \A i \in DOMAIN read.rows : it(i).lines # {} => it(i) \in items
  BY DEF Rendered
<1> HIDE DEF it, items
<1>8. /\ answer'.kind = "items" /\ answer'.asked = read.asked /\ answer'.items = items
  BY <1>1
<1>9. ExportResolved'
  <2>1. ASSUME NEW j \in items
        PROVE  /\ j.verdict = "VALID" =>
                     \A l \in j.lines : l.account # NoAccount /\ l.account.active
               /\ j.lines = {} \/ \E x \in Exchanges :
                     {l.payment.currency : l \in j.lines} = {x[1], x[2]}
    <3>1. PICK i \in DOMAIN read.rows : j = it(i)
      BY <1>6
    <3>2. j.verdict = "VALID" =>
             \A l \in j.lines : l.account # NoAccount /\ l.account.active
      BY <1>4, <1>5, <3>1 DEF Usable
    <3>3. Exchanged(read.rows[i].payments)
      BY DEF IInv, ReadSound
    <3>4. QED
      BY <1>4, <3>1, <3>2, <3>3 DEF Exchanged
  <2>2. QED
    BY <1>8, <2>1 DEF ExportResolved
<1>10. ASSUME quiet, NEW i \in read.asked, deals[i].verdict = "VALID",
              deals[i].state # "CANCELLED"
       PROVE  \E j \in items : j.deal = i
  <2>1. i \in DOMAIN read.rows
    BY <1>10 DEF IInv, ReadSound
  <2>2. read.rows[i].payments = deals[i].payments
    BY <1>10, <2>1, QuietRow
  <2>3. Two(deals[i].payments)
    BY <1>10, <2>1 DEF IInv, DealsSound, TypeOK
  <2>4. it(i).lines # {}
    BY <1>4, <2>1, <2>2, <2>3 DEF Two
  <2>5. QED
    BY <1>4, <1>7, <2>1, <2>4
<1>11. ASSUME quiet, NEW j \in items, j.verdict = "VALID"
       PROVE  /\ deals[j.deal].counterparty \in nsi.complete
              /\ Cardinality(j.lines) = 2
              /\ {l.payment : l \in j.lines} = deals[j.deal].payments
              /\ \A l \in j.lines : l.account \in Carriers(l.payment.account)
  <2>1. PICK i \in DOMAIN read.rows : j = it(i)
    BY <1>6
  <2>2. j.deal = i /\ read.rows[i].verdict = "VALID"
    BY <1>4, <1>11, <2>1
  <2>3. /\ read.rows[i].verdict = deals[i].verdict
        /\ read.rows[i].counterparty = deals[i].counterparty
        /\ read.rows[i].payments = deals[i].payments
        /\ read.complete = nsi.complete
    BY <1>11, QuietRow
  <2>4. Two(deals[i].payments)
    BY <2>2, <2>3 DEF IInv, DealsSound, TypeOK
  <2>5. ASSUME NEW l \in j.lines
        PROVE  l.account \in Carriers(l.payment.account)
    <3>1. /\ l.payment \in read.rows[i].payments
          /\ l.account = Resolve(l.payment.account, read.byNumber, byId)
      BY <1>4, <2>1, <2>5
    <3>2. l.account # NoAccount
      BY <1>5, <2>2, <3>1 DEF Usable
    <3>3. QED
      BY <1>11, <3>1, <3>2, QuietResolve
  <2>6. QED
    BY <1>4, <1>5, <2>1, <2>2, <2>3, <2>4, <2>5
<1>12. ExactWhenQuiet'
  BY <1>1, <1>8, <1>10, <1>11 DEF ExactWhenQuiet, Carriers
<1>13. (AnswerShaped /\ CrashExplained)'
  BY <1>8 DEF AnswerShaped, CrashExplained
<1>14. TypeOK'
  BY <1>1, <1>2, <1>3, <1>8 DEF IInv, TypeOK
<1>15. DealsSound'
  BY <1>1, <1>3 DEF IInv, DealsSound
<1>16. QED
  BY <1>2, <1>9, <1>12, <1>13, <1>14, <1>15 DEF IInv

LEMMA ConcludeStep ==
    ASSUME IInv, Conclude
    PROVE  IInv'
<1> DEFINE byId == ById(nsi.accounts, read.byNumber)
           errors == Errors(read, byId)
<1>1. read.step = "numbers"
  BY DEF Conclude
<1>2. CASE errors # {}
  <2>1. Refuse(errors)
    BY <1>2 DEF Conclude
  <2> HIDE DEF errors, byId
  <2>2. QED
    BY <1>1, <1>2, <2>1, RefuseStep DEF errors, byId
<1>3. CASE errors = {} /\ Missing(read) # {}
  <2>1. /\ UNCHANGED logged
        /\ Answered([kind |-> "crash", missing |-> Missing(read), rows |-> read.rows])
    BY <1>3 DEF Conclude
  <2> HIDE DEF byId
  <2>2. QED
    BY <1>1, <1>3, <2>1, CrashStep
<1>4. CASE errors = {} /\ Missing(read) = {}
  <2>1. /\ UNCHANGED logged
        /\ \E format \in Formats :
              Answered([kind |-> "items", asked |-> read.asked,
                        items |-> Rendered(
                           {Item(i, read.rows[i], read.byNumber, byId) :
                               i \in DOMAIN read.rows}, format)])
    BY <1>4 DEF Conclude
  <2>2. Errors(read, byId) = {}
    BY <1>4
  <2>3. QED
    BY <1>1, <2>1, <2>2, ItemsStep
<1>5. QED
  BY <1>2, <1>3, <1>4

LEMMA AbortStep ==
    ASSUME IInv, Abort
    PROVE  IInv'
<1>1. /\ UNCHANGED <<deals, nsi, logged, commits>> /\ answer' = NoAnswer
      /\ read' = NoRead /\ quiet' = TRUE /\ answer = NoAnswer
  BY DEF Abort, IInv, TypeOK
<1>2. (ReadSound /\ ReadFresh)' /\ DOMAIN read'.rows = {} /\ read'.asked = {}
      /\ read'.step \in Steps
  BY <1>1 DEF NoRead, ReadSound, ReadFresh, Steps
<1>3. QED
  BY <1>1, <1>2, SelectStep DEF IInv, TypeOK

\* While there is an answer, nothing is being read.
LEMMA DeliverStep ==
    ASSUME IInv, Deliver
    PROVE  IInv'
<1>1. /\ UNCHANGED <<deals, nsi, read, commits>> /\ answer' = NoAnswer
      /\ logged' = NoEntry /\ quiet' = TRUE /\ read = NoRead
  BY DEF Deliver, IInv, TypeOK
<1>2. (ReadSound /\ ReadFresh)' /\ DOMAIN read'.rows = {} /\ read'.asked = {}
      /\ read'.step = "none"
  BY <1>1 DEF NoRead, ReadSound, ReadFresh
<1>3. (AnswerShaped /\ ExportResolved /\ CrashExplained /\ ExactWhenQuiet)'
      /\ answer'.kind = "none"
  BY <1>1 DEF NoAnswer, AnswerShaped, ExportResolved,
     CrashExplained, ExactWhenQuiet
<1>4. Existing' = Existing
  BY <1>1 DEF Existing
<1>5. TypeOK'
  BY <1>1, <1>2, <1>3, <1>4 DEF IInv, TypeOK, NoEntry
<1>6. DealsSound'
  BY <1>1, <1>4 DEF IInv, DealsSound
<1>7. QED
  BY <1>2, <1>3, <1>5, <1>6 DEF IInv

LEMMA InitIInv == Init => IInv
<1> SUFFICES ASSUME Init PROVE IInv
  OBVIOUS
<1>1. Existing = {}
  BY DEF Init, Existing
<1>2. answer = NoAnswer /\ read = NoRead
  BY DEF Init
<1>3. /\ AnswerShaped /\ ExportResolved /\ CrashExplained
      /\ ExactWhenQuiet /\ answer.kind \in {"none", "items", "errors", "crash"}
  BY <1>2, NothingAnswered
<1>4. /\ ReadSound /\ ReadFresh
      /\ DOMAIN read.rows = {} /\ read.asked = {} /\ read.step = "none"
  BY <1>2, NothingRead
<1>5. TypeOK
  BY <1>1, <1>2, <1>3, <1>4, ReportAssumption DEF Init, TypeOK, NoEntry
<1>6. DealsSound
  BY <1>1 DEF Init, DealsSound
<1>7. QED
  BY <1>3, <1>4, <1>5, <1>6 DEF IInv

LEMMA NextIInv == IInv /\ [Next]_vars => IInv'
<1> SUFFICES ASSUME IInv, [Next]_vars PROVE IInv'
  OBVIOUS
<1>1. CASE UNCHANGED vars
  BY <1>1 DEF vars, IInv, TypeOK, DealsSound, ReadSound, ReadFresh, AnswerShaped,
     ExportResolved, CrashExplained, ExactWhenQuiet, Existing,
     Impeccable, Carriers
<1>2. ASSUME NEW i \in Ids, CreateOrUpdate(i) PROVE IInv'
  BY <1>2, CreateOrUpdateStep
<1>3. ASSUME NEW i \in Ids, Validate(i) PROVE IInv'
  BY <1>3, ValidateStep
<1>4. ASSUME NEW i \in Ids, Invalidate(i) PROVE IInv'
  BY <1>4, InvalidateStep
<1>5. ASSUME NEW i \in Ids, Cancel(i) PROVE IInv'
  BY <1>5, CancelStep
<1>6. CASE MaintainNsi
  BY <1>6, MaintainNsiStep
<1>7. CASE ReadDeals
  BY <1>7, ReadDealsStep
<1>8. CASE ReadPayments
  BY <1>8, ReadPaymentsStep
<1>9. CASE ReadCounterparties \/ ReadCurrencies \/ ReadNumbers
  BY <1>9, ReadReferenceStep
<1>10. CASE Conclude
  BY <1>10, ConcludeStep
<1>11. CASE Abort
  BY <1>11, AbortStep
<1>12. CASE Deliver
  BY <1>12, DeliverStep
<1>13. QED
  BY <1>1, <1>2, <1>3, <1>4, <1>5, <1>6, <1>7, <1>8, <1>9, <1>10, <1>11, <1>12
     DEF Next

-----------------------------------------------------------------------------
(***************************************************************************)
(* The theorems.                                                           *)
(***************************************************************************)
\* The inductive invariant holds in every reachable state.
THEOREM Invariance == Spec => []IInv
<1>1. QED
  BY InitIInv, NextIInv, PTL DEF Spec

\* Rows, payments, what has been read and the audit entry keep their types.
THEOREM TypeCorrect == Spec => []TypeOK
<1>1. IInv => TypeOK
  BY DEF IInv
<1>2. QED
  BY <1>1, Invariance, PTL

\* Whatever is committed between the SELECTs of a report, an export names an
\* account in use for every payment of a VALID deal, and never half an exchange.
THEOREM AccountsResolved == Spec => []ExportResolved
<1>1. IInv => ExportResolved
  BY DEF IInv
<1>2. QED
  BY <1>1, Invariance, PTL

\* The report crashes for deals only that nobody has found VALID: what the
\* check passes can be serialised, whenever the NSI changed.
THEOREM CrashCause == Spec => []CrashExplained
<1>1. IInv => CrashExplained
  BY DEF IInv
<1>2. QED
  BY <1>1, Invariance, PTL

\* Undisturbed, a report is refused for a reason that is in the database and on
\* record, or lists in JSON as in CSV each VALID deal asked for that is not
\* cancelled, with both of its payments and accounts these stand for.
THEOREM ExactUndisturbed == Spec => []ExactWhenQuiet
<1>1. IInv => ExactWhenQuiet
  BY DEF IInv
<1>2. QED
  BY <1>1, Invariance, PTL

=============================================================================
