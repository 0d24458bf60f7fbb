----------------------------- MODULE PositionSend -----------------------------
(***************************************************************************)
(* PositionSystemAdapter.send_deal and the position system it talks to:    *)
(* one POST per payment, repeated after a server error, an unreadable      *)
(* answer or no answer at all, given up after Retries attempts, stopped at *)
(* once by a 4xx.  A POST that times out is not undone: it may be lost, it *)
(* may have been booked, or it may be booked later, even after send_deal   *)
(* has returned.  There is no idempotency key the position system is known *)
(* to honour, so every POST that arrives is booked once more.              *)
(*                                                                         *)
(* httpx's timeout is 15 s for one operation on the connection, never for  *)
(* the whole of a POST: an answer whose bytes go on coming is waited for   *)
(* as long as they come.                                                   *)
(*                                                                         *)
(* A definition with another one's name and a suffix (AcceptedNoBreak...)  *)
(* is that definition with a slip in it, for the properties to notice.     *)
(***************************************************************************)
EXTENDS Naturals

CONSTANTS
    N,         \* number of payments of the deal
    Retries    \* position_send_retries

ASSUME SendAssumption == N \in Nat /\ Retries \in Nat

Legs == 1..N

VARIABLES
    phase,      \* where send_deal is
    leg,        \* the payment it is at
    attempt,    \* and the number of the attempt
    post,       \* the POST it waits for: none; flying, with nothing heard for
                \* a while; arriving, with bytes just read; or its answer
    booked,     \* booked[k]: how often the position system booked payment k
    late,       \* late[k]: POSTs of k given up by the client, not yet arrived
    unclear,    \* unclear[k]: attempts at k of which the client does not know
                \* whether they were booked
    slept       \* time spent in backoff, in units of the backoff setting

vars == <<phase, leg, attempt, post, booked, late, unclear, slept>>

client == <<phase, leg, attempt>>

Init ==
    /\ phase = "start"
    /\ leg = 1
    /\ attempt = 1
    /\ post = "none"
    /\ booked = [k \in Legs |-> 0]
    /\ late = [k \in Legs |-> 0]
    /\ unclear = [k \in Legs |-> 0]
    /\ slept = 0

-----------------------------------------------------------------------------
(***************************************************************************)
(* The client                                                              *)
(***************************************************************************)
\* On to payment k: after the last one it is a success; with no attempt
\* allowed, the loop over attempts is not entered and its else clause fails.
GoTo(k) ==
    IF k > N THEN phase' = "success" /\ UNCHANGED <<leg, attempt>>
    ELSE IF Retries = 0 THEN phase' = "failure" /\ UNCHANGED <<leg, attempt>>
    ELSE phase' = "post" /\ leg' = k /\ attempt' = 1

\* No URL: a failure.  No payments: a success.  Otherwise a token comes first:
\* none is wanted, there is one in the cache, or it is asked for (or cannot be,
\* for want of credentials).
Start ==
    /\ phase = "start"
    /\ \/ phase' = "failure" /\ UNCHANGED <<leg, attempt, post>>
       \/ GoTo(1) /\ UNCHANGED post
       \/ N > 0 /\ phase' = "token" /\ post' = "flying" /\ UNCHANGED <<leg, attempt>>
    /\ UNCHANGED <<booked, late, unclear, slept>>

\* The token is there, or is not: another answer, or a timeout.
Token ==
    /\ phase = "token" /\ post # "arriving"
    /\ \/ phase' = "failure" /\ UNCHANGED <<leg, attempt>>
       \/ GoTo(1)
    /\ post' = "none"
    /\ UNCHANGED <<booked, late, unclear, slept>>

Post ==
    /\ phase = "post"
    /\ phase' = "wait"
    /\ post' = "flying"
    /\ UNCHANGED <<leg, attempt, booked, late, unclear, slept>>

\* A 2xx with a readable body.
AcceptedNoBreak ==
    /\ phase = "wait" /\ post = "accepted"
    /\ IF attempt < Retries THEN phase' = "sleep" /\ UNCHANGED <<leg, attempt>>
                            ELSE GoTo(leg + 1)
    /\ post' = "none"
    /\ UNCHANGED <<booked, late, unclear, slept>>

Accepted ==
    /\ phase = "wait" /\ post = "accepted"
    /\ GoTo(leg + 1)
    /\ post' = "none"
    /\ UNCHANGED <<booked, late, unclear, slept>>

\* A 4xx: no further attempt and no further payment.
Refused ==
    /\ phase = "wait" /\ post = "refused"
    /\ phase' = "failure"
    /\ post' = "none"
    /\ UNCHANGED <<leg, attempt, booked, late, unclear, slept>>

\* 2 ** n, for the exponents an attempt can have.
TwoTo[n \in 0..Retries] == IF n = 0 THEN 1 ELSE 2 * TwoTo[n - 1]

\* The backoff doubles with every attempt; there is none after the last.
BackoffAlways(a) == TwoTo[a - 1]
Backoff(a) == IF a < Retries THEN TwoTo[a - 1] ELSE 0

\* The POST in the air is given up: it may never arrive, or arrive later.
GiveUp == late' \in {late} \cup
             (IF post = "flying" THEN {[late EXCEPT ![leg] = @ + 1]} ELSE {})

RetryOneMore == phase' = IF attempt <= Retries THEN "sleep" ELSE "failure"
Retry == phase' = IF attempt < Retries THEN "sleep" ELSE "failure"

\* A 5xx, a 2xx with an unreadable body, a lost connection or a timeout, which
\* bytes that come put off.
UnclearSkipsLeg ==
    /\ phase = "wait" /\ post \notin {"refused", "arriving"}
    /\ IF attempt < Retries THEN phase' = "sleep" /\ UNCHANGED <<leg, attempt>>
                            ELSE GoTo(leg + 1)
    /\ slept' = slept + Backoff(attempt)
    /\ GiveUp
    /\ unclear' = [unclear EXCEPT ![leg] = @ + 1]
    /\ post' = "none"
    /\ UNCHANGED booked
UnclearNoTimeout ==
    /\ phase = "wait" /\ post \notin {"refused", "flying", "arriving"}
    /\ Retry
    /\ slept' = slept + Backoff(attempt)
    /\ unclear' = [unclear EXCEPT ![leg] = @ + 1]
    /\ post' = "none"
    /\ UNCHANGED <<leg, attempt, booked, late>>
Unclear ==
    /\ phase = "wait" /\ post \notin {"refused", "arriving"}
    /\ Retry
    /\ slept' = slept + Backoff(attempt)
    /\ GiveUp
    /\ unclear' = [unclear EXCEPT ![leg] = @ + 1]
    /\ post' = "none"
    /\ UNCHANGED <<leg, attempt, booked>>

Wake ==
    /\ phase = "sleep"
    /\ phase' = "post"
    /\ attempt' = attempt + 1
    /\ UNCHANGED <<leg, post, booked, late, unclear, slept>>

-----------------------------------------------------------------------------
(***************************************************************************)
(* The position system and the network                                     *)
(***************************************************************************)
Book(k) == booked' = [booked EXCEPT ![k] = @ + 1]

\* The POST arrives: booked and said so, booked with a 5xx from something on
\* the way back, refused with a 4xx, failed with a 5xx.
Answer ==
    /\ phase = "wait" /\ post = "flying"
    /\ \/ Book(leg) /\ post' \in {"accepted", "error"}
       \/ UNCHANGED booked /\ post' \in {"refused", "error"}
    /\ UNCHANGED <<client, late, unclear, slept>>

\* The answer comes byte by byte, or no longer: whoever is asked decides how
\* often it does either.
Trickle ==
    /\ \/ post = "flying" /\ post' = "arriving"
       \/ post = "arriving" /\ post' = "flying"
    /\ UNCHANGED <<client, booked, late, unclear, slept>>

\* A POST that the client has given up arrives after all.
AnswerLate(k) ==
    /\ late[k] > 0
    /\ late' = [late EXCEPT ![k] = @ - 1]
    /\ Book(k)
    /\ UNCHANGED <<client, post, unclear, slept>>

Client == Start \/ Token \/ Post \/ Accepted \/ Refused \/ Unclear \/ Wake

Next == Client \/ Answer \/ Trickle \/ \E k \in Legs : AnswerLate(k)

\* The event loop runs the coroutine as long as it can run: a sleep ends, and
\* httpx gives up a POST of which it has read nothing for 15 s.
Spec == Init /\ [][Next]_vars /\ WF_vars(Client)

-----------------------------------------------------------------------------
(***************************************************************************)
(* Properties                                                              *)
(***************************************************************************)
\* The types of everything but the clock.
Typed ==
    /\ phase \in {"start", "token", "post", "wait", "sleep", "success", "failure"}
    /\ leg \in 1..(N + 1)
    /\ attempt \in 1..Retries \cup {1}
    /\ post \in {"none", "flying", "arriving", "accepted", "refused", "error"}
    /\ booked \in [Legs -> Nat]
    /\ late \in [Legs -> Nat]
    /\ unclear \in [Legs -> Nat]

\* Type correctness: counters never go below zero, a payment is at hand as
\* long as one is left.
TypeOK == Typed /\ slept \in Nat

\* One POST of payment k has been answered, and not with a 4xx: accepted, or
\* about to be unclear.
Settles(k) == \/ phase = "success"
              \/ k < leg
              \/ k = leg /\ post \in {"accepted", "error"}
Settled(k) == IF Settles(k) THEN 1 ELSE 0

\* A payment is booked twice only if some attempt ended without an answer the
\* client could read: an acceptance is never followed by another POST of the
\* payment, and a refusal has not been booked.
DuplicatesExplained ==
    \A k \in Legs : booked[k] + late[k] <= unclear[k] + Settled(k)

\* However answers are lost or late, no payment is booked more often than
\* the configured number of attempts.
AtMostRetries == \A k \in Legs : booked[k] + late[k] <= Retries

\* The approval, and its database session, wait no longer in backoff than
\* the doubling of the configured pause over all attempts but the last.
BackoffBounded ==
    slept <= IF Retries = 0 THEN 0 ELSE N * (TwoTo[Retries - 1] - 1)

\* What send_deal makes known: success only with everything booked, payments
\* in order, an outcome that is never revised.
Contract == INSTANCE SendContract WITH
    delivered <- {k \in Legs : booked[k] > 0},
    outcome   <- IF phase \in {"success", "failure"} THEN phase ELSE "open"

KeepsContract == Contract!Spec

\* send_deal returns, lost answers costing attempts and attempts running out,
\* or else bytes of some one answer never stop coming: nothing else can keep
\* the approval, and its database session, for ever.
SendEnds == \/ <>(phase \in {"success", "failure"})
            \/ []<>(post = "arriving")

=============================================================================
