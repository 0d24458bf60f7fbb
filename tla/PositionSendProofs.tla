-------------------------- MODULE PositionSendProofs --------------------------
(***************************************************************************)
(* Proofs about send_deal, for any number of payments and of attempts.     *)
(***************************************************************************)
EXTENDS PositionSend, OrderFacts

-----------------------------------------------------------------------------
(***************************************************************************)
(* The inductive invariant.  What the properties say of one payment        *)
(* follows from where send_deal is, so the invariant ties the counters to  *)
(* the phase: payments ahead of the current one are booked, those behind   *)
(* it untouched, and the attempts at the current one are counted.          *)
(***************************************************************************)
\* A POST is awaited in phase "wait", with a payment and an attempt left, or it
\* is the one for a token; every attempt before this one was unclear.
InPhase ==
    /\ phase \in {"token", "wait"} <=> post # "none"
    /\ phase = "token" => post \in {"flying", "arriving"}
    /\ phase \in {"post", "wait", "sleep"} =>
          leg \in Legs /\ attempt \in 1..Retries
    /\ phase \in {"post", "wait"} => unclear[leg] < attempt
    /\ phase = "sleep" => attempt < Retries /\ unclear[leg] <= attempt
    /\ phase \in {"start", "token"} => leg = 1

\* Payment k is known to be accepted.
Known(k) == \/ phase = "success"
            \/ k < leg
            \/ k = leg /\ post = "accepted"

Untouched(k) == k > leg \/ phase \in {"start", "token"}

\* What is so of one payment.
LegInv(k) ==
    /\ Settles(k) => /\ booked[k] + late[k] <= unclear[k] + 1
                     /\ unclear[k] + 1 <= Retries
    /\ ~Settles(k) => /\ booked[k] + late[k] <= unclear[k]
                      /\ unclear[k] <= Retries
    /\ Known(k) => booked[k] > 0
    /\ Untouched(k) => booked[k] = 0 /\ late[k] = 0 /\ unclear[k] = 0

IInv == /\ Typed
        /\ InPhase
        /\ \A k \in Legs : LegInv(k)

-----------------------------------------------------------------------------
\* The constants and the payment at hand are numbers.
LEMMA Numbers ==
    ASSUME Typed
    PROVE  /\ N \in Nat /\ Retries \in Nat /\ leg \in Nat /\ attempt \in Nat
           /\ leg >= 1 /\ attempt >= 1 /\ leg <= N + 1
           /\ \A k \in Legs : /\ k \in Nat /\ k >= 1 /\ k <= N
                              /\ booked[k] \in Nat /\ late[k] \in Nat
                              /\ unclear[k] \in Nat
<1>1. N \in Nat /\ Retries \in Nat
  BY SendAssumption
<1>2. leg \in Nat /\ leg >= 1 /\ leg <= N + 1
  BY <1>1 DEF Typed
<1>3. attempt \in Nat /\ attempt >= 1
  BY <1>1 DEF Typed
<1>4. \A k \in Legs : k \in Nat /\ k >= 1 /\ k <= N
  BY <1>1 DEF Legs
<1>5. \A k \in Legs : booked[k] \in Nat /\ late[k] \in Nat /\ unclear[k] \in Nat
  BY DEF Typed
<1>6. QED
  BY <1>1, <1>2, <1>3, <1>4, <1>5

LEMMA InitIInv == Init => IInv
<1>1. SUFFICES ASSUME Init PROVE IInv
  OBVIOUS
<1>2. Typed
  BY <1>1, SendAssumption DEF Init, Typed, Legs
<1>3. InPhase
  BY <1>1 DEF Init, InPhase
<1>4. ASSUME NEW k \in Legs PROVE LegInv(k)
  <2>1. booked[k] = 0 /\ late[k] = 0 /\ unclear[k] = 0
    BY <1>1 DEF Init
  <2>2. ~Settles(k) /\ ~Known(k)
    BY <1>1, <1>2, Numbers DEF Init, Settles, Known
  <2>3. QED
    BY <2>1, <2>2, SendAssumption DEF LegInv
<1>5. QED
  BY <1>2, <1>3, <1>4 DEF IInv

-----------------------------------------------------------------------------
(***************************************************************************)
(* Going on to the next payment, which Start and Accepted share.           *)
(***************************************************************************)
\* The three ways of GoTo keep the types.
LEMMA GoToTypes ==
    ASSUME Typed, NEW k \in Nat, k >= 1, GoTo(k)
    PROVE  /\ phase' \in {"success", "failure", "post"}
           /\ leg' \in 1..(N + 1)
           /\ attempt' \in 1..Retries \cup {1}
           /\ phase' = "success" => k > N /\ leg' = leg
           /\ phase' = "failure" => leg' = leg /\ k <= N
           /\ phase' = "post" => /\ k <= N /\ leg' = k /\ attempt' = 1
                                 /\ Retries >= 1
<1>1. N \in Nat /\ Retries \in Nat
  BY SendAssumption
<1>2. CASE k > N
  BY <1>2 DEF GoTo, Typed
<1>3. CASE k <= N /\ Retries = 0
  BY <1>1, <1>3 DEF GoTo, Typed
<1>4. CASE k <= N /\ Retries # 0
  BY <1>1, <1>4 DEF GoTo, Typed
<1>5. QED
  BY <1>1, <1>2, <1>3, <1>4

-----------------------------------------------------------------------------
(***************************************************************************)
(* One lemma per action.                                                   *)
(***************************************************************************)
\* Before the first payment: nothing has been sent, and on it goes, or not.
LEMMA FirstStep ==
    ASSUME IInv, phase \in {"start", "token"}, post' = "none",
           UNCHANGED <<booked, late, unclear>>,
           GoTo(1) \/ (phase' = "failure" /\ UNCHANGED <<leg, attempt>>)
    PROVE  IInv'
<1>2. leg = 1
  BY DEF IInv, InPhase
<1>3. \A k \in Legs : booked[k] = 0 /\ late[k] = 0 /\ unclear[k] = 0
  BY DEF IInv, LegInv, Untouched
<1>4. /\ phase' \in {"success", "failure", "post"}
      /\ leg' = 1 /\ attempt' \in 1..Retries \cup {1}
      /\ phase' = "success" => Legs = {}
      /\ phase' = "post" => Legs # {} /\ 1 \in Legs /\ attempt' = 1 /\ Retries >= 1
  <2>1. CASE GoTo(1)
    BY <1>2, <2>1, GoToTypes, SendAssumption DEF IInv, Legs
  <2>2. CASE phase' = "failure" /\ UNCHANGED <<leg, attempt>>
    BY <1>2, <2>2 DEF IInv, Typed
  <2>3. QED
    BY <2>1, <2>2
<1>5. Typed'
  BY <1>2, <1>4, SendAssumption DEF IInv, Typed
<1>6. InPhase'
  BY <1>2, <1>3, <1>4, SendAssumption DEF InPhase
<1>7. ASSUME NEW k \in Legs PROVE LegInv(k)'
  <2>1. phase' # "success" /\ ~(k < leg')
    BY <1>2, <1>4, Numbers DEF IInv
  <2>2. ~Settles(k)' /\ ~Known(k)'
    BY <2>1 DEF Settles, Known
  <2>3. QED
    BY <1>3, <2>2, SendAssumption DEF LegInv
<1>8. QED
  BY <1>5, <1>6, <1>7 DEF IInv

LEMMA StartStep == IInv /\ Start => IInv'
<1>1. SUFFICES ASSUME IInv, Start PROVE IInv'
  OBVIOUS
<1>2. phase = "start" /\ post = "none" /\ UNCHANGED <<booked, late, unclear>>
  BY <1>1 DEF IInv, InPhase, Start
<1>3. CASE phase' = "token" /\ post' = "flying" /\ UNCHANGED <<leg, attempt>>
  <2>1. leg = 1 /\ Typed' /\ InPhase'
    BY <1>1, <1>2, <1>3 DEF IInv, Typed, InPhase
  <2>2. ASSUME NEW k \in Legs PROVE LegInv(k)'
    <3>1. LegInv(k) /\ Untouched(k) /\ Settles(k)' = Settles(k) /\ ~Known(k)'
      BY <1>1, <1>2, <1>3, <2>1, Numbers
      DEF IInv, Untouched, Settles, Known
    <3>2. QED
      BY <1>2, <3>1 DEF LegInv
  <2>3. QED
    BY <2>1, <2>2 DEF IInv
<1>4. CASE (GoTo(1) \/ (phase' = "failure" /\ UNCHANGED <<leg, attempt>>))
           /\ post' = post
  BY <1>1, <1>2, <1>4, FirstStep
<1>5. QED
  BY <1>1, <1>3, <1>4 DEF Start

LEMMA TokenStep == IInv /\ Token => IInv'
BY FirstStep DEF Token

LEMMA PostStep == IInv /\ Post => IInv'
<1>1. SUFFICES ASSUME IInv, Post PROVE IInv'
  OBVIOUS
<1>2. Typed' /\ InPhase'
  BY <1>1 DEF IInv, Typed, InPhase, Post
<1>3. ASSUME NEW k \in Legs PROVE LegInv(k)'
  BY <1>1 DEF IInv, InPhase, Post, LegInv, Settles, Known, Untouched
<1>4. QED
  BY <1>2, <1>3 DEF IInv

LEMMA AcceptedStep == IInv /\ Accepted => IInv'
<1>1. SUFFICES ASSUME IInv, Accepted PROVE IInv'
  OBVIOUS
<1>2. /\ phase = "wait" /\ post = "accepted" /\ post' = "none"
      /\ leg \in Legs /\ GoTo(leg + 1)
      /\ UNCHANGED <<booked, late, unclear, slept>>
  BY <1>1 DEF IInv, InPhase, Accepted
<1>3. leg + 1 \in Nat /\ leg + 1 >= 1 /\ leg \in 1..N
  BY <1>1, <1>2, Numbers DEF IInv
<1>4. /\ phase' \in {"success", "failure", "post"}
      /\ leg' \in 1..(N + 1)
      /\ attempt' \in 1..Retries \cup {1}
      /\ phase' = "success" => leg = N /\ leg' = leg
      /\ phase' = "failure" => FALSE
      /\ phase' = "post" => /\ leg + 1 <= N /\ leg' = leg + 1 /\ attempt' = 1
                            /\ Retries >= 1
  <2>1. Retries # 0
    BY <1>1, <1>2, SendAssumption DEF IInv, InPhase
  <2>2. phase' # "failure"
    BY <1>2, <2>1 DEF GoTo
  <2>3. QED
    BY <1>1, <1>2, <1>3, <2>2, GoToTypes, Numbers DEF IInv
<1>5. Typed'
  BY <1>1, <1>2, <1>4 DEF IInv, Typed
<1>6. InPhase'
  <2>1. CASE phase' = "post"
    <3>1. leg' \in Legs /\ Untouched(leg')
      BY <1>1, <1>3, <1>4, <2>1, Numbers DEF IInv, Legs, Untouched
    <3>2. unclear'[leg'] = 0
      BY <1>1, <1>2, <3>1 DEF IInv, LegInv
    <3>3. QED
      BY <1>2, <1>4, <2>1, <3>1, <3>2, SendAssumption DEF InPhase
  <2>2. CASE phase' = "success"
    BY <1>2, <2>2 DEF InPhase
  <2>3. QED
    BY <1>4, <2>1, <2>2
<1>7. ASSUME NEW k \in Legs PROVE LegInv(k)'
  <2>1. LegInv(k)
    BY <1>1 DEF IInv
  <2>2. Settles(k)' <=> Settles(k)
    BY <1>1, <1>2, <1>3, <1>4, Numbers DEF IInv, Settles
  <2>3. Known(k)' => Known(k)
    BY <1>1, <1>2, <1>3, <1>4, Numbers DEF IInv, Known
  <2>4. Untouched(k)' => Untouched(k)
    BY <1>1, <1>2, <1>3, <1>4, Numbers DEF IInv, Untouched
  <2>5. QED
    BY <1>2, <2>1, <2>2, <2>3, <2>4 DEF LegInv
<1>8. QED
  BY <1>5, <1>6, <1>7 DEF IInv

LEMMA RefusedStep == IInv /\ Refused => IInv'
<1>1. SUFFICES ASSUME IInv, Refused PROVE IInv'
  OBVIOUS
<1>2. Typed' /\ InPhase'
  BY <1>1 DEF IInv, Typed, InPhase, Refused
<1>3. ASSUME NEW k \in Legs PROVE LegInv(k)'
  BY <1>1 DEF IInv, InPhase, Refused, LegInv, Settles, Known, Untouched
<1>4. QED
  BY <1>2, <1>3 DEF IInv

LEMMA WakeStep == IInv /\ Wake => IInv'
<1>1. SUFFICES ASSUME IInv, Wake PROVE IInv'
  OBVIOUS
<1>2. /\ phase = "sleep" /\ phase' = "post" /\ attempt' = attempt + 1
      /\ post = "none" /\ leg \in Legs /\ attempt < Retries
      /\ unclear[leg] <= attempt
      /\ UNCHANGED <<leg, post, booked, late, unclear, slept>>
  BY <1>1 DEF IInv, InPhase, Wake
<1>3. attempt' \in 1..Retries
  BY <1>1, <1>2, Numbers DEF IInv
<1>4. Typed'
  BY <1>1, <1>2, <1>3 DEF IInv, Typed
<1>5. InPhase'
  BY <1>1, <1>2, <1>3, Numbers DEF IInv, InPhase
<1>6. ASSUME NEW k \in Legs PROVE LegInv(k)'
  BY <1>1, <1>2 DEF IInv, LegInv, Settles, Known, Untouched
<1>7. QED
  BY <1>4, <1>5, <1>6 DEF IInv

\* An attempt that ends unclear: nothing of it but the count remains.
LEMMA UnclearStep == IInv /\ Unclear => IInv'
<1>1. SUFFICES ASSUME IInv, Unclear PROVE IInv'
  OBVIOUS
<1>2. /\ phase = "wait" /\ post \in {"flying", "accepted", "error"}
      /\ phase' = (IF attempt < Retries THEN "sleep" ELSE "failure")
      /\ post' = "none"
      /\ leg \in Legs /\ attempt \in 1..Retries /\ unclear[leg] < attempt
      /\ UNCHANGED <<leg, attempt, booked>>
  BY <1>1 DEF IInv, Typed, InPhase, Unclear, Retry
<1>3. \A k \in Legs : unclear'[k] = unclear[k] + (IF k = leg THEN 1 ELSE 0)
  BY <1>1, <1>2, Numbers DEF IInv, Typed, Unclear
<1>4. /\ late' \in [Legs -> Nat]
      /\ \A k \in Legs :
            \/ late'[k] = late[k]
            \/ k = leg /\ post = "flying" /\ late'[k] = late[k] + 1
  <2>1. late' = late \/ (post = "flying" /\ late' = [late EXCEPT ![leg] = @ + 1])
    BY <1>1 DEF Unclear, GiveUp
  <2>2. late \in [Legs -> Nat] /\ late[leg] + 1 \in Nat
    <3>1. late \in [Legs -> Nat]
      BY <1>1 DEF IInv, Typed
    <3>2. late[leg] \in Nat
      BY <1>2, <3>1
    <3>3. QED
      BY <3>1, <3>2
  <2>3. CASE late' = late
    BY <2>2, <2>3
  <2>4. CASE post = "flying" /\ late' = [late EXCEPT ![leg] = @ + 1]
    <3>1. late' \in [Legs -> Nat]
      BY <2>2, <2>4
    <3>2. ASSUME NEW k \in Legs
          PROVE  IF k = leg THEN late'[k] = late[k] + 1 ELSE late'[k] = late[k]
      BY <2>2, <2>4
    <3>3. QED
      BY <2>4, <3>1, <3>2
  <2>5. QED
    BY <2>1, <2>3, <2>4
<1>5. Typed'
  <2>1. unclear' \in [Legs -> Nat]
    BY <1>1, <1>2 DEF IInv, Typed, Unclear
  <2>2. QED
    BY <1>1, <1>2, <1>4, <2>1 DEF IInv, Typed
<1>6. InPhase'
  <2>1. unclear'[leg] <= attempt
    BY <1>1, <1>2, <1>3, Numbers DEF IInv
  <2>2. QED
    BY <1>2, <2>1 DEF InPhase
<1>7. ASSUME NEW k \in Legs PROVE LegInv(k)'
  <2>1. LegInv(k)
    BY <1>1 DEF IInv
  <2>2. CASE k = leg
    <3>1. ~Settles(k)' /\ ~Known(k)' /\ ~Untouched(k)'
      BY <1>1, <1>2, <2>2, Numbers DEF IInv, Settles, Known, Untouched
    <3>2. unclear'[k] = unclear[k] + 1 /\ unclear[k] + 1 <= Retries
      BY <1>1, <1>2, <1>3, <2>2, Numbers DEF IInv
    <3>3. booked[k] + late'[k] <= unclear[k] + 1
      <4>1. CASE post = "flying"
        <5>1. ~Settles(k)
          BY <1>1, <1>2, <2>2, <4>1, Numbers DEF IInv, Settles
        <5>2. QED
          BY <1>1, <1>4, <2>1, <2>2, <5>1, Numbers DEF IInv, LegInv
      <4>2. CASE post # "flying"
        <5>1. Settles(k) /\ late'[k] = late[k]
          BY <1>2, <1>4, <2>2, <4>2 DEF Settles
        <5>2. QED
          BY <2>1, <5>1 DEF LegInv
      <4>3. QED
        BY <4>1, <4>2
    <3>4. QED
      BY <1>2, <3>1, <3>2, <3>3 DEF LegInv
  <2>3. CASE k # leg
    <3>1. unclear'[k] = unclear[k] /\ late'[k] = late[k]
      BY <1>1, <1>3, <1>4, <2>3, Numbers DEF IInv
    <3>2. /\ Settles(k)' <=> Settles(k)
          /\ Known(k)' <=> Known(k)
          /\ Untouched(k)' <=> Untouched(k)
      BY <1>2, <2>3 DEF Settles, Known, Untouched
    <3>3. QED
      BY <1>2, <2>1, <3>1, <3>2 DEF LegInv
  <2>4. QED
    BY <2>2, <2>3
<1>8. QED
  BY <1>5, <1>6, <1>7 DEF IInv

\* The POST at hand arrives.
LEMMA AnswerStep == IInv /\ Answer => IInv'
<1>1. SUFFICES ASSUME IInv, Answer PROVE IInv'
  OBVIOUS
<1>2. /\ phase = "wait" /\ post = "flying"
      /\ post' \in {"accepted", "error", "refused"}
      /\ leg \in Legs /\ attempt \in 1..Retries /\ unclear[leg] < attempt
      /\ UNCHANGED <<phase, leg, attempt, late, unclear, slept>>
  BY <1>1 DEF IInv, InPhase, Answer, client
<1>3. /\ booked' \in [Legs -> Nat]
      /\ \A k \in Legs : k # leg => booked'[k] = booked[k]
      /\ \/ /\ post' \in {"accepted", "error"}
            /\ booked'[leg] = booked[leg] + 1
         \/ /\ post' \in {"refused", "error"}
            /\ booked'[leg] = booked[leg]
  <2>1. CASE Book(leg) /\ post' \in {"accepted", "error"}
    BY <1>1, <1>2, <2>1 DEF IInv, Typed, Book
  <2>2. CASE UNCHANGED booked /\ post' \in {"refused", "error"}
    BY <1>1, <2>2 DEF IInv, Typed
  <2>3. QED
    BY <1>1, <2>1, <2>2 DEF Answer
<1>4. Typed' /\ InPhase'
  BY <1>1, <1>2, <1>3 DEF IInv, Typed, InPhase
<1>5. ASSUME NEW k \in Legs PROVE LegInv(k)'
  <2>1. LegInv(k)
    BY <1>1 DEF IInv
  <2>2. CASE k = leg
    <3>1. ~Settles(k) /\ ~Untouched(k)'
      BY <1>1, <1>2, <2>2, Numbers DEF IInv, Settles, Untouched
    <3>2. booked[k] + late[k] <= unclear[k] /\ unclear[k] + 1 <= Retries
      BY <1>1, <1>2, <2>1, <2>2, <3>1, Numbers DEF IInv, LegInv
    <3>3. Known(k)' => booked'[k] > 0
      BY <1>1, <1>2, <1>3, <2>2, Numbers DEF IInv, Known
    <3>4. CASE post' = "refused"
      <4>1. ~Settles(k)'
        BY <1>1, <1>2, <2>2, <3>4, Numbers DEF IInv, Settles
      <4>2. QED
        BY <1>1, <1>2, <1>3, <2>2, <3>1, <3>2, <3>3, <3>4, <4>1, Numbers
        DEF IInv, LegInv
    <3>5. CASE post' # "refused"
      <4>1. Settles(k)'
        BY <1>2, <2>2, <3>5 DEF Settles
      <4>2. booked'[k] + late'[k] <= unclear'[k] + 1
        BY <1>1, <1>2, <1>3, <2>2, <3>2, Numbers DEF IInv
      <4>3. QED
        BY <1>2, <3>1, <3>2, <3>3, <4>1, <4>2 DEF LegInv
    <3>6. QED
      BY <3>4, <3>5
  <2>3. CASE k # leg
    <3>1. /\ Settles(k)' <=> Settles(k)
          /\ Known(k)' <=> Known(k)
          /\ Untouched(k)' <=> Untouched(k)
      BY <1>2, <2>3 DEF Settles, Known, Untouched
    <3>2. QED
      BY <1>2, <1>3, <2>1, <2>3, <3>1 DEF LegInv
  <2>4. QED
    BY <2>2, <2>3
<1>6. QED
  BY <1>4, <1>5 DEF IInv

\* Bytes of an answer come, or cease to.
LEMMA TrickleStep == IInv /\ Trickle => IInv'
<1>1. SUFFICES ASSUME IInv, Trickle PROVE IInv'
  OBVIOUS
<1>2. /\ post \in {"flying", "arriving"} /\ post' \in {"flying", "arriving"}
      /\ UNCHANGED <<phase, leg, attempt, booked, late, unclear, slept>>
  BY <1>1 DEF Trickle, client
<1>3. Typed' /\ InPhase'
  BY <1>1, <1>2 DEF IInv, Typed, InPhase
<1>4. ASSUME NEW k \in Legs PROVE LegInv(k)'
  BY <1>1, <1>2 DEF IInv, LegInv, Settles, Known, Untouched
<1>5. QED
  BY <1>3, <1>4 DEF IInv

\* A POST given up earlier arrives: one late, one booked instead.
LEMMA AnswerLateStep ==
    ASSUME IInv, NEW j \in Legs, AnswerLate(j) PROVE IInv'
<1>1. UNCHANGED <<phase, leg, attempt, post, unclear, slept>>
  BY DEF AnswerLate, client
<1>2. /\ late[j] \in Nat /\ late[j] > 0 /\ booked[j] \in Nat
      /\ late' = [late EXCEPT ![j] = @ - 1]
      /\ booked' = [booked EXCEPT ![j] = @ + 1]
  BY DEF IInv, Typed, AnswerLate, Book
<1>3. late[j] - 1 \in Nat /\ booked[j] + 1 \in Nat
  BY <1>2
<1>4. Typed'
  BY <1>1, <1>2, <1>3 DEF IInv, Typed
<1>5. InPhase'
  BY <1>1 DEF IInv, InPhase
<1>6. ASSUME NEW k \in Legs PROVE LegInv(k)'
  <2>1. LegInv(k)
    BY DEF IInv
  <2>2. /\ Settles(k)' <=> Settles(k)
        /\ Known(k)' <=> Known(k)
        /\ Untouched(k)' <=> Untouched(k)
    BY <1>1 DEF Settles, Known, Untouched
  <2>3. CASE k = j
    <3>1. booked'[k] + late'[k] = booked[k] + late[k] /\ booked'[k] > 0
      BY <1>2, <1>3, <2>3, Numbers DEF IInv, Typed
    <3>2. ~Untouched(k)
      BY <1>2, <2>1, <2>3 DEF LegInv
    <3>3. QED
      BY <1>1, <2>1, <2>2, <3>1, <3>2 DEF LegInv
  <2>4. CASE k # j
    <3>1. booked'[k] = booked[k] /\ late'[k] = late[k]
      BY <1>2, <2>4 DEF IInv, Typed
    <3>2. QED
      BY <1>1, <2>1, <2>2, <3>1 DEF LegInv
  <2>5. QED
    BY <2>3, <2>4
<1>7. QED
  BY <1>4, <1>5, <1>6 DEF IInv

LEMMA StutterStep == IInv /\ UNCHANGED vars => IInv'
BY DEF IInv, Typed, InPhase, LegInv, Settles, Known, Untouched, vars

-----------------------------------------------------------------------------
(***************************************************************************)
(* The clock.  What has been slept so far is the full sum of pauses for    *)
(* every payment behind, and for the current one the pauses before this    *)
(* attempt: 1 + 2 + ... up to one less than the next pause.                *)
(***************************************************************************)
\* The pauses one payment can cost.
Limit == IF Retries = 0 THEN 0 ELSE TwoTo[Retries - 1] - 1

ClockInv ==
    /\ slept \in Nat
    /\ phase \in {"start", "token"} => slept = 0
    /\ phase \in {"post", "wait"} =>
          slept <= (leg - 1) * Limit + (TwoTo[attempt - 1] - 1)
    /\ phase = "sleep" => slept <= (leg - 1) * Limit + (TwoTo[attempt] - 1)
    /\ phase \in {"success", "failure"} => slept <= N * Limit

\* TwoTo is an equation that some function satisfies.
Doubles(f) == f = [n \in 0..Retries |-> IF n = 0 THEN 1 ELSE 2 * f[n - 1]]

LEMMA DoublingExists == \E f : Doubles(f)
<1> DEFINE V == Nat \ {0}
           G == [d \in Nat |-> [v \in V |-> 2 * v]]
<1>1. 1 \in V /\ G \in [Nat -> [V -> V]] /\ Retries \in Nat
  BY SendAssumption
<1>2. PICK down : Loop(down, V, 0, Retries, 1, G)
  <2> HIDE DEF V, G
  <2>1. QED
    BY <1>1, LoopExists
<1>3. /\ down \in [0..Retries -> V]
      /\ \A d \in 0..Retries :
            down[d] = IF d = Retries THEN 1 ELSE G[d][down[d + 1]]
  <2> HIDE DEF V, G
  <2>1. 0 + Retries = Retries
    BY <1>1
  <2>2. QED
    BY <1>2, <2>1 DEF Loop
<1> DEFINE f == [n \in 0..Retries |-> down[Retries - n]]
<1>4. ASSUME NEW n \in 0..Retries
      PROVE  f[n] = IF n = 0 THEN 1 ELSE 2 * f[n - 1]
  <2>1. Retries - n \in 0..Retries /\ f[n] = down[Retries - n]
    BY <1>1
  <2>2. CASE n = 0
    <3>1. Retries - n = Retries /\ Retries \in 0..Retries
      BY <1>1, <2>2
    <3> HIDE DEF f, G, V
    <3>2. QED
      BY <1>3, <2>1, <2>2, <3>1
  <2>3. CASE n # 0
    <3>1. /\ n - 1 \in 0..Retries /\ Retries - n # Retries
          /\ (Retries - n) + 1 = Retries - (n - 1)
          /\ Retries - (n - 1) \in 0..Retries /\ Retries - n \in Nat
      BY <1>1, <2>3
    <3>2. f[n - 1] = down[(Retries - n) + 1]
      BY <3>1
    <3>3. down[(Retries - n) + 1] \in V
      BY <1>3, <3>1
    <3>4. G[Retries - n][down[(Retries - n) + 1]] = 2 * down[(Retries - n) + 1]
      <4> HIDE DEF V
      <4>1. QED
        BY <3>1, <3>3
    <3>5. f[n] = G[Retries - n][down[(Retries - n) + 1]]
      <4> HIDE DEF G
      <4>1. QED
        BY <1>3, <2>1, <3>1
    <3>6. QED
      <4> HIDE DEF f, G
      <4>1. QED
        BY <2>3, <3>2, <3>4, <3>5
  <2>4. QED
    BY <2>2, <2>3
<1>5. f = [n \in 0..Retries |-> IF n = 0 THEN 1 ELSE 2 * f[n - 1]]
  <2>1. f = [n \in 0..Retries |-> f[n]]
    OBVIOUS
  <2> HIDE DEF f
  <2>2. QED
    BY <1>4, <2>1
<1> HIDE DEF f
<1>6. QED
  BY <1>5, Zenon DEF Doubles

\* What is used of it: it is 1 at first, doubles, is never below 1, and is
\* nowhere before the last attempt more than there.
LEMMA DoublingFacts ==
    /\ TwoTo[0] = 1
    /\ \A n \in 1..Retries : TwoTo[n] = 2 * TwoTo[n - 1]
    /\ \A n \in 0..Retries : TwoTo[n] \in Nat /\ TwoTo[n] >= 1
    /\ \A n \in 0..(Retries - 1) : TwoTo[n] <= TwoTo[Retries - 1]
<1>1. Doubles(TwoTo)
  <2>1. TwoTo = CHOOSE f : Doubles(f)
    BY Zenon DEF TwoTo, Doubles
  <2>2. QED
    BY <2>1, DoublingExists
<1>2. \A n \in 0..Retries : TwoTo[n] = IF n = 0 THEN 1 ELSE 2 * TwoTo[n - 1]
  BY <1>1 DEF Doubles
<1>3. TwoTo[0] = 1 /\ \A n \in 1..Retries : TwoTo[n] = 2 * TwoTo[n - 1]
  BY <1>2, SendAssumption
<1>4. \A n \in 0..Retries : TwoTo[n] \in Nat /\ TwoTo[n] >= 1
  <2> DEFINE T == {n \in Nat : n <= Retries => TwoTo[n] \in Nat /\ TwoTo[n] >= 1}
  <2>1. 0 \in T
    BY <1>3
  <2>2. \A n \in Nat : n \in T => n + 1 \in T
    <3> SUFFICES ASSUME NEW n \in Nat, n \in T, n + 1 <= Retries
                 PROVE  TwoTo[n + 1] \in Nat /\ TwoTo[n + 1] >= 1
      OBVIOUS
    <3>1. n + 1 \in 1..Retries /\ (n + 1) - 1 = n
      BY SendAssumption
    <3>2. TwoTo[n + 1] = 2 * TwoTo[n]
      BY <1>3, <3>1
    <3>3. TwoTo[n] \in Nat /\ TwoTo[n] >= 1
      BY SendAssumption
    <3>4. QED
      BY <3>2, <3>3
  <2>3. Nat \subseteq T
    <3> HIDE DEF T
    <3>1. QED
      BY <2>1, <2>2, SetInduction
  <2>4. QED
    BY <2>3, SendAssumption
<1>5. \A n \in 0..(Retries - 1) : TwoTo[n] <= TwoTo[Retries - 1]
  <2>1. CASE Retries = 0
    BY <2>1
  <2>2. CASE Retries # 0
    <3> DEFINE top == Retries - 1
               T == {n \in Nat : TwoTo[n] <= TwoTo[top]}
    <3>1. top \in Nat /\ top \in 0..Retries
      BY <2>2, SendAssumption
    <3>2. top \in T
      BY <1>4, <3>1
    <3>3. ASSUME NEW d \in 0..top, d # top, d + 1 \in T
          PROVE  d \in T
      <4>1. d \in 0..Retries /\ d + 1 \in 1..Retries /\ (d + 1) - 1 = d
        BY <3>1, <3>3, SendAssumption
      <4>2. TwoTo[d + 1] = 2 * TwoTo[d]
        BY <1>3, <4>1
      <4>3. /\ TwoTo[d] \in Nat /\ TwoTo[d] >= 1 /\ TwoTo[top] \in Nat
            /\ TwoTo[d + 1] <= TwoTo[top]
        BY <1>4, <3>1, <3>3, <4>1
      <4> HIDE DEF top
      <4>4. TwoTo[d] <= TwoTo[top]
        BY <4>2, <4>3
      <4>5. QED
        BY <4>1, <4>4
    <3>4. 0..top \subseteq T
      <4> HIDE DEF T, top
      <4>1. QED
        BY <3>1, <3>2, <3>3, DownwardInduction
    <3>5. QED
      BY <3>4
  <2>3. QED
    BY <2>1, <2>2
<1>6. QED
  BY <1>3, <1>4, <1>5

LEMMA LimitFacts ==
    /\ Limit \in Nat
    /\ \A n \in 0..(Retries - 1) : /\ TwoTo[n] \in Nat /\ TwoTo[n] >= 1
                                   /\ TwoTo[n] - 1 <= Limit
<1>1. CASE Retries = 0
  BY <1>1 DEF Limit
<1>2. CASE Retries # 0
  <2>1. Retries - 1 \in 0..Retries /\ 0..(Retries - 1) \subseteq 0..Retries
    BY <1>2, SendAssumption
  <2>2. QED
    BY <1>2, <2>1, DoublingFacts DEF Limit
<1>3. QED
  BY <1>1, <1>2

\* One payment more costs at most the pauses of one payment.
LEMMA LegCosts ==
    ASSUME NEW l \in Legs, NEW c \in Nat
    PROVE  /\ (l - 1) * c \in Nat /\ l * c \in Nat /\ N * c \in Nat
           /\ (l - 1) * c + c = l * c
           /\ l * c <= N * c
<1>1. N \in Nat /\ l \in Nat /\ l >= 1 /\ N - l \in Nat
  BY SendAssumption DEF Legs
<1>2. (l - 1) * c \in Nat /\ l * c \in Nat /\ N * c \in Nat /\ (N - l) * c \in Nat
  BY <1>1
<1>3. (l - 1) * c + c = l * c
  BY <1>1
<1>4. N * c = l * c + (N - l) * c
  BY <1>1
<1>5. QED
  BY <1>2, <1>3, <1>4

LEMMA ClockInit == Init => ClockInv
BY DEF Init, ClockInv

\* The clock through one step of send_deal.
LEMMA ClockStep ==
    ASSUME IInv, ClockInv, [Next]_vars
    PROVE  ClockInv'
<1>1. /\ N \in Nat /\ Retries \in Nat /\ leg \in Nat /\ attempt \in Nat
      /\ leg >= 1 /\ attempt >= 1 /\ leg <= N + 1
  BY Numbers DEF IInv
<1>2. slept \in Nat
  BY DEF ClockInv
<1>3. Limit \in Nat /\ Limit' = Limit
  BY LimitFacts DEF Limit
<1>4. N * Limit \in Nat
  BY <1>1, <1>3
<1>5. CASE Start \/ Token
  <2>1. slept' = 0 /\ leg = 1
    BY <1>5 DEF Start, Token, ClockInv, IInv, InPhase
  <2>2. CASE phase' = "failure"
    BY <1>3, <1>4, <2>1, <2>2 DEF ClockInv
  <2>3. CASE GoTo(1)
    <3>1. /\ phase' \in {"success", "failure", "post"}
          /\ phase' = "post" => leg' = 1 /\ attempt' = 1 /\ Retries >= 1
      BY <2>3, GoToTypes DEF IInv
    <3>2. CASE phase' = "post"
      <4>1. TwoTo[attempt' - 1] - 1 = 0 /\ (leg' - 1) * Limit = 0
        BY <1>3, <3>1, <3>2, DoublingFacts
      <4>2. slept' <= (leg' - 1) * Limit + (TwoTo[attempt' - 1] - 1)
        BY <2>1, <4>1
      <4>3. QED
        BY <1>3, <2>1, <3>2, <4>2 DEF ClockInv
    <3>3. CASE phase' \in {"success", "failure"}
      BY <1>3, <1>4, <2>1, <3>3 DEF ClockInv
    <3>4. QED
      BY <3>1, <3>2, <3>3
  <2>4. CASE phase' = "token"
    BY <1>3, <2>1, <2>4 DEF ClockInv
  <2>5. QED
    BY <1>5, <2>2, <2>3, <2>4 DEF Start, Token
<1>6. CASE Post
  BY <1>6 DEF Post, ClockInv, Limit
\* The payment at hand, and what has been slept before this attempt.
<1>7. ASSUME phase = "wait"
      PROVE  /\ leg \in Legs /\ attempt \in 1..Retries
             /\ attempt - 1 \in 0..(Retries - 1)
             /\ slept <= (leg - 1) * Limit + (TwoTo[attempt - 1] - 1)
             /\ slept <= leg * Limit /\ slept <= N * Limit
  <2>1. leg \in Legs /\ attempt \in 1..Retries
    BY <1>7 DEF IInv, InPhase
  <2>2. attempt - 1 \in 0..(Retries - 1)
    BY <1>1, <2>1
  <2>3. slept <= (leg - 1) * Limit + (TwoTo[attempt - 1] - 1)
    BY <1>7 DEF ClockInv
  <2>4. TwoTo[attempt - 1] \in Nat /\ TwoTo[attempt - 1] - 1 <= Limit
    BY <2>2, LimitFacts
  <2>5. /\ (leg - 1) * Limit \in Nat /\ leg * Limit \in Nat
        /\ (leg - 1) * Limit + Limit = leg * Limit
        /\ leg * Limit <= N * Limit
    BY <1>3, <2>1, LegCosts
  <2>6. slept <= leg * Limit
    BY <1>2, <1>3, <2>3, <2>4, <2>5
  <2>7. QED
    BY <1>2, <1>4, <2>1, <2>2, <2>3, <2>5, <2>6
<1>8. CASE Accepted
  <2>1. slept' = slept /\ GoTo(leg + 1) /\ phase = "wait"
    BY <1>8 DEF Accepted
  <2>2. /\ phase' \in {"success", "failure", "post"}
        /\ phase' = "post" => leg' = leg + 1 /\ attempt' = 1
    BY <1>1, <2>1, GoToTypes DEF IInv
  <2>3. CASE phase' = "post"
    <3>1. leg' - 1 = leg /\ TwoTo[attempt' - 1] - 1 = 0
      BY <1>1, <2>2, <2>3, DoublingFacts
    <3>2. leg * Limit \in Nat
      BY <1>1, <1>3
    <3>3. slept' <= (leg' - 1) * Limit + (TwoTo[attempt' - 1] - 1)
      BY <1>7, <2>1, <3>1, <3>2
    <3>4. QED
      BY <1>2, <1>3, <2>1, <2>3, <3>3 DEF ClockInv
  <2>4. CASE phase' \in {"success", "failure"}
    BY <1>2, <1>3, <1>7, <2>1, <2>4 DEF ClockInv
  <2>5. QED
    BY <2>2, <2>3, <2>4
<1>9. CASE Refused
  <2>1. slept' = slept /\ phase = "wait" /\ phase' = "failure"
    BY <1>9 DEF Refused
  <2>2. QED
    BY <1>2, <1>3, <1>7, <2>1 DEF ClockInv
<1>10. CASE Unclear
  <2>1. /\ phase = "wait" /\ leg' = leg /\ attempt' = attempt
        /\ phase' = IF attempt < Retries THEN "sleep" ELSE "failure"
        /\ slept' = slept + Backoff(attempt)
    BY <1>10 DEF Unclear, Retry
  <2>2. CASE attempt < Retries
    <3>1. slept' = slept + TwoTo[attempt - 1] /\ phase' = "sleep"
      BY <2>1, <2>2 DEF Backoff
    <3>2. /\ TwoTo[attempt] = 2 * TwoTo[attempt - 1]
          /\ TwoTo[attempt - 1] \in Nat /\ TwoTo[attempt] \in Nat
      <4>1. attempt \in 1..Retries /\ attempt \in 0..Retries /\ attempt - 1 \in 0..Retries
        BY <1>1, <1>7, <2>1
      <4>2. QED
        BY <4>1, DoublingFacts
    <3>3. (leg - 1) * Limit \in Nat
      BY <1>3, <1>7, <2>1, LegCosts
    <3>4. slept' <= (leg' - 1) * Limit + (TwoTo[attempt'] - 1) /\ slept' \in Nat
      BY <1>2, <1>7, <2>1, <3>1, <3>2, <3>3
    <3>5. QED
      BY <1>3, <3>1, <3>4 DEF ClockInv
  <2>3. CASE ~(attempt < Retries)
    <3>1. slept' = slept /\ phase' = "failure"
      BY <1>2, <2>1, <2>3 DEF Backoff
    <3>2. QED
      BY <1>2, <1>3, <1>7, <2>1, <3>1 DEF ClockInv
  <2>4. QED
    BY <2>2, <2>3
<1>11. CASE Wake
  <2>1. /\ phase = "sleep" /\ phase' = "post" /\ attempt' = attempt + 1
        /\ leg' = leg /\ slept' = slept /\ attempt' - 1 = attempt
    BY <1>1, <1>11 DEF Wake
  <2>2. QED
    BY <1>2, <1>3, <2>1 DEF ClockInv
<1>12. CASE UNCHANGED <<client, slept>>
  BY <1>12 DEF client, ClockInv, Limit
<1>13. QED
  BY <1>5, <1>6, <1>8, <1>9, <1>10, <1>11, <1>12
  DEF Next, Client, Answer, Trickle, AnswerLate, vars, client

-----------------------------------------------------------------------------
(***************************************************************************)
(* Theorems                                                                *)
(***************************************************************************)
\* The invariant holds in every run of send_deal, whatever the position
\* system answers, and for every N and Retries.
THEOREM Invariance == Spec => []IInv
<1>1. Init => IInv
  BY InitIInv
<1>2. IInv /\ [Next]_vars => IInv'
  <2>1. SUFFICES ASSUME IInv, [Next]_vars PROVE IInv'
    OBVIOUS
  <2>2. CASE Client
    BY <2>1, <2>2, StartStep, TokenStep, PostStep, AcceptedStep, RefusedStep,
       UnclearStep, WakeStep
    DEF Client
  <2>3. CASE Answer
    BY <2>1, <2>3, AnswerStep
  <2>4. CASE \E k \in Legs : AnswerLate(k)
    BY <2>1, <2>4, AnswerLateStep
  <2>5. CASE UNCHANGED vars
    BY <2>1, <2>5, StutterStep
  <2>6. CASE Trickle
    BY <2>1, <2>6, TrickleStep
  <2>7. QED
    BY <2>1, <2>2, <2>3, <2>4, <2>5, <2>6 DEF Next
<1>3. QED
  BY <1>1, <1>2, PTL DEF Spec

\* A payment is booked more often than once only as often as an attempt at it
\* ended without an answer the client could read.
THEOREM Explained == Spec => []DuplicatesExplained
<1>1. IInv => DuplicatesExplained
  <2>1. SUFFICES ASSUME IInv, NEW k \in Legs
        PROVE  booked[k] + late[k] <= unclear[k] + Settled(k)
    BY DEF DuplicatesExplained
  <2>2. CASE Settles(k)
    BY <2>1, <2>2 DEF IInv, LegInv, Settled
  <2>3. CASE ~Settles(k)
    BY <2>1, <2>3, Numbers DEF IInv, LegInv, Settled
  <2>4. QED
    BY <2>2, <2>3
<1>2. QED
  BY <1>1, Invariance, PTL

\* No payment is booked more often than position_send_retries, POSTs still on
\* their way included.
THEOREM Bounded == Spec => []AtMostRetries
<1>1. IInv => AtMostRetries
  <2>1. SUFFICES ASSUME IInv, NEW k \in Legs
        PROVE  booked[k] + late[k] <= Retries
    BY DEF AtMostRetries
  <2>2. /\ booked[k] \in Nat /\ late[k] \in Nat /\ unclear[k] \in Nat
        /\ Retries \in Nat
    BY <2>1, Numbers DEF IInv
  <2>3. QED
    BY <2>1, <2>2 DEF IInv, LegInv
<1>2. QED
  BY <1>1, Invariance, PTL

\* The clock keeps pace with the phase in every run of send_deal.
THEOREM ClockInvariance == Spec => []ClockInv
<1>1. Init => ClockInv
  BY ClockInit
<1>2. IInv /\ ClockInv /\ [Next]_vars => ClockInv'
  BY ClockStep
<1>3. QED
  BY <1>1, <1>2, Invariance, PTL DEF Spec

\* Type correctness, the clock included.
THEOREM TypeCorrect == Spec => []TypeOK
<1>1. IInv /\ ClockInv => TypeOK
  BY DEF IInv, ClockInv, TypeOK
<1>2. QED
  BY <1>1, Invariance, ClockInvariance, PTL

\* All the pauses of one send_deal together are no more than one doubling sum
\* per payment, whatever position_send_retries is.
THEOREM PausesBounded == Spec => []BackoffBounded
<1>1. IInv /\ ClockInv => BackoffBounded
  <2>1. SUFFICES ASSUME IInv, ClockInv PROVE slept <= N * Limit
    <3>1. CASE Retries = 0
      <4>1. N * Limit = 0
        BY <3>1, SendAssumption DEF Limit
      <4>2. QED
        BY <3>1, <4>1 DEF BackoffBounded
    <3>2. CASE Retries # 0
      BY <3>2 DEF BackoffBounded, Limit
    <3>3. QED
      BY <3>1, <3>2
  <2>2. Limit \in Nat /\ slept \in Nat /\ N * Limit \in Nat
    BY <2>1, LimitFacts, SendAssumption DEF ClockInv
  <2>3. CASE phase \in {"start", "token"}
    BY <2>1, <2>2, <2>3 DEF ClockInv
  <2>4. CASE phase \in {"success", "failure"}
    BY <2>1, <2>4 DEF ClockInv
  <2>5. CASE phase \in {"post", "wait", "sleep"}
    <3> DEFINE e == IF phase = "sleep" THEN attempt ELSE attempt - 1
    <3>1. leg \in Legs /\ e \in 0..(Retries - 1)
      <4>1. leg \in Legs /\ attempt \in 1..Retries
        BY <2>1, <2>5 DEF IInv, InPhase
      <4>2. phase = "sleep" => attempt < Retries
        BY <2>1 DEF IInv, InPhase
      <4>3. QED
        BY <4>1, <4>2, SendAssumption
    <3>2. slept <= (leg - 1) * Limit + (TwoTo[e] - 1)
      BY <2>1, <2>5 DEF ClockInv
    <3> HIDE DEF e
    <3>3. TwoTo[e] \in Nat /\ TwoTo[e] - 1 <= Limit
      BY <3>1, LimitFacts
    <3>4. /\ (leg - 1) * Limit \in Nat /\ leg * Limit \in Nat
          /\ (leg - 1) * Limit + Limit = leg * Limit
          /\ leg * Limit <= N * Limit
      BY <2>2, <3>1, LegCosts
    <3>5. QED
      BY <2>2, <3>2, <3>3, <3>4
  <2>6. QED
    BY <2>1, <2>3, <2>4, <2>5 DEF IInv, Typed
<1>2. QED
  BY <1>1, Invariance, ClockInvariance, PTL

\* send_deal keeps the contract approve_deal relies on: success only when
\* every payment is booked, payments in order, the outcome final.
THEOREM Refinement == Spec => KeepsContract
<1>1. Init => Contract!Init
  BY DEF Init, Contract!Init
<1>2. ASSUME IInv, IInv', [Next]_vars
      PROVE  [Contract!Next]_(Contract!vars)
  <2> DEFINE held == {k \in Legs : booked[k] > 0}
             known == IF phase \in {"success", "failure"} THEN phase ELSE "open"
  <2>1. CASE Client
    <3>1. held' = held
      BY <2>1 DEF Client, Start, Token, Post, Accepted, Refused, Unclear, Wake
    <3>2. phase \notin {"success", "failure"}
      BY <2>1 DEF Client, Start, Token, Post, Accepted, Refused, Unclear, Wake
    <3>3. CASE phase' = "success"
      <4>1. \A k \in Legs : booked'[k] > 0
        BY <1>2, <3>3 DEF IInv, LegInv, Known
      <4>2. held = 1..N
        BY <3>1, <4>1 DEF Legs
      <4>3. Contract!Succeed
        BY <3>1, <3>2, <3>3, <4>2 DEF Contract!Succeed, Contract!Return
      <4>4. QED
        BY <4>3 DEF Contract!Next
    <3>4. CASE phase' = "failure"
      <4>1. Contract!Fail
        BY <3>1, <3>2, <3>4 DEF Contract!Fail, Contract!Return
      <4>2. QED
        BY <4>1 DEF Contract!Next
    <3>5. CASE phase' \notin {"success", "failure"}
      BY <3>1, <3>2, <3>5 DEF Contract!vars
    <3>6. QED
      BY <3>3, <3>4, <3>5
  <2>2. ASSUME NEW j \in Legs, Book(j), phase' = phase,
               \A k \in Legs : k < j => booked[k] > 0
        PROVE  [Contract!Next]_(Contract!vars)
    <3>1. /\ booked \in [Legs -> Nat]
          /\ booked' = [booked EXCEPT ![j] = @ + 1]
      BY <1>2, <2>2 DEF IInv, Typed, Book
    <3>2. held' = held \cup {j}
      BY <3>1
    <3>3. CASE j \in held
      BY <2>2, <3>2, <3>3 DEF Contract!vars
    <3>4. CASE j \notin held
      <4>1. j \in (1..N) \ held /\ 1..(j - 1) \subseteq held
        BY <2>2, <3>4, SendAssumption DEF Legs
      <4>2. Contract!Deliver
        BY <2>2, <3>2, <4>1 DEF Contract!Deliver
      <4>3. QED
        BY <4>2 DEF Contract!Next
    <3>5. QED
      BY <3>3, <3>4
  <2>3. CASE Answer
    <3>1. leg \in Legs /\ phase' = phase
      BY <1>2, <2>3 DEF IInv, InPhase, Answer, client
    <3>2. CASE Book(leg)
      <4>1. \A k \in Legs : k < leg => booked[k] > 0
        BY <1>2 DEF IInv, LegInv, Known
      <4>2. QED
        BY <2>2, <3>1, <3>2, <4>1
    <3>3. CASE UNCHANGED booked
      BY <3>1, <3>3 DEF Contract!vars
    <3>4. QED
      BY <2>3, <3>2, <3>3 DEF Answer
  <2>4. CASE \E k \in Legs : AnswerLate(k)
    <3>1. PICK j \in Legs : AnswerLate(j)
      BY <2>4
    <3>2. Book(j) /\ phase' = phase /\ late[j] > 0
      BY <3>1 DEF AnswerLate, client
    <3>3. j <= leg
      <4>1. ~Untouched(j)
        BY <1>2, <3>2 DEF IInv, LegInv
      <4>2. QED
        BY <1>2, <4>1, Numbers DEF IInv, Untouched
    <3>4. \A k \in Legs : k < j => booked[k] > 0
      BY <1>2, <3>3, Numbers DEF IInv, LegInv, Known
    <3>5. QED
      BY <2>2, <3>2, <3>4
  <2>5. CASE UNCHANGED vars
    BY <2>5 DEF vars, Contract!vars
  <2>6. CASE Trickle
    BY <2>6 DEF Trickle, client, Contract!vars
  <2>7. QED
    BY <1>2, <2>1, <2>3, <2>4, <2>5, <2>6 DEF Next
<1>3. QED
  BY <1>1, <1>2, Invariance, PTL DEF Spec, KeepsContract, Contract!Spec

=============================================================================
