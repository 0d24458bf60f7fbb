----------------------------- MODULE Notifications -----------------------------
(***************************************************************************)
(* The audit log as it is read: page by page at /audit-events, and as the  *)
(* notifications of a user, with read-all.                                 *)
(*                                                                         *)
(* An entry is stamped with now() of PostgreSQL, the start of its          *)
(* transaction, and can be seen from its COMMIT on; an approval talks to   *)
(* the position system in between.  A read-all is stamped with the clock   *)
(* of the service, taken to be the same.  Users share none of this: one is *)
(* enough, with several requests at once.                                  *)
(*                                                                         *)
(* A definition with another one's name and a suffix is that definition    *)
(* with a slip in it, for the properties to notice.                        *)
(***************************************************************************)
EXTENDS Naturals, FiniteSets

CONSTANTS
    MaxClock,      \* transactions that write to the log
    PageSize,
    Slots,         \* requests of the user in progress at the same time
    MaxRequests    \* requests of the user in all

ASSUME NotificationsAssumption ==
    {MaxClock, MaxRequests} \subseteq Nat /\ PageSize \in Nat \ {0}

VARIABLES
    clock,       \* the start of the newest transaction
    log,         \* the committed entries
    open,        \* the starts of the open transactions that write to the log
    lastRead,    \* user_notification_state of the user: {} or {last_read_at}
    req,         \* req[s]: the request that slot s is serving
    served,      \* number of requests begun
    due,         \* newest stamp in the log when a successful read-all began
    raced        \* two read-alls have overlapped

vars == <<clock, log, open, lastRead, req, served, due, raced>>
trail == <<clock, log, open>>

Entries == [stamp: 1..MaxClock, nr: {1, 2}]
Idle == [op |-> "idle"]

Init ==
    /\ clock = 0
    /\ log = {}
    /\ open = {}
    /\ lastRead = {}
    /\ req = [s \in Slots |-> Idle]
    /\ served = 0
    /\ due = 0
    /\ raced = FALSE

-----------------------------------------------------------------------------
(***************************************************************************)
(* Writing: the transactions of the other services                         *)
(***************************************************************************)
\* Microseconds tell the starts of transactions apart; the instants between
\* two of them make no difference.
Begin ==
    /\ clock < MaxClock
    /\ clock' = clock + 1
    /\ open' = open \cup {clock'}
    /\ UNCHANGED <<log, lastRead, req, served, due, raced>>

\* AuditRepository.append and COMMIT: one entry, or the two of an approval.
\* What is rolled back is left out.
Commit(t) ==
    /\ \E n \in 1..2 : log' = log \cup {[stamp |-> t, nr |-> k] : k \in 1..n}
    /\ open' = open \ {t}
    /\ UNCHANGED <<clock, lastRead, req, served, due, raced>>

-----------------------------------------------------------------------------
(***************************************************************************)
(* Reading: ORDER BY created_at DESC OFFSET .. LIMIT ..                    *)
(***************************************************************************)
OldestFirst(e, f) == e.stamp < f.stamp
Precedes(e, f) == e.stamp > f.stamp

OffsetFromOne(page) == page * PageSize
Offset(page) == (page - 1) * PageSize

\* The entries of equal stamp come in any order, another one each time: the
\* page has what is sure to fall into its places, and of a stamp that falls
\* into them in part as many as there are places.
Pages(page) ==
    LET places    == (Offset(page) + 1)..(Offset(page) + PageSize)
        first(e)  == Cardinality({f \in log : Precedes(f, e)}) + 1
        last(e)   == Cardinality({f \in log : ~Precedes(e, f)})
        share(e)  == places \cap (first(e)..last(e))
        sure      == {e \in log : first(e) \in places /\ last(e) \in places}
        partial   == {e \in log \ sure : share(e) # {}}
    IN  {sure \cup X : X \in {X \in SUBSET partial : \A e \in partial :
            Cardinality({f \in X : f.stamp = e.stamp}) = Cardinality(share(e))}}

IsReadBefore(e, at) == \E t \in at : e.stamp < t
IsRead(e, at) == \E t \in at : e.stamp <= t

-----------------------------------------------------------------------------
(***************************************************************************)
(* The requests of the user                                                *)
(***************************************************************************)
Serve(s, r) ==
    /\ req[s] = Idle
    /\ served < MaxRequests /\ served' = served + 1
    /\ req' = [req EXCEPT ![s] = r]
    /\ UNCHANGED <<trail, lastRead, due>>

GoOn(s, r) == req[s] # Idle /\ req' = [req EXCEPT ![s] = r]

\* Somebody walks through the log, until a page is not full.
StartWalk(s) ==
    /\ Serve(s, [op |-> "walk", page |-> 1, left |-> log])
    /\ UNCHANGED raced

NextPage(s) ==
    /\ req[s].op = "walk"
    /\ \E P \in Pages(req[s].page) :
          GoOn(s, [req[s] EXCEPT !.op = IF Cardinality(P) < PageSize THEN "walked"
                                                                     ELSE @,
                                 !.page = @ + 1, !.left = @ \ P])
    /\ UNCHANGED <<trail, lastRead, served, due, raced>>

Newest == CHOOSE t \in 0..clock :
              /\ \A e \in log : e.stamp <= t
              /\ t = 0 \/ \E e \in log : e.stamp = t

\* read_all_notifications: SELECT the row,
StartReadAll(s) ==
    /\ Serve(s, [op |-> "look", copy |-> lastRead, newest |-> Newest])
    /\ raced' = (raced \/ \E o \in Slots : req[o].op \in {"look", "stamped"})

StampAhead(s) ==
    /\ req[s].op = "look"
    /\ GoOn(s, [op |-> "stamped", copy |-> req[s].copy, newest |-> req[s].newest,
                at |-> clock + 1])
    /\ UNCHANGED <<trail, lastRead, served, due, raced>>

\* look at the clock,
Stamp(s) ==
    /\ req[s].op = "look"
    /\ GoOn(s, [op |-> "stamped", copy |-> req[s].copy, newest |-> req[s].newest,
                at |-> clock])
    /\ UNCHANGED <<trail, lastRead, served, due, raced>>

\* A row that the request did not find is inserted and violates the primary
\* key if another one has been meanwhile; a value that is not new is not
\* written.
Conflicts(copy, stored) == copy = {} /\ stored # {}

MarkRead(s) ==
    /\ req[s].op = "stamped"
    /\ ~Conflicts(req[s].copy, lastRead)
    /\ lastRead' = IF req[s].copy = {req[s].at} THEN lastRead ELSE {req[s].at}
    /\ due' = IF req[s].newest > due THEN req[s].newest ELSE due
    /\ GoOn(s, Idle)
    /\ UNCHANGED <<trail, served, raced>>

\* An INSERT that fails, a client gone, a walk that is over.
Finish(s) ==
    /\ GoOn(s, Idle)
    /\ UNCHANGED <<trail, lastRead, served, due, raced>>

Next ==
    \/ Begin
    \/ \E t \in open : Commit(t)
    \/ \E s \in Slots :
          \/ StartWalk(s) \/ NextPage(s)
          \/ StartReadAll(s) \/ Stamp(s) \/ MarkRead(s)
          \/ Finish(s)

Spec == Init /\ [][Next]_vars

-----------------------------------------------------------------------------
(***************************************************************************)
(* Properties                                                              *)
(***************************************************************************)
\* The types of the rows, at most one for the user; nothing is stamped with a
\* time to come.
TypeOK ==
    /\ clock \in 0..MaxClock
    /\ log \subseteq Entries
    /\ open \subseteq 1..clock /\ {e.stamp : e \in log} \subseteq (1..clock) \ open
    /\ lastRead \subseteq 0..clock /\ Cardinality(lastRead) <= 1
    /\ due \in 0..clock
    /\ served \in 0..MaxRequests /\ raced \in BOOLEAN

\* What was in the log when the user asked to mark everything is read, and
\* stays so, unless two such requests of the user have overlapped (the one
\* with the older clock can be the last to be written).
MarkedStaysRead ==
    ~raced => \A e \in log : e.stamp <= due => IsRead(e, lastRead)

\* The notifications count the unread among the newest PageSize entries
\* only.  As what is unread is newer than all that is read, the count is
\* right up to PageSize, in whatever order entries of equal stamp come.
BadgeExact ==
    LET unread(S) == Cardinality({e \in S : ~IsRead(e, lastRead)})
    IN  \A P \in Pages(1) :
            unread(P) = IF unread(log) < PageSize THEN unread(log) ELSE PageSize

\* Whoever walks through the pages while entries are added gets every entry
\* that was there at the start, in the place of others or later: entries that
\* come late never push one forward, to a page already read.  Of entries of
\* equal stamp one may be missed.
WalkComplete ==
    \A s \in Slots : req[s].op = "walked" =>
        \A e \in req[s].left : \E f \in log : f # e /\ f.stamp = e.stamp

=============================================================================
