---------------------------- MODULE OrderLifecycle ----------------------------
(***************************************************************************)
(* Orders after their acceptance: the transition endpoint of the API       *)
(* (routes.py transition_order), the triggers behind the table             *)
(* (migration 012), and the ratings of completed orders.                   *)
(*                                                                         *)
(* A transition is two database calls.  The first reads the order, checks  *)
(* the requester and compares versions; the second is a single UPDATE in   *)
(* its own transaction, whose trigger validates the edge, bumps the        *)
(* version and appends to order_status_history.  Other requests run        *)
(* between the two, and between the start of the UPDATE and the moment it  *)
(* holds the row.  The answer may be lost after the commit.                *)
(***************************************************************************)
EXTENDS Integers, Sequences

CONSTANTS
  Orders, People,
  Parties,      \* order -> the people who may see and move it
  Asked,        \* the transitions clients ask for
  Handlers,     \* the requests the API serves at one time
  None,
  MaxTime       \* bound on the clock

Statuses == {"CONFIRMED", "PICKUP_SCHEDULED", "IN_TRANSIT", "DELIVERED",
             "COMPLETED", "CANCELLED", "DISPUTED"}
Request  == [order : Orders, by : People,
             to : Statuses \ {"CONFIRMED"}, version : Nat \ {0}]

ASSUME LifecycleConstants ==
  /\ Parties \in [Orders -> SUBSET People]
  /\ Asked \subseteq Request
  /\ None \notin Statuses
  /\ MaxTime \in Nat

VARIABLES
  orders,      \* [status, version]; status None before the order exists
  history,     \* order -> its rows of order_status_history, as inserted
  ratings,     \* <<order, rater>> of the committed ratings
  rating,      \* <<order, rater>> whose insert has passed its checks
  now,         \* the database clock
  pc,          \* handler -> where it is
  req,         \* handler -> its request, or its last one
  began        \* handler -> now() of its UPDATE

tables   == <<orders, history, ratings>>
requests == <<pc, req, began>>
vars     == <<tables, rating, now, requests>>

OrderRow   == [status : Statuses \union {None}, version : Nat \ {0}]
HistoryRow == [from : Statuses \union {None}, to : Statuses, at : Nat]

Running  == {"read", "write", "update"}
Answered == {"ok", "conflict", "refused"}
Places   == {"idle"} \union Running \union Answered

Init ==
  /\ orders  = [o \in Orders |-> [status |-> None, version |-> 1]]
  /\ history = [o \in Orders |-> <<>>]
  /\ ratings = {}
  /\ rating  = {}
  /\ now     = 0
  /\ pc      = [h \in Handlers |-> "idle"]
  /\ req     = [h \in Handlers |-> None]
  /\ began   = [h \in Handlers |-> 0]

At(h, place)   == pc[h] = place
Goto(h, place) == pc' = [pc EXCEPT ![h] = place]

(***************************************************************************)
(* The table's triggers.                                                   *)
(***************************************************************************)

Edges ==
  ({"CONFIRMED"}        \X {"PICKUP_SCHEDULED", "CANCELLED", "DISPUTED"}) \union
  ({"PICKUP_SCHEDULED"} \X {"IN_TRANSIT", "CANCELLED", "DISPUTED"}) \union
  ({"IN_TRANSIT"}       \X {"DELIVERED", "DISPUTED"}) \union
  ({"DELIVERED"}        \X {"COMPLETED", "DISPUTED"})

\* Broken: a completed order can still be disputed.
ValidAfterCompletion(from, to) ==
  <<from, to>> \in Edges \union {<<"COMPLETED", "DISPUTED">>}

ValidTransition(from, to) == <<from, to>> \in Edges

Entry(from, to, at) == [from |-> from, to |-> to, at |-> at]

\* Broken: the version stays; the row is updated and the history forgotten.
MoveKeepingVersion(o, to, at) ==
  /\ orders'  = [orders EXCEPT ![o] = [status |-> to, version |-> @.version]]
  /\ history' = [history EXCEPT ![o] = Append(@, Entry(orders[o].status, to, at))]
MoveSilently(o, to, at) ==
  /\ orders'  = [orders EXCEPT ![o] = [status |-> to, version |-> @.version + 1]]
  /\ UNCHANGED history

\* enforce_order_transition on an UPDATE that changes the status.
Move(o, to, at) ==
  /\ orders'  = [orders EXCEPT ![o] = [status |-> to, version |-> @.version + 1]]
  /\ history' = [history EXCEPT ![o] = Append(@, Entry(orders[o].status, to, at))]

\* accept_offer inserts the order; a trigger records its first status.
Place(o) ==
  /\ orders[o].status = None
  /\ orders'  = [orders EXCEPT ![o] = [status |-> "CONFIRMED", version |-> 1]]
  /\ history' = [history EXCEPT ![o] = Append(@, Entry(None, "CONFIRMED", now))]
  /\ UNCHANGED <<ratings, rating, now, requests>>

(***************************************************************************)
(* The transition endpoint.                                                *)
(***************************************************************************)

Ask(h) ==
  /\ pc[h] \notin Running
  /\ Goto(h, "read")
  /\ \E q \in Asked : req' = [req EXCEPT ![h] = q]
  /\ UNCHANGED <<tables, rating, now, began>>

Visible(q) == orders[q.order].status # None /\ q.by \in Parties[q.order]

ReadOrder(h) ==
  /\ At(h, "read")
  /\ LET version == orders[req[h].order].version IN
       \/ /\ Visible(req[h])
          /\ version = req[h].version
          /\ Goto(h, "write")
       \/ /\ Visible(req[h])
          /\ version # req[h].version
          /\ Goto(h, "conflict")
       \/ ~Visible(req[h]) /\ Goto(h, "refused")
  /\ UNCHANGED <<tables, rating, now, req, began>>

\* The statement takes its snapshot and its now(); no row in the snapshot has
\* the version if another request got ahead since the read.
StartUpdate(h) ==
  /\ At(h, "write")
  /\ began' = [began EXCEPT ![h] = now]
  /\ \/ orders[req[h].order].version = req[h].version /\ Goto(h, "update")
     \/ orders[req[h].order].version # req[h].version /\ Goto(h, "conflict")
  /\ UNCHANGED <<tables, rating, now, req>>

\* Broken: UPDATE ... WHERE id = $1, without the version.
ApplyUpdateAnyVersion(h) ==
  At(h, "update") /\ LET o == req[h].order  to == req[h].to IN
  /\ \/ /\ ValidTransition(orders[o].status, to)
        /\ Move(o, to, began[h])
        /\ Goto(h, "ok")
     \/ /\ orders[o].status = to
        /\ Goto(h, "ok")
        /\ UNCHANGED <<orders, history>>
     \/ /\ orders[o].status # to
        /\ ~ValidTransition(orders[o].status, to)
        /\ Goto(h, "refused")
        /\ UNCHANGED <<orders, history>>
  /\ UNCHANGED <<ratings, rating, now, req, began>>

\* Broken: an update that found no row is not noticed.
ApplyUpdateUnnoticed(h) ==
  At(h, "update") /\ LET o == req[h].order  to == req[h].to IN
  /\ Goto(h, "ok")
  /\ IF orders[o].version = req[h].version /\ ValidTransition(orders[o].status, to)
     THEN Move(o, to, began[h])
     ELSE UNCHANGED <<orders, history>>
  /\ UNCHANGED <<ratings, rating, now, req, began>>

\* The statement has the row's lock and evaluates its WHERE clause again.  An
\* update to the present status passes the trigger and changes nothing.  The
\* answer to a committed update may be lost on the way: the endpoint reports
\* every exception, a timeout too, as a transition that is not allowed.
ApplyUpdate(h) ==
  At(h, "update") /\ LET o == req[h].order  to == req[h].to IN
  /\ \/ /\ orders[o].version = req[h].version
        /\ ValidTransition(orders[o].status, to)
        /\ Move(o, to, began[h])
        /\ \E answer \in {"ok", "refused"} : Goto(h, answer)
     \/ /\ orders[o].version = req[h].version
        /\ orders[o].status = to
        /\ Goto(h, "ok")
        /\ UNCHANGED <<orders, history>>
     \/ /\ orders[o].version = req[h].version
        /\ orders[o].status # to
        /\ ~ValidTransition(orders[o].status, to)
        /\ Goto(h, "refused")
        /\ UNCHANGED <<orders, history>>
     \/ /\ orders[o].version # req[h].version
        /\ Goto(h, "conflict")
        /\ UNCHANGED <<orders, history>>
  /\ UNCHANGED <<ratings, rating, now, req, began>>

\* A statement that fails before its commit, or is cancelled.
Fail(h) ==
  /\ pc[h] \in Running
  /\ Goto(h, "refused")
  /\ UNCHANGED <<tables, rating, now, req, began>>

(***************************************************************************)
(* Ratings are inserted by the clients themselves.  The policy and the     *)
(* trigger look at the order without locking it; the row appears later.    *)
(***************************************************************************)

CheckRating(o, p) ==
  /\ orders[o].status = "COMPLETED"
  /\ p \in Parties[o]
  /\ <<o, p>> \notin ratings \union rating
  /\ rating' = rating \union {<<o, p>>}
  /\ UNCHANGED <<tables, now, requests>>

CommitRating(o, p) ==
  /\ <<o, p>> \in rating
  /\ rating'  = rating \ {<<o, p>>}
  /\ ratings' = ratings \union {<<o, p>>}
  /\ UNCHANGED <<orders, history, now, requests>>

Tick ==
  /\ now < MaxTime
  /\ now' = now + 1
  /\ UNCHANGED <<tables, rating, requests>>

-----------------------------------------------------------------------------
Handle(h) ==
  Ask(h) \/ ReadOrder(h) \/ StartUpdate(h) \/ ApplyUpdate(h) \/ Fail(h)

Next ==
  \/ \E h \in Handlers : Handle(h)
  \/ \E o \in Orders : Place(o)
  \/ \E o \in Orders, p \in People : CheckRating(o, p) \/ CommitRating(o, p)
  \/ Tick

Spec == Init /\ [][Next]_vars

-----------------------------------------------------------------------------
(***************************************************************************)
(* Properties.                                                             *)
(***************************************************************************)

\* The shape of every row and request.
TypeOK ==
  /\ orders \in [Orders -> OrderRow]
  /\ history \in [Orders -> Seq(HistoryRow)]
  /\ ratings \subseteq Orders \X People
  /\ rating \subseteq Orders \X People
  /\ now \in Nat
  /\ pc \in [Handlers -> Places]
  /\ req \in [Handlers -> Request \union {None}]
  /\ began \in [Handlers -> Nat]

\* The history is the whole story: it starts with the acceptance, each row
\* takes up where the one before it ended, every row is a legal move, the last
\* one is the present status, and there are as many rows as the version says.
HistoryTellsStatus ==
  \A o \in Orders : LET H == history[o] IN
    IF orders[o].status = None THEN H = <<>>
    ELSE /\ Len(H) = orders[o].version
         /\ H[1].from = None /\ H[1].to = "CONFIRMED"
         /\ \A i \in 2..Len(H) : /\ H[i].from = H[i-1].to
                                 /\ <<H[i].from, H[i].to>> \in Edges
         /\ H[Len(H)].to = orders[o].status

\* The endpoint shows the history ordered by changed_at, which is the start of
\* an update and not the moment it took effect: the order is the same.
HistoryInTimeOrder ==
  \A o \in Orders : \A i, j \in DOMAIN history[o] :
    i < j => history[o][i].at <= history[o][j].at

\* A requester who is told "ok" has made exactly the move it asked for, out of
\* exactly the version it had seen, whatever others did at the same time (or
\* the order was in the status it asked for already, in that version).
OkMeansMoved ==
  \A h \in Handlers : pc[h] = "ok" =>
    LET H == history[req[h].order]  v == req[h].version IN
      /\ v <= Len(H)
      /\ \/ H[v].to = req[h].to
         \/ v + 1 <= Len(H) /\ H[v + 1].to = req[h].to

\* A rating is of a completed order and by one of its parties: no order leaves
\* COMPLETED under a rating, nor between a rating's checks and its commit.
RatedOrdersAreCompleted ==
  \A r \in ratings : orders[r[1]].status = "COMPLETED" /\ r[2] \in Parties[r[1]]

\* Every change of status goes along an edge and is appended to the history in
\* the same step.
Ledger == INSTANCE StatusLog WITH
  Things  <- Orders,
  Absent  <- None,
  First   <- "CONFIRMED",
  current <- [o \in Orders |-> orders[o].status],
  log     <- [o \in Orders |-> [i \in 1..Len(history[o]) |-> history[o][i].to]]

ImplementsStatusLog == Ledger!Spec
=============================================================================
