------------------------- MODULE OrderLifecycle_proofs -------------------------
(***************************************************************************)
(* Proofs about OrderLifecycle, for any orders, people, requests and       *)
(* clock.                                                                  *)
(*                                                                         *)
(* The inductive invariant IInv adds to the properties themselves what a   *)
(* request knows between its two database calls: the order exists and is   *)
(* at least as far as the version that was read, and no row of the history *)
(* up to that version is younger than the update that has started.         *)
(***************************************************************************)
EXTENDS OrderLifecycle, TLAPS

\* A request that has begun is a request.
KnowsRequest == \A h \in Handlers : pc[h] # "idle" => req[h] \in Request

TypeInv == TypeOK /\ KnowsRequest

\* Past its read, a request is about an order that exists, in a version that
\* the order has or has had.
Read == \A h \in Handlers : pc[h] \in {"write", "update"} =>
          /\ orders[req[h].order].status # None
          /\ req[h].version <= orders[req[h].order].version

\* Nothing is stamped with a time to come, and an update that has started is no
\* older than the rows it was started after.
Timely ==
  /\ \A o \in Orders : \A i \in DOMAIN history[o] : history[o][i].at <= now
  /\ \A h \in Handlers : pc[h] = "update" =>
       /\ began[h] <= now
       /\ \A i \in DOMAIN history[req[h].order] :
            i <= req[h].version => history[req[h].order][i].at <= began[h]

\* A rating that has passed its checks is as good as one that is committed.
Rated == \A r \in ratings \union rating :
           orders[r[1]].status = "COMPLETED" /\ r[2] \in Parties[r[1]]

IInv ==
  /\ TypeInv
  /\ HistoryTellsStatus
  /\ Read
  /\ Timely
  /\ HistoryInTimeOrder
  /\ OkMeansMoved
  /\ Rated

(***************************************************************************)
(* Only two kinds of step write orders and their history.                  *)
(***************************************************************************)

\* The update of a request takes effect.
Moves(h) ==
  /\ pc[h] = "update"
  /\ orders[req[h].order].version = req[h].version
  /\ ValidTransition(orders[req[h].order].status, req[h].to)
  /\ Move(req[h].order, req[h].to, began[h])
  /\ \E answer \in {"ok", "refused"} : Goto(h, answer)
  /\ UNCHANGED <<ratings, rating, now, req, began>>

\* Any other step of a request: what it may do to its place.
Quiet(h) ==
  /\ UNCHANGED <<tables, rating, now>>
  /\ \E place \in Places : /\ Goto(h, place)
                           /\ place # "idle"
                           /\ place = "write"  => pc[h] = "read" /\ Visible(req[h])
                           /\ place = "update" => pc[h] = "write"
                           /\ place \in {"write", "update"} =>
                                orders[req[h].order].version = req[h].version
                           /\ place = "update" => began' = [began EXCEPT ![h] = now]
                           /\ began' \in {began, [began EXCEPT ![h] = now]}
                           /\ place = "ok" =>
                                /\ pc[h] = "update"
                                /\ orders[req[h].order].version = req[h].version
                                /\ orders[req[h].order].status = req[h].to
                           /\ \/ pc[h] # "idle" /\ req' = req
                              \/ /\ place = "read"
                                 /\ \E q \in Asked : req' = [req EXCEPT ![h] = q]

\* A step of a request either moves its order or writes nothing.
LEMMA RequestKinds ==
  ASSUME TypeInv, NEW h \in Handlers, Handle(h)
  PROVE  Moves(h) \/ Quiet(h)
<1>1. CASE Ask(h)
  <2>1. PICK q \in Asked : req' = [req EXCEPT ![h] = q]
    BY <1>1 DEF Ask
  <2>2. Quiet(h)
    BY <1>1, <2>1 DEF Ask, Quiet, Goto, Places, Running
  <2>3. QED
    BY <2>2
<1>2. CASE ReadOrder(h)
  BY <1>2 DEF ReadOrder, Quiet, At, Goto, Places, Running, Answered
<1>3. CASE StartUpdate(h)
  BY <1>3 DEF StartUpdate, Quiet, At, Goto, Places, Running, Answered, requests
<1>4. CASE ApplyUpdate(h)
  BY <1>4 DEF ApplyUpdate, Quiet, Moves, At, Goto, Places, Running, Answered, tables
<1>5. CASE Fail(h)
  BY <1>5 DEF Fail, Quiet, Goto, Places, Running, Answered
<1>6. QED
  BY <1>1, <1>2, <1>3, <1>4, <1>5 DEF Handle

(***************************************************************************)
(* Type correctness.                                                       *)
(***************************************************************************)

\* The rows start out with their types.
LEMMA TypeInit == Init => TypeInv
BY LifecycleConstants
   DEF Init, TypeInv, TypeOK, KnowsRequest, OrderRow, HistoryRow, Places

\* A legal target is a status.
LEMMA EdgesAreOfStatuses ==
  \A e \in Edges : e[1] \in Statuses /\ e[2] \in Statuses /\ e[1] # e[2]
BY DEF Edges, Statuses

\* A move writes rows of the right type.
LEMMA TypeMove ==
  ASSUME TypeInv, NEW h \in Handlers, Moves(h)
  PROVE  TypeInv'
<1> DEFINE o == req[h].order
<1>1. /\ req[h] \in Request /\ o \in Orders /\ req[h].to \in Statuses
      /\ began[h] \in Nat
  BY DEF TypeInv, TypeOK, KnowsRequest, Moves, Request
<1>2. orders[o] \in OrderRow /\ orders[o].version + 1 \in Nat \ {0}
  BY <1>1 DEF TypeInv, TypeOK, OrderRow
<1>3. orders' \in [Orders -> OrderRow]
  BY <1>1, <1>2 DEF TypeInv, TypeOK, Moves, Move, OrderRow
<1>4. history' \in [Orders -> Seq(HistoryRow)]
  <2>1. Entry(orders[o].status, req[h].to, began[h]) \in HistoryRow
    BY <1>1, <1>2 DEF Entry, HistoryRow, OrderRow
  <2>2. history[o] \in Seq(HistoryRow)
    BY <1>1 DEF TypeInv, TypeOK
  <2>3. Append(history[o], Entry(orders[o].status, req[h].to, began[h])) \in Seq(HistoryRow)
    BY <2>1, <2>2
  <2>4. QED
    BY <1>1, <2>3 DEF TypeInv, TypeOK, Moves, Move
<1>5. /\ pc' \in [Handlers -> Places] /\ KnowsRequest'
      /\ UNCHANGED <<ratings, rating, now, req, began>>
  BY DEF TypeInv, TypeOK, KnowsRequest, Moves, Goto, Places, Answered
<1>6. QED
  BY <1>3, <1>4, <1>5 DEF TypeInv, TypeOK

\* So does every other step.
LEMMA TypeStep == TypeInv /\ [Next]_vars => TypeInv'
<1> SUFFICES ASSUME TypeInv, [Next]_vars PROVE TypeInv'
  OBVIOUS
<1>1. ASSUME NEW h \in Handlers, Handle(h) PROVE TypeInv'
  <2>1. CASE Moves(h)
    BY <2>1, TypeMove
  <2>2. CASE Quiet(h)
    <3>1. pc' \in [Handlers -> Places]
      BY <2>2 DEF Quiet, Goto, TypeInv, TypeOK
    <3>2. /\ req' \in [Handlers -> Request \union {None}] /\ KnowsRequest'
          /\ began' \in [Handlers -> Nat]
      BY <2>2, LifecycleConstants DEF Quiet, Goto, TypeInv, TypeOK, KnowsRequest
    <3>3. QED
      BY <2>2, <3>1, <3>2 DEF Quiet, tables, TypeInv, TypeOK
  <2>3. QED
    BY <1>1, <2>1, <2>2, RequestKinds
<1>2. ASSUME NEW o \in Orders, Place(o) PROVE TypeInv'
  <2>1. /\ orders' \in [Orders -> OrderRow]
        /\ Entry(None, "CONFIRMED", now) \in HistoryRow
    BY <1>2 DEF Place, OrderRow, Statuses, Entry, HistoryRow, TypeInv, TypeOK
  <2>2. Append(history[o], Entry(None, "CONFIRMED", now)) \in Seq(HistoryRow)
    BY <2>1 DEF TypeInv, TypeOK
  <2>3. history' \in [Orders -> Seq(HistoryRow)]
    BY <1>2, <2>2 DEF Place, TypeInv, TypeOK
  <2>4. QED
    BY <1>2, <2>1, <2>3 DEF Place, requests, TypeInv, TypeOK, KnowsRequest
<1>3. ASSUME NEW o \in Orders, NEW p \in People, CheckRating(o, p) \/ CommitRating(o, p)
      PROVE  TypeInv'
  BY <1>3 DEF CheckRating, CommitRating, tables, requests, TypeInv, TypeOK, KnowsRequest
<1>4. CASE Tick
  BY <1>4 DEF Tick, tables, requests, TypeInv, TypeOK, KnowsRequest
<1>5. CASE UNCHANGED vars
  BY <1>5 DEF vars, tables, requests, TypeInv, TypeOK, KnowsRequest
<1>6. QED
  BY <1>1, <1>2, <1>3, <1>4, <1>5 DEF Next

\* Every row and request keeps its type, whatever the constants.
THEOREM LifecycleTypes == Spec => []TypeOK
<1>1. Spec => []TypeInv
  BY TypeInit, TypeStep, PTL DEF Spec
<1>2. QED
  BY <1>1, PTL DEF TypeInv

(***************************************************************************)
(* What a step does to the order of a request, its history and its place.  *)
(***************************************************************************)

\* Whoever writes: the order is new, or a request moves it along an edge; in
\* both cases one row is appended and the version is the number of rows.
Appends(o, row) ==
  /\ history' = [history EXCEPT ![o] = Append(@, row)]
  /\ \/ /\ orders[o].status = None
        /\ row = Entry(None, "CONFIRMED", now)
        /\ orders' = [orders EXCEPT ![o] = [status |-> "CONFIRMED", version |-> 1]]
     \/ /\ <<orders[o].status, row.to>> \in Edges
        /\ row.from = orders[o].status
        /\ orders' = [orders EXCEPT ![o] =
                        [status |-> row.to, version |-> orders[o].version + 1]]

\* A move is such an appending.
LEMMA MoveAppends ==
  ASSUME TypeInv, NEW h \in Handlers, Moves(h)
  PROVE  /\ req[h].order \in Orders /\ req[h].to \in Statuses /\ began[h] \in Nat
         /\ Appends(req[h].order,
                    Entry(orders[req[h].order].status, req[h].to, began[h]))
<1>1. req[h] \in Request /\ began[h] \in Nat
  BY DEF TypeInv, TypeOK, KnowsRequest, Moves
<1>2. req[h].order \in Orders /\ req[h].to \in Statuses
  BY <1>1 DEF Request
<1>3. QED
  BY <1>1, <1>2 DEF Moves, Move, Appends, Entry, ValidTransition, TypeInv, TypeOK

\* So is the acceptance of an offer.
LEMMA PlaceAppends ==
  ASSUME TypeInv, NEW o \in Orders, Place(o)
  PROVE  Appends(o, Entry(None, "CONFIRMED", now))
BY DEF Place, Appends

\* Every step appends one row to the history of one order or writes none.
LEMMA Writes ==
  ASSUME TypeInv, [Next]_vars
  PROVE  \/ UNCHANGED <<orders, history>>
         \/ \E o \in Orders, row \in HistoryRow : Appends(o, row)
<1>1. ASSUME NEW h \in Handlers, Moves(h)
      PROVE  \E o \in Orders, row \in HistoryRow : Appends(o, row)
  <2>1. Entry(orders[req[h].order].status, req[h].to, began[h]) \in HistoryRow
    BY <1>1, MoveAppends DEF Entry, HistoryRow, TypeInv, TypeOK, OrderRow
  <2>2. QED
    BY <1>1, <2>1, MoveAppends
<1>2. ASSUME NEW o \in Orders, Place(o)
      PROVE  \E row \in HistoryRow : Appends(o, row)
  <2>1. Entry(None, "CONFIRMED", now) \in HistoryRow
    BY DEF Entry, HistoryRow, Statuses, TypeInv, TypeOK
  <2>2. QED
    BY <1>2, <2>1, PlaceAppends
<1>3. QED
  BY <1>1, <1>2, RequestKinds
     DEF Next, Quiet, CheckRating, CommitRating, Tick, vars, tables

(***************************************************************************)
(* The history tells the status.                                           *)
(***************************************************************************)

\* What the history of one order has to do with its row.
Tells(row, H) ==
  IF row.status = None THEN H = <<>>
  ELSE /\ Len(H) = row.version
       /\ H[1].from = None /\ H[1].to = "CONFIRMED"
       /\ \A i \in 2..Len(H) : /\ H[i].from = H[i-1].to
                               /\ <<H[i].from, H[i].to>> \in Edges
       /\ H[Len(H)].to = row.status

\* The property is about each order by itself.
LEMMA TellsEach == HistoryTellsStatus <=> \A o \in Orders : Tells(orders[o], history[o])
BY DEF HistoryTellsStatus, Tells

\* Appending one row keeps the rows before it.
LEMMA AppendKeeps ==
  ASSUME NEW S, NEW H \in Seq(S), NEW row \in S
  PROVE  /\ Append(H, row) \in Seq(S)
         /\ Len(Append(H, row)) = Len(H) + 1
         /\ \A i \in 1..Len(H) : Append(H, row)[i] = H[i]
         /\ Append(H, row)[Len(H) + 1] = row
OBVIOUS

\* The row that is appended takes up where the history had ended.
LEMMA AppendTells ==
  ASSUME TypeInv, NEW o \in Orders, NEW row \in HistoryRow, Appends(o, row),
         Tells(orders[o], history[o])
  PROVE  Tells(orders'[o], history'[o])
<1> DEFINE H == history[o]
           G == Append(H, row)
<1>1. H \in Seq(HistoryRow) /\ Len(H) \in Nat /\ orders[o] \in OrderRow
  BY DEF TypeInv, TypeOK
<1>2. /\ G \in Seq(HistoryRow) /\ Len(G) = Len(H) + 1
      /\ \A i \in 1..Len(H) : G[i] = H[i]
      /\ G[Len(H) + 1] = row
  BY <1>1, AppendKeeps
<1>3. history'[o] = G
  BY DEF Appends, TypeInv, TypeOK
<1>4. CASE orders[o].status = None
  <2>1. H = <<>> /\ Len(H) = 0
    BY <1>4 DEF Tells
  <2>2. /\ orders'[o] = [status |-> "CONFIRMED", version |-> 1]
        /\ row = Entry(None, "CONFIRMED", now)
    BY <1>4, LifecycleConstants DEF Appends, TypeInv, TypeOK, Edges, Statuses
  <2>3. G[1] = row /\ Len(G) = 1
    BY <1>2, <2>1
  <2>4. QED
    BY <1>3, <2>2, <2>3, LifecycleConstants DEF Tells, Entry, Statuses
<1>5. CASE orders[o].status # None
  <2>1. /\ <<orders[o].status, row.to>> \in Edges /\ row.from = orders[o].status
        /\ orders'[o] = [status |-> row.to, version |-> orders[o].version + 1]
    BY <1>5 DEF Appends, TypeInv, TypeOK
  <2>2. /\ Len(H) = orders[o].version /\ Len(H) > 0
        /\ H[1].from = None /\ H[1].to = "CONFIRMED"
        /\ \A i \in 2..Len(H) : H[i].from = H[i-1].to /\ <<H[i].from, H[i].to>> \in Edges
        /\ H[Len(H)].to = orders[o].status
    BY <1>1, <1>5 DEF Tells, OrderRow
  <2>3. row.to # None
    BY LifecycleConstants DEF HistoryRow
  <2>4. G[1] = H[1]
    BY <1>1, <1>2, <2>2
  <2>5. ASSUME NEW i \in 2..Len(G)
        PROVE  G[i].from = G[i-1].to /\ <<G[i].from, G[i].to>> \in Edges
    <3>1. CASE i <= Len(H)
      <4>1. i \in 2..Len(H) /\ i \in 1..Len(H) /\ i-1 \in 1..Len(H)
        BY <1>1, <3>1
      <4>2. G[i] = H[i] /\ G[i-1] = H[i-1]
        BY <1>2, <4>1
      <4>3. QED
        BY <2>2, <4>1, <4>2
    <3>2. CASE i = Len(H) + 1
      <4>1. G[i] = row /\ G[i-1] = H[Len(H)]
        BY <1>1, <1>2, <2>2, <3>2
      <4>2. QED
        BY <2>1, <2>2, <4>1
    <3>3. QED
      BY <1>1, <1>2, <3>1, <3>2
  <2>6. G[Len(G)].to = row.to /\ Len(G) = orders[o].version + 1
    BY <1>1, <1>2, <2>2
  <2>7. QED
    BY <1>3, <2>1, <2>2, <2>3, <2>4, <2>5, <2>6 DEF Tells
<1>6. QED
  BY <1>4, <1>5

\* The history goes on telling the status.
LEMMA TellsStep ==
  ASSUME TypeInv, HistoryTellsStatus, [Next]_vars
  PROVE  HistoryTellsStatus'
<1>1. CASE UNCHANGED <<orders, history>>
  BY <1>1 DEF HistoryTellsStatus
<1>2. ASSUME NEW o \in Orders, NEW row \in HistoryRow, Appends(o, row)
      PROVE  HistoryTellsStatus'
  <2>1. \A x \in Orders : Tells(orders'[x], history'[x])
    <3>1. SUFFICES ASSUME NEW x \in Orders PROVE Tells(orders'[x], history'[x])
      OBVIOUS
    <3>2. CASE x = o
      BY <1>2, <3>2, TellsEach, AppendTells
    <3>3. CASE x # o
      <4>1. orders'[x] = orders[x] /\ history'[x] = history[x]
        BY <1>2, <3>3 DEF Appends, TypeInv, TypeOK
      <4>2. QED
        BY <4>1, TellsEach
    <3>4. QED
      BY <3>2, <3>3
  <2>2. QED
    BY <2>1 DEF HistoryTellsStatus, Tells
<1>3. QED
  BY <1>1, <1>2, Writes

(***************************************************************************)
(* Requests beside the orders they are about.                              *)
(***************************************************************************)

\* A step of another request, or of nobody's, leaves a request where it is.
Rests(g) == pc'[g] = pc[g] /\ req'[g] = req[g] /\ began'[g] = began[g]

\* So a request rests, goes on without writing, or moves its order.
LEMMA RequestSteps ==
  ASSUME TypeInv, [Next]_vars, NEW g \in Handlers
  PROVE  Rests(g) \/ Quiet(g) \/ Moves(g)
<1>1. ASSUME NEW h \in Handlers, Handle(h), h # g
      PROVE  Rests(g)
  <2>1. CASE Moves(h)
    BY <1>1, <2>1 DEF Moves, Goto, Rests, TypeInv, TypeOK
  <2>2. CASE Quiet(h)
    BY <1>1, <2>2 DEF Quiet, Goto, Rests, TypeInv, TypeOK
  <2>3. QED
    BY <1>1, <2>1, <2>2, RequestKinds
<1>2. ASSUME Handle(g) PROVE Quiet(g) \/ Moves(g)
  BY <1>2, RequestKinds
<1>3. CASE ~ \E h \in Handlers : Handle(h)
  BY <1>3 DEF Next, Place, CheckRating, CommitRating, Tick, vars, requests, Rests,
              TypeInv, TypeOK
<1>4. QED
  BY <1>1, <1>2, <1>3

\* Histories only grow, orders do not vanish and versions do not go back.
LEMMA Growth ==
  ASSUME TypeInv, HistoryTellsStatus, [Next]_vars, NEW o \in Orders
  PROVE  /\ Len(history[o]) <= Len(history'[o])
         /\ \A i \in 1..Len(history[o]) : history'[o][i] = history[o][i]
         /\ orders[o].status # None =>
              /\ orders'[o].status # None
              /\ orders[o].version <= orders'[o].version
<1>1. history[o] \in Seq(HistoryRow) /\ orders[o] \in OrderRow
  BY DEF TypeInv, TypeOK
<1>2. CASE UNCHANGED <<orders, history>>
  BY <1>1, <1>2 DEF OrderRow
<1>3. ASSUME NEW x \in Orders, NEW row \in HistoryRow, Appends(x, row), x = o
      PROVE  /\ Len(history[o]) <= Len(history'[o])
             /\ \A i \in 1..Len(history[o]) : history'[o][i] = history[o][i]
  <2>1. history'[o] = Append(history[o], row)
    BY <1>3 DEF Appends, TypeInv, TypeOK
  <2>2. QED
    BY <1>1, <1>3, <2>1, AppendKeeps
<1>4. ASSUME NEW x \in Orders, NEW row \in HistoryRow, Appends(x, row), x = o,
             orders[o].status # None
      PROVE  orders'[o].status # None /\ orders[o].version <= orders'[o].version
  <2>1. orders'[o] = [status |-> row.to, version |-> orders[o].version + 1]
    BY <1>4 DEF Appends, TypeInv, TypeOK
  <2>2. QED
    BY <1>1, <1>4, <2>1, LifecycleConstants DEF OrderRow, HistoryRow
<1>5. ASSUME NEW x \in Orders, NEW row \in HistoryRow, Appends(x, row), x # o
      PROVE  history'[o] = history[o] /\ orders'[o] = orders[o]
  BY <1>5 DEF Appends, TypeInv, TypeOK
<1>6. QED
  BY <1>1, <1>2, <1>3, <1>4, <1>5, Writes DEF OrderRow

\* A version that has been read has its row in the history.
LEMMA VersionsAreRows ==
  ASSUME TypeInv, HistoryTellsStatus, Read,
         NEW h \in Handlers, pc[h] \in {"write", "update"}
  PROVE  /\ req[h] \in Request /\ req[h].order \in Orders
         /\ req[h].version \in 1..Len(history[req[h].order])
         /\ Len(history[req[h].order]) = orders[req[h].order].version
<1>1. req[h] \in Request /\ req[h].order \in Orders
      /\ req[h].version \in Nat \ {0}
  BY DEF TypeInv, KnowsRequest, Request
<1>2. Len(history[req[h].order]) = orders[req[h].order].version
      /\ req[h].version <= orders[req[h].order].version
  BY <1>1 DEF HistoryTellsStatus, Read
<1>3. orders[req[h].order].version \in Nat
  BY <1>1 DEF TypeInv, TypeOK, OrderRow
<1>4. QED
  BY <1>1, <1>2, <1>3

\* What a request has read stays behind the order.
LEMMA ReadStep ==
  ASSUME TypeInv, HistoryTellsStatus, Read, [Next]_vars
  PROVE  Read'
<1>1. SUFFICES ASSUME NEW g \in Handlers, pc'[g] \in {"write", "update"}
               PROVE  /\ orders'[req'[g].order].status # None
                      /\ req'[g].version <= orders'[req'[g].order].version
  BY DEF Read
<1>2. CASE Rests(g)
  <2>1. pc[g] \in {"write", "update"} /\ req'[g] = req[g]
    BY <1>1, <1>2 DEF Rests
  <2>2. req[g].order \in Orders /\ req[g].version \in Nat
        /\ orders[req[g].order].version \in Nat
    BY <2>1 DEF TypeInv, TypeOK, KnowsRequest, Request, OrderRow
  <2>3. TypeInv'
    BY TypeStep
  <2>4. orders'[req[g].order].version \in Nat
    BY <2>2, <2>3 DEF TypeInv, TypeOK, OrderRow
  <2>5. QED
    BY <2>1, <2>2, <2>4, Growth DEF Read
<1>3. CASE Quiet(g)
  <2>1. /\ pc[g] \in {"read", "write"} /\ req' = req /\ orders' = orders
        /\ orders[req[g].order].version = req[g].version
        /\ pc[g] = "read" => Visible(req[g])
    BY <1>1, <1>3 DEF Quiet, Goto, tables, TypeInv, TypeOK
  <2>2. req[g].order \in Orders /\ orders[req[g].order].version \in Nat
    BY <2>1 DEF TypeInv, TypeOK, KnowsRequest, Request, OrderRow
  <2>3. QED
    BY <2>1, <2>2 DEF Read, Visible
<1>4. CASE Moves(g)
  BY <1>1, <1>4 DEF Moves, Goto, TypeInv, TypeOK
<1>5. QED
  BY <1>2, <1>3, <1>4, RequestSteps

(***************************************************************************)
(* Times.                                                                  *)
(***************************************************************************)

\* The row that is appended is stamped no later than now, and no earlier than
\* the rows before it.
LEMMA AppendedInTime ==
  ASSUME TypeInv, HistoryTellsStatus, Read, Timely, [Next]_vars
  PROVE  \/ UNCHANGED <<orders, history>>
         \/ \E o \in Orders, row \in HistoryRow :
              /\ Appends(o, row)
              /\ row.at <= now
              /\ \A i \in DOMAIN history[o] : history[o][i].at <= row.at
<1>1. ASSUME NEW h \in Handlers, Moves(h)
      PROVE  \E o \in Orders, row \in HistoryRow :
               /\ Appends(o, row)
               /\ row.at <= now
               /\ \A i \in DOMAIN history[o] : history[o][i].at <= row.at
  <2> DEFINE o == req[h].order
             row == Entry(orders[o].status, req[h].to, began[h])
  <2>1. o \in Orders /\ row \in HistoryRow /\ Appends(o, row) /\ row.at = began[h]
    BY <1>1, MoveAppends DEF Entry, HistoryRow, TypeInv, TypeOK, OrderRow
  <2>2. pc[h] = "update" /\ orders[o].version = req[h].version
    BY <1>1 DEF Moves
  <2>3. history[o] \in Seq(HistoryRow) /\ Len(history[o]) = req[h].version
    BY <2>1, <2>2, VersionsAreRows DEF TypeInv, TypeOK
  <2>4. \A i \in DOMAIN history[o] : i <= req[h].version
    BY <2>3
  <2>5. \A i \in DOMAIN history[o] : history[o][i].at <= began[h]
    BY <2>2, <2>4 DEF Timely
  <2>6. row.at <= now
    BY <2>1, <2>2 DEF Timely
  <2>7. QED
    BY <2>1, <2>5, <2>6
<1>2. ASSUME NEW o \in Orders, Place(o)
      PROVE  \E row \in HistoryRow :
               /\ Appends(o, row)
               /\ row.at <= now
               /\ \A i \in DOMAIN history[o] : history[o][i].at <= row.at
  <2> DEFINE row == Entry(None, "CONFIRMED", now)
  <2>1. row \in HistoryRow /\ Appends(o, row) /\ row.at = now /\ now \in Nat
    BY <1>2, PlaceAppends DEF Entry, HistoryRow, Statuses, TypeInv, TypeOK
  <2>2. history[o] = <<>>
    BY <1>2 DEF Place, HistoryTellsStatus
  <2>3. QED
    BY <2>1, <2>2
<1>3. QED
  BY <1>1, <1>2, RequestKinds
     DEF Next, Quiet, CheckRating, CommitRating, Tick, vars, tables

\* The clock does not go back.
LEMMA ClockStep ==
  ASSUME TypeInv, [Next]_vars
  PROVE  now \in Nat /\ now' \in Nat /\ now <= now'
<1>1. now \in Nat
  BY DEF TypeInv, TypeOK
<1>2. now' = now \/ now' = now + 1
  BY RequestKinds DEF Next, Quiet, Moves, Place, CheckRating, CommitRating, Tick, vars
<1>3. QED
  BY <1>1, <1>2

\* The times of rows are times.
LEMMA RowTimes ==
  ASSUME TypeInv, NEW o \in Orders, NEW i \in DOMAIN history[o]
  PROVE  history[o][i].at \in Nat
<1>1. history[o] \in Seq(HistoryRow)
  BY DEF TypeInv, TypeOK
<1>2. history[o][i] \in HistoryRow
  BY <1>1
<1>3. QED
  BY <1>2 DEF HistoryRow

\* Rows are in the order of their times and none is stamped with a time to come.
LEMMA TimeOfRows ==
  ASSUME TypeInv, HistoryTellsStatus, Read, Timely, HistoryInTimeOrder, [Next]_vars
  PROVE  /\ \A o \in Orders : \A i \in DOMAIN history'[o] : history'[o][i].at <= now'
         /\ HistoryInTimeOrder'
<1> USE DEF HistoryInTimeOrder
<1>1. now \in Nat /\ now' \in Nat /\ now <= now'
  BY ClockStep
<1>2. ASSUME NEW o \in Orders, history'[o] = history[o]
      PROVE  /\ \A i \in DOMAIN history'[o] : history'[o][i].at <= now'
             /\ \A i, j \in DOMAIN history'[o] :
                  i < j => history'[o][i].at <= history'[o][j].at
  <2>1. \A i \in DOMAIN history[o] : history[o][i].at \in Nat
    BY RowTimes
  <2>2. QED
    BY <1>1, <1>2, <2>1 DEF Timely
<1>3. ASSUME NEW o \in Orders, NEW row \in HistoryRow, Appends(o, row),
             row.at <= now,
             \A i \in DOMAIN history[o] : history[o][i].at <= row.at
      PROVE  /\ \A i \in DOMAIN history'[o] : history'[o][i].at <= now'
             /\ \A i, j \in DOMAIN history'[o] :
                  i < j => history'[o][i].at <= history'[o][j].at
  <2> DEFINE H == history[o]
             G == Append(H, row)
  <2>1. H \in Seq(HistoryRow) /\ history'[o] = G
    BY <1>3 DEF Appends, TypeInv, TypeOK
  <2>2. /\ G \in Seq(HistoryRow) /\ Len(G) = Len(H) + 1 /\ Len(H) \in Nat
        /\ \A i \in 1..Len(H) : G[i] = H[i]
        /\ G[Len(H) + 1] = row /\ row.at \in Nat
    BY <2>1, AppendKeeps DEF HistoryRow
  <2>3. DOMAIN H = 1..Len(H) /\ DOMAIN G = 1..(Len(H) + 1)
    BY <2>1, <2>2
  <2>4. \A i \in DOMAIN G : G[i].at <= row.at /\ G[i].at \in Nat
    BY <1>3, <2>2, <2>3, RowTimes
  <2>5. \A i \in DOMAIN G : G[i].at <= now'
    BY <1>1, <1>3, <2>2, <2>4
  <2>6. ASSUME NEW i \in DOMAIN G, NEW j \in DOMAIN G, i < j
        PROVE  G[i].at <= G[j].at
    <3>1. CASE j = Len(H) + 1
      BY <2>2, <2>4, <3>1
    <3>2. CASE j \in 1..Len(H)
      <4>1. i \in DOMAIN H /\ j \in DOMAIN H /\ G[i] = H[i] /\ G[j] = H[j]
        BY <2>2, <2>3, <2>6, <3>2
      <4>2. QED
        BY <2>6, <4>1
    <3>3. QED
      BY <2>2, <2>3, <3>1, <3>2
  <2>7. QED
    BY <2>1, <2>5, <2>6
<1>4. ASSUME NEW o \in Orders
      PROVE  /\ \A i \in DOMAIN history'[o] : history'[o][i].at <= now'
             /\ \A i, j \in DOMAIN history'[o] :
                  i < j => history'[o][i].at <= history'[o][j].at
  <2>1. CASE UNCHANGED <<orders, history>>
    BY <1>2, <2>1
  <2>2. CASE ~ UNCHANGED <<orders, history>>
    <3>1. PICK x \in Orders, row \in HistoryRow :
            /\ Appends(x, row)
            /\ row.at <= now
            /\ \A i \in DOMAIN history[x] : history[x][i].at <= row.at
      BY <2>2, AppendedInTime
    <3>2. CASE x = o
      BY <1>3, <3>1, <3>2
    <3>3. CASE x # o
      <4>1. history'[o] = history[o]
        BY <3>1, <3>3 DEF Appends, TypeInv, TypeOK
      <4>2. QED
        BY <1>2, <4>1
    <3>4. QED
      BY <3>2, <3>3
  <2>3. QED
    BY <2>1, <2>2
<1>5. QED
  BY <1>4

\* An update that has started stays younger than the rows up to its version.
LEMMA TimelyStep ==
  ASSUME TypeInv, HistoryTellsStatus, Read, Timely, HistoryInTimeOrder, [Next]_vars
  PROVE  Timely'
<1>1. SUFFICES ASSUME NEW g \in Handlers, pc'[g] = "update"
               PROVE  /\ began'[g] <= now'
                      /\ \A i \in DOMAIN history'[req'[g].order] :
                           i <= req'[g].version =>
                             history'[req'[g].order][i].at <= began'[g]
  BY TimeOfRows DEF Timely
<1>2. now \in Nat /\ now' \in Nat /\ now <= now'
  BY ClockStep
<1>3. CASE Rests(g)
  <2> DEFINE o == req[g].order
  <2>1. pc[g] = "update" /\ req'[g] = req[g] /\ began'[g] = began[g] /\ began[g] \in Nat
    BY <1>1, <1>3 DEF Rests, TypeInv, TypeOK
  <2>2. o \in Orders /\ req[g].version \in 1..Len(history[o])
        /\ history[o] \in Seq(HistoryRow)
    BY <2>1, VersionsAreRows DEF TypeInv, TypeOK
  <2>3. history'[o] \in Seq(HistoryRow)
    BY <2>2, TypeStep DEF TypeInv, TypeOK
  <2>4. ASSUME NEW i \in DOMAIN history'[o], i <= req[g].version
        PROVE  history'[o][i].at <= began[g]
    <3>1. i \in 1..Len(history[o]) /\ i \in DOMAIN history[o]
      BY <2>2, <2>3, <2>4
    <3>2. history'[o][i] = history[o][i]
      BY <2>2, <3>1, Growth
    <3>3. QED
      BY <2>1, <2>4, <3>1, <3>2 DEF Timely
  <2>5. began[g] <= now
    BY <2>1 DEF Timely
  <2>6. QED
    BY <1>2, <2>1, <2>4, <2>5
<1>4. CASE Quiet(g)
  <2>1. /\ history' = history /\ began'[g] = now /\ now' = now /\ pc[g] = "write"
        /\ req' = req
    BY <1>1, <1>4 DEF Quiet, Goto, tables, TypeInv, TypeOK
  <2>2. req[g].order \in Orders
    BY <2>1 DEF TypeInv, KnowsRequest, Request
  <2>3. QED
    BY <1>2, <2>1, <2>2 DEF Timely
<1>5. CASE Moves(g)
  BY <1>1, <1>5 DEF Moves, Goto, TypeInv, TypeOK
<1>6. QED
  BY <1>3, <1>4, <1>5, RequestSteps

(***************************************************************************)
(* Answers and ratings.                                                    *)
(***************************************************************************)

\* What a request that was told "ok" has made of the order.
Made(q, H) == /\ q.version <= Len(H)
              /\ \/ H[q.version].to = q.to
                 \/ q.version + 1 <= Len(H) /\ H[q.version + 1].to = q.to

\* It stays made while the history grows.
LEMMA MadeStays ==
  ASSUME TypeInv, HistoryTellsStatus, [Next]_vars,
         NEW q \in Request, Made(q, history[q.order])
  PROVE  Made(q, history'[q.order])
<1> DEFINE H == history[q.order]
           G == history'[q.order]
<1>1. q.order \in Orders /\ q.version \in Nat \ {0}
  BY DEF Request
<1>2. H \in Seq(HistoryRow) /\ G \in Seq(HistoryRow)
  BY <1>1, TypeStep DEF TypeInv, TypeOK
<1>3. Len(H) \in Nat /\ Len(G) \in Nat /\ Len(H) <= Len(G)
      /\ \A i \in 1..Len(H) : G[i] = H[i]
  BY <1>1, <1>2, Growth
<1>4. G[q.version] = H[q.version]
  BY <1>1, <1>3 DEF Made
<1>5. q.version + 1 <= Len(H) => G[q.version + 1] = H[q.version + 1]
  BY <1>1, <1>3
<1>6. QED
  BY <1>1, <1>3, <1>4, <1>5 DEF Made

\* "ok" goes on meaning that the move was made.
LEMMA OkStep ==
  ASSUME TypeInv, HistoryTellsStatus, Read, OkMeansMoved, [Next]_vars
  PROVE  OkMeansMoved'
<1>1. SUFFICES ASSUME NEW g \in Handlers, pc'[g] = "ok"
               PROVE  Made(req'[g], history'[req'[g].order])
  BY DEF OkMeansMoved, Made
<1>2. CASE Rests(g)
  <2>1. pc[g] = "ok" /\ req'[g] = req[g] /\ req[g] \in Request
    BY <1>1, <1>2 DEF Rests, TypeInv, KnowsRequest
  <2>2. Made(req[g], history[req[g].order])
    BY <2>1 DEF OkMeansMoved, Made
  <2>3. QED
    BY <2>1, <2>2, MadeStays
<1>3. CASE Quiet(g)
  <2>1. /\ pc[g] = "update" /\ req' = req /\ history' = history
        /\ orders[req[g].order].version = req[g].version
        /\ orders[req[g].order].status = req[g].to
    BY <1>1, <1>3 DEF Quiet, Goto, tables, TypeInv, TypeOK
  <2>2. /\ req[g].order \in Orders
        /\ req[g].version \in 1..Len(history[req[g].order])
        /\ Len(history[req[g].order]) = req[g].version
    BY <2>1, VersionsAreRows
  <2>3. history[req[g].order][req[g].version].to = req[g].to
    BY <2>1, <2>2 DEF HistoryTellsStatus, Read
  <2>4. QED
    BY <2>1, <2>2, <2>3 DEF Made
<1>4. CASE Moves(g)
  <2> DEFINE o == req[g].order
             row == Entry(orders[o].status, req[g].to, began[g])
  <2>1. /\ pc[g] = "update" /\ req' = req /\ orders[o].version = req[g].version
        /\ o \in Orders /\ row \in HistoryRow /\ row.to = req[g].to /\ Appends(o, row)
    BY <1>4, MoveAppends DEF Moves, Entry, HistoryRow, TypeInv, TypeOK, OrderRow
  <2>2. history[o] \in Seq(HistoryRow) /\ Len(history[o]) = req[g].version
    BY <2>1, VersionsAreRows DEF TypeInv, TypeOK
  <2>3. history'[o] = Append(history[o], row)
    BY <2>1 DEF Appends, TypeInv, TypeOK
  <2>4. /\ Len(history'[o]) = req[g].version + 1 /\ req[g].version \in Nat
        /\ history'[o][req[g].version + 1] = row
    BY <2>1, <2>2, <2>3, AppendKeeps
  <2>5. QED
    BY <2>1, <2>4 DEF Made
<1>5. QED
  BY <1>2, <1>3, <1>4, RequestSteps

\* A completed order stays as it is.
LEMMA CompletedIsFinal ==
  ASSUME TypeInv, [Next]_vars, NEW o \in Orders, orders[o].status = "COMPLETED"
  PROVE  orders'[o] = orders[o]
<1>1. ASSUME NEW x \in Orders, NEW row \in HistoryRow, Appends(x, row)
      PROVE  orders'[o] = orders[o]
  <2>1. CASE x = o
    BY <1>1, <2>1, LifecycleConstants DEF Appends, Edges, Statuses
  <2>2. CASE x # o
    BY <1>1, <2>2 DEF Appends, TypeInv, TypeOK
  <2>3. QED
    BY <2>1, <2>2
<1>2. QED
  BY <1>1, Writes

\* Ratings are checked against completed orders and stay so.
LEMMA RatedStep ==
  ASSUME TypeInv, Rated, [Next]_vars
  PROVE  Rated'
<1>1. /\ ratings \subseteq Orders \X People /\ rating \subseteq Orders \X People
  BY DEF TypeInv, TypeOK
<1>2. \A r \in ratings \union rating :
        orders'[r[1]].status = "COMPLETED" /\ r[2] \in Parties[r[1]]
  BY <1>1, CompletedIsFinal DEF Rated
<1>3. ASSUME NEW r \in (ratings \union rating)', r \notin ratings \union rating
      PROVE  orders'[r[1]].status = "COMPLETED" /\ r[2] \in Parties[r[1]]
  <2>1. PICK o \in Orders, p \in People : CheckRating(o, p) /\ r = <<o, p>>
    BY <1>3, RequestKinds
       DEF Next, Quiet, Moves, Place, CheckRating, CommitRating, Tick, vars, tables
  <2>2. orders' = orders /\ orders[o].status = "COMPLETED" /\ p \in Parties[o]
    BY <2>1 DEF CheckRating, tables
  <2>3. QED
    BY <2>1, <2>2
<1>4. QED
  BY <1>2, <1>3 DEF Rated

(***************************************************************************)
(* The inductive invariant and what follows from it.                       *)
(***************************************************************************)

\* The inductive invariant holds at first.
LEMMA IInvInit == Init => IInv
<1> SUFFICES ASSUME Init PROVE IInv
  OBVIOUS
<1>1. /\ \A o \in Orders : orders[o].status = None /\ history[o] = <<>>
      /\ \A h \in Handlers : pc[h] = "idle"
      /\ ratings = {} /\ rating = {}
  BY DEF Init
<1>2. HistoryTellsStatus /\ Read /\ Rated /\ OkMeansMoved
  BY <1>1 DEF HistoryTellsStatus, Read, Rated, OkMeansMoved
<1>3. Timely /\ HistoryInTimeOrder
  BY <1>1 DEF Timely, HistoryInTimeOrder
<1>4. QED
  BY <1>2, <1>3, TypeInit DEF IInv

\* Every step preserves it.
LEMMA IInvStep == IInv /\ [Next]_vars => IInv'
BY TypeStep, TellsStep, ReadStep, TimelyStep, TimeOfRows, OkStep, RatedStep DEF IInv

\* The inductive invariant always holds.
LEMMA Invariance == Spec => []IInv
BY IInvInit, IInvStep, PTL DEF Spec

\* The history of an order is the whole story of its status, one legal move per
\* version, under any number of concurrent requests.
THEOREM HistoryIsTheStory == Spec => []HistoryTellsStatus
BY Invariance, PTL DEF IInv

\* Ordering the history by changed_at, as the endpoint does, does not disturb
\* the order of the moves.
THEOREM TimesAreInOrder == Spec => []HistoryInTimeOrder
BY Invariance, PTL DEF IInv

\* A requester that is told "ok" has made the move it asked for out of the
\* version it had seen.
THEOREM AnswersAreTrue == Spec => []OkMeansMoved
BY Invariance, PTL DEF IInv

\* Rated orders are completed and stay completed.
THEOREM RatingsAreOfCompletedOrders == Spec => []RatedOrdersAreCompleted
<1>1. IInv => RatedOrdersAreCompleted
  BY DEF IInv, Rated, RatedOrdersAreCompleted
<1>2. QED
  BY <1>1, Invariance, PTL

(***************************************************************************)
(* The refinement.                                                         *)
(***************************************************************************)

Status   == [o \in Orders |-> orders[o].status]
Steps(H) == [i \in 1..Len(H) |-> H[i].to]
Log      == [o \in Orders |-> Steps(history[o])]

\* Appending a row appends its status.
LEMMA StepsOfAppend ==
  ASSUME NEW H \in Seq(HistoryRow), NEW row \in HistoryRow
  PROVE  Steps(Append(H, row)) = Append(Steps(H), row.to)
<1> DEFINE G == Append(H, row)
<1>1. Len(H) \in Nat /\ Len(G) = Len(H) + 1
  OBVIOUS
<1>2. /\ Steps(H) \in Seq({H[i].to : i \in 1..Len(H)} \union {row.to})
      /\ Len(Steps(H)) = Len(H)
  BY <1>1 DEF Steps
<1>3. \A i \in 1..Len(G) : Steps(G)[i] = Append(Steps(H), row.to)[i]
  <2>1. SUFFICES ASSUME NEW i \in 1..Len(G)
                 PROVE  G[i].to = Append(Steps(H), row.to)[i]
    BY DEF Steps
  <2>2. CASE i \in 1..Len(H)
    <3>1. G[i] = H[i]
      BY <2>2, AppendKeeps
    <3>2. Append(Steps(H), row.to)[i] = Steps(H)[i]
      BY <1>1, <1>2, <2>2
    <3>3. Steps(H)[i] = H[i].to
      BY <2>2 DEF Steps
    <3>4. QED
      BY <3>1, <3>2, <3>3
  <2>3. CASE i = Len(H) + 1
    <3>1. G[i] = row
      BY <2>3, AppendKeeps
    <3>2. Append(Steps(H), row.to)[Len(Steps(H)) + 1] = row.to
      BY <1>2
    <3>3. QED
      BY <1>2, <2>3, <3>1, <3>2
  <2>4. i \in 1..(Len(H) + 1)
    BY <1>1
  <2>5. i \in 1..Len(H) \/ i = Len(H) + 1
    BY <1>1, <2>4
  <2>6. QED
    BY <2>2, <2>3, <2>5
<1>4. QED
  BY <1>1, <1>2, <1>3 DEF Steps

\* No order, no status, no log.
LEMMA LedgerInit == Init => Ledger!Init
<1> SUFFICES ASSUME Init PROVE Status = [o \in Orders |-> None] /\ Log = [o \in Orders |-> <<>>]
  BY DEF Ledger!Init, Status, Log, Steps
<1>1. \A o \in Orders : orders[o].status = None /\ history[o] = <<>>
  BY DEF Init
<1>2. Steps(<<>>) = <<>>
  <2>1. Steps(<<>>) \in Seq(Statuses) /\ Len(Steps(<<>>)) = 0
    BY DEF Steps
  <2>2. QED
    BY <2>1
<1>3. QED
  BY <1>1, <1>2 DEF Status, Log

\* Appending a row is a step of the abstract log.
LEMMA AppendIsRecord ==
  ASSUME TypeInv, NEW o \in Orders, NEW row \in HistoryRow, Appends(o, row)
  PROVE  /\ Status' = [Status EXCEPT ![o] = row.to]
         /\ Log' = [Log EXCEPT ![o] = Append(Log[o], row.to)]
<1>1. history[o] \in Seq(HistoryRow)
  BY DEF TypeInv, TypeOK
<1>2. orders'[o].status = row.to
  BY DEF Appends, Entry, TypeInv, TypeOK
<1>3. \A x \in Orders : x # o => orders'[x] = orders[x] /\ history'[x] = history[x]
  BY DEF Appends, TypeInv, TypeOK
<1>4. history'[o] = Append(history[o], row)
  BY DEF Appends, TypeInv, TypeOK
<1>5. Steps(history'[o]) = Append(Steps(history[o]), row.to)
  BY <1>1, <1>4, StepsOfAppend
<1>6. QED
  BY <1>2, <1>3, <1>5 DEF Status, Log

\* Every step of the lifecycle is a step of the abstract log or a stutter.
LEMMA LedgerStep == TypeInv /\ [Next]_vars => [Ledger!Next]_(Ledger!logVars)
<1> SUFFICES ASSUME TypeInv, [Next]_vars PROVE Ledger!Next \/ UNCHANGED Ledger!logVars
  OBVIOUS
<1>1. CASE UNCHANGED <<orders, history>>
  BY <1>1 DEF Ledger!logVars
<1>2. ASSUME NEW o \in Orders, NEW row \in HistoryRow, Appends(o, row)
      PROVE  Ledger!Next
  <2>1. /\ Status' = [Status EXCEPT ![o] = row.to]
        /\ Log' = [Log EXCEPT ![o] = Append(Log[o], row.to)]
        /\ Status[o] = orders[o].status
    BY <1>2, AppendIsRecord DEF Status
  <2>2. Ledger!Record(o, row.to)
    BY <2>1 DEF Ledger!Record, Status, Log, Steps
  <2>3. CASE orders[o].status = None /\ row.to = "CONFIRMED"
    <3>1. Ledger!Enter(o)
      BY <2>1, <2>2, <2>3 DEF Ledger!Enter, Status
    <3>2. QED
      BY <3>1 DEF Ledger!Next
  <2>4. CASE <<orders[o].status, row.to>> \in Edges
    <3>1. PICK e \in Edges : e = <<orders[o].status, row.to>>
      BY <2>4
    <3>2. Status[o] = e[1] /\ row.to = e[2]
      BY <2>1, <3>1
    <3>3. Ledger!Record(o, e[2])
      BY <2>2, <3>2
    <3>4. Ledger!Move(o)
      BY <3>2, <3>3 DEF Ledger!Move, Status
    <3>5. QED
      BY <3>4 DEF Ledger!Next
  <2>5. QED
    BY <1>2, <2>3, <2>4 DEF Appends, Entry
<1>3. QED
  BY <1>1, <1>2, Writes

\* The lifecycle implements the log it is supposed to keep: every change of
\* status goes along an edge and is appended in the same step.
THEOREM LifecycleKeepsTheLog == Spec => ImplementsStatusLog
<1>1. Spec => []TypeInv
  BY TypeInit, TypeStep, PTL DEF Spec
<1>2. QED
  BY <1>1, LedgerInit, LedgerStep, PTL DEF Spec, ImplementsStatusLog, Ledger!Spec
=============================================================================
