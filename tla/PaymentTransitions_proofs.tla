---------------------- MODULE PaymentTransitions_proofs ----------------------
(***************************************************************************)
(* Proofs about PaymentTransitions, for any payments, requests and clock.  *)
(*                                                                         *)
(* The inductive invariant IInv says who holds a payment's lock and what   *)
(* its holder knows: the status is still the one it expects.  That makes   *)
(* the trail unbroken.  That no row of it repeats is a matter of the edges *)
(* alone: they lead upwards, and a trail climbs.                           *)
(***************************************************************************)
EXTENDS PaymentTransitions, TLAPS

\* A request that has begun is a request.
KnowsRequest == \A h \in Handlers : pc[h] # "idle" => req[h] \in Request

TypeInv == TypeOK /\ KnowsRequest

\* A payment's lock is held by the request that is about to update it.
LocksHeld == \A h \in Handlers, p \in Payments :
               rowLock[p] = h <=> pc[h] = "update" /\ p = Payment(h)

\* Its holder has found the status it expects, and may rely on it.
Checked == \A h \in Handlers : pc[h] = "update" => Expected(h) /\ Allowed(h)

\* What AuditTellsStatus says of one payment, and that a payment which has
\* moved has a trail.
Tells(row, A) ==
  /\ row.status \in {None, "PENDING"} <=> A = <<>>
  /\ A # <<>> => A[1].from = "PENDING" /\ A[Len(A)].to = row.status
  /\ \A i \in 2..Len(A) : A[i].from = A[i-1].to
  /\ row.paidAt # None <=> row.status \in {"PAID", "REFUNDED"}

AuditTells == \A p \in Payments : Tells(payments[p], audit[p])

\* How far a payment has come.
Rank == [s \in Statuses |-> IF s = "PENDING" THEN 0
                            ELSE IF s = "PROCESSING" THEN 1
                            ELSE IF s = "PAID" THEN 2 ELSE 3]

\* A trail climbs, up to the present status.
Climbs(A, status) ==
  /\ \A i \in DOMAIN A : Rank[A[i].from] < Rank[A[i].to]
  /\ \A i, j \in DOMAIN A : i < j => Rank[A[i].to] <= Rank[A[j].from]
  /\ \A i \in DOMAIN A : Rank[A[i].to] <= Rank[status]

TrailsClimb == \A p \in Payments : Climbs(audit[p], payments[p].status)

\* A request that was told "ok" has its row in the trail.
OkAudited == \A h \in Handlers : pc[h] = "ok" =>
  \E i \in DOMAIN audit[Payment(h)] :
    /\ audit[Payment(h)][i].from = req[h].expected
    /\ audit[Payment(h)][i].to = req[h].to

OkOnce == \A g, h \in Handlers :
  pc[g] = "ok" /\ pc[h] = "ok" /\ req[g] = req[h] => g = h

IInv == TypeInv /\ LocksHeld /\ Checked /\ AuditTells /\ TrailsClimb /\ OkAudited /\ OkOnce

(***************************************************************************)
(* The kinds of step.                                                      *)
(***************************************************************************)

\* A service's update takes effect.
Moves(h) ==
  /\ pc[h] = "update"
  /\ Release(h)
  /\ payments' = [payments EXCEPT ![Payment(h)] =
                    MovedPayment(payments[Payment(h)], req[h].to, began[h])]
  /\ audit' = Audited(Payment(h), req[h].expected, req[h].to)
  /\ \E answer \in {"ok", "refused"} : Goto(h, answer)
  /\ UNCHANGED <<now, req, began>>

\* The request takes the lock.
Takes(h) ==
  /\ pc[h] = "lock"
  /\ rowLock[Payment(h)] = None
  /\ Expected(h) /\ Allowed(h)
  /\ rowLock' = [rowLock EXCEPT ![Payment(h)] = h]
  /\ Goto(h, "update")
  /\ UNCHANGED <<rows, now, req, began>>

\* Any other step of a request writes nothing and takes nothing.
Quiet(h) ==
  /\ UNCHANGED <<rows, now>>
  /\ \E place \in Places \ {"idle", "update", "ok"} : Goto(h, place)
  /\ \/ Release(h)
     \/ pc[h] # "update" /\ UNCHANGED rowLock
  /\ \/ pc[h] # "idle" /\ UNCHANGED req
     \/ \E q \in Asked : req' = [req EXCEPT ![h] = q]
  /\ began' \in {began, [began EXCEPT ![h] = now]}

\* Every step of a request is of one of these kinds.
LEMMA RequestKinds ==
  ASSUME NEW h \in Handlers, Handle(h)
  PROVE  Moves(h) \/ Takes(h) \/ Quiet(h)
<1>1. CASE Ask(h)
  <2>1. PICK q \in Asked : /\ req' = [req EXCEPT ![h] = q]
                           /\ Goto(h, IF q.via = "endpoint" THEN "mode" ELSE "call")
    BY <1>1 DEF Ask
  <2>2. \E place \in Places \ {"idle", "update", "ok"} : Goto(h, place)
    BY <2>1 DEF Places, Running
  <2>3. QED
    BY <1>1, <2>1, <2>2 DEF Ask, Quiet, Running
<1>2. CASE ReadMode(h)
  BY <1>2 DEF ReadMode, Quiet, At, Places, Running
<1>3. CASE Call(h)
  BY <1>3 DEF Call, Quiet, At, Places, Running
<1>4. CASE Lock(h)
  <2>1. pc[h] = "lock" /\ UNCHANGED <<rows, now, req, began>>
    BY <1>4 DEF Lock, At
  <2>2. CASE Takes(h)
    BY <2>2
  <2>3. CASE UNCHANGED rowLock /\ (Goto(h, "conflict") \/ Goto(h, "refused"))
    BY <2>1, <2>3 DEF Quiet, Places
  <2>4. \/ /\ Expected(h) /\ Allowed(h)
           /\ rowLock' = [rowLock EXCEPT ![Payment(h)] = h]
           /\ Goto(h, "update")
        \/ UNCHANGED rowLock /\ Goto(h, "conflict")
        \/ UNCHANGED rowLock /\ Goto(h, "refused")
    BY <1>4, Zenon DEF Lock
  <2>5. rowLock[Payment(h)] = None
    BY <1>4, Zenon DEF Lock
  <2>6. QED
    BY <2>1, <2>2, <2>3, <2>4, <2>5, Zenon DEF Takes
<1>5. CASE Update(h)
  <2>1. pc[h] = "update" /\ Release(h) /\ UNCHANGED <<now, req, began>>
    BY <1>5 DEF Update, At
  <2>2. CASE Goto(h, "conflict") /\ UNCHANGED rows
    BY <2>1, <2>2 DEF Quiet, Places
  <2>3. CASE Moves(h)
    BY <2>3
  <2>4. QED
    BY <1>5, <2>1, <2>2, <2>3 DEF Update, Moves
<1>6. CASE Fail(h)
  BY <1>6 DEF Fail, Quiet, Places, Running
<1>7. QED
  BY <1>1, <1>2, <1>3, <1>4, <1>5, <1>6 DEF Handle

\* What is known of the request of a move.
LEMMA MovedRequest ==
  ASSUME TypeInv, Checked, NEW h \in Handlers, pc[h] = "update"
  PROVE  /\ req[h] \in Request /\ Payment(h) \in Payments
         /\ req[h].expected \in Statuses /\ req[h].to \in Statuses
         /\ payments[Payment(h)] \in PaymentRow
         /\ payments[Payment(h)].status = req[h].expected
         /\ <<req[h].expected, req[h].to>> \in Edges
         /\ began[h] \in Nat
         /\ audit[Payment(h)] \in Seq(AuditRow)
<1>1. req[h] \in Request
  BY DEF TypeInv, KnowsRequest
<1>2. QED
  BY <1>1 DEF Request, Payment, TypeInv, TypeOK, Checked, Expected, Allowed

(***************************************************************************)
(* Type correctness and locks.                                             *)
(***************************************************************************)

\* The rows start out with their types, and nobody holds a lock.
LEMMA TypeInit == Init => TypeInv /\ LocksHeld /\ Checked
BY PaymentConstants
   DEF Init, TypeInv, TypeOK, KnowsRequest, PaymentRow, AuditRow, Places, LocksHeld, Checked

\* Releasing a request's locks keeps the others'.
LEMMA Released ==
  ASSUME TypeInv, NEW h \in Handlers, Release(h)
  PROVE  /\ rowLock' \in [Payments -> Handlers \union {None}]
         /\ \A p \in Payments, g \in Handlers :
              rowLock'[p] = g <=> rowLock[p] = g /\ g # h
<1>1. None \notin Handlers
  BY PaymentConstants
<1>2. QED
  BY <1>1 DEF Release, TypeInv, TypeOK

\* Every kind of step preserves the types.
LEMMA TypeStep ==
  ASSUME TypeInv, Checked, [Next]_vars
  PROVE  TypeInv'
<1>1. ASSUME NEW h \in Handlers, Moves(h) PROVE TypeInv'
  <2>1. /\ Payment(h) \in Payments
        /\ MovedPayment(payments[Payment(h)], req[h].to, began[h]) \in PaymentRow
    BY <1>1, MovedRequest DEF Moves, MovedPayment, PaymentRow
  <2>2. payments' \in [Payments -> PaymentRow]
    BY <1>1, <2>1 DEF Moves, TypeInv, TypeOK
  <2>3. audit' \in [Payments -> Seq(AuditRow)]
    <3>1. [from |-> req[h].expected, to |-> req[h].to] \in AuditRow
      BY <1>1, MovedRequest DEF Moves, AuditRow
    <3>2. audit[Payment(h)] \in Seq(AuditRow)
      BY <1>1, MovedRequest DEF Moves
    <3>3. Append(audit[Payment(h)], [from |-> req[h].expected, to |-> req[h].to])
            \in Seq(AuditRow)
      BY <3>1, <3>2
    <3>4. QED
      BY <1>1, <3>3 DEF Moves, Audited, TypeInv, TypeOK
  <2>4. rowLock' \in [Payments -> Handlers \union {None}]
    BY <1>1, Released DEF Moves
  <2>5. /\ pc' \in [Handlers -> Places] /\ KnowsRequest'
        /\ UNCHANGED <<now, req, began>>
    BY <1>1 DEF Moves, Goto, Places, TypeInv, TypeOK, KnowsRequest
  <2>6. QED
    BY <2>2, <2>3, <2>4, <2>5 DEF TypeInv, TypeOK
<1>2. ASSUME NEW h \in Handlers, Takes(h) PROVE TypeInv'
  BY <1>2 DEF Takes, Goto, Places, Running, rows, TypeInv, TypeOK, KnowsRequest
<1>3. ASSUME NEW h \in Handlers, Quiet(h) PROVE TypeInv'
  <2>1. rowLock' \in [Payments -> Handlers \union {None}]
    BY <1>3, Released DEF Quiet, TypeInv, TypeOK
  <2>2. pc' \in [Handlers -> Places] /\ began' \in [Handlers -> Nat]
    BY <1>3 DEF Quiet, Goto, TypeInv, TypeOK
  <2>3. req' \in [Handlers -> Request \union {None}] /\ KnowsRequest'
    BY <1>3, PaymentConstants DEF Quiet, Goto, TypeInv, TypeOK, KnowsRequest
  <2>4. QED
    BY <1>3, <2>1, <2>2, <2>3 DEF Quiet, rows, TypeInv, TypeOK
<1>4. ASSUME NEW p \in Payments, CreatePayment(p) PROVE TypeInv'
  <2>1. [status |-> "PENDING", paidAt |-> None] \in PaymentRow
    BY DEF PaymentRow, Statuses
  <2>2. QED
    BY <1>4, <2>1 DEF CreatePayment, requests, TypeInv, TypeOK, KnowsRequest
<1>5. CASE Tick
  BY <1>5 DEF Tick, rows, requests, TypeInv, TypeOK, KnowsRequest
<1>6. CASE UNCHANGED vars
  BY <1>6 DEF vars, rows, requests, TypeInv, TypeOK, KnowsRequest
<1>7. QED
  BY <1>1, <1>2, <1>3, <1>4, <1>5, <1>6, RequestKinds DEF Next

\* Locks are held by those who update, and by nobody else.
LEMMA LocksStep ==
  ASSUME TypeInv, LocksHeld, Checked, [Next]_vars
  PROVE  LocksHeld'
<1> SUFFICES ASSUME NEW g \in Handlers, NEW p \in Payments
             PROVE  (rowLock[p] = g <=> pc[g] = "update" /\ p = Payment(g))'
  BY DEF LocksHeld
<1>0. None \notin Handlers
  BY PaymentConstants
<1>1. ASSUME NEW h \in Handlers, Moves(h)
      PROVE  (rowLock[p] = g <=> pc[g] = "update" /\ p = Payment(g))'
  <2>1. rowLock'[p] = g <=> rowLock[p] = g /\ g # h
    BY <1>1, Released DEF Moves
  <2>2. pc'[g] = "update" <=> pc[g] = "update" /\ g # h
    BY <1>1 DEF Moves, Goto, TypeInv, TypeOK
  <2>3. QED
    BY <1>1, <2>1, <2>2 DEF Moves, LocksHeld, Payment
<1>2. ASSUME NEW h \in Handlers, Takes(h)
      PROVE  (rowLock[p] = g <=> pc[g] = "update" /\ p = Payment(g))'
  BY <1>0, <1>2 DEF Takes, Goto, LocksHeld, Payment, TypeInv, TypeOK
<1>3. ASSUME NEW h \in Handlers, Quiet(h)
      PROVE  (rowLock[p] = g <=> pc[g] = "update" /\ p = Payment(g))'
  <2>1. rowLock'[p] = g <=> rowLock[p] = g /\ g # h
    BY <1>3, Released DEF Quiet, LocksHeld
  <2>2. pc'[g] = "update" <=> pc[g] = "update" /\ g # h
    BY <1>3 DEF Quiet, Goto, TypeInv, TypeOK
  <2>3. g # h => req'[g] = req[g]
    BY <1>3 DEF Quiet, TypeInv, TypeOK
  <2>4. QED
    BY <2>1, <2>2, <2>3 DEF LocksHeld, Payment
<1>4. CASE (\E q \in Payments : CreatePayment(q)) \/ Tick \/ UNCHANGED vars
  BY <1>4 DEF CreatePayment, Tick, vars, requests, LocksHeld, Payment
<1>5. QED
  BY <1>1, <1>2, <1>3, <1>4, RequestKinds DEF Next

\* Nobody writes a payment whose lock another one holds.
LEMMA CheckedStep ==
  ASSUME TypeInv, LocksHeld, Checked, [Next]_vars
  PROVE  Checked'
<1> SUFFICES ASSUME NEW g \in Handlers, pc'[g] = "update"
             PROVE  (Expected(g) /\ Allowed(g))'
  BY DEF Checked
<1>1. ASSUME NEW h \in Handlers, Moves(h) PROVE (Expected(g) /\ Allowed(g))'
  <2>1. g # h /\ pc[g] = "update"
    BY <1>1 DEF Moves, Goto, TypeInv, TypeOK
  <2>2. Payment(g) # Payment(h)
    <3>1. Payment(g) \in Payments /\ Payment(h) \in Payments
      BY <1>1, <2>1, MovedRequest DEF Moves
    <3>2. rowLock[Payment(g)] = g /\ rowLock[Payment(h)] = h
      BY <1>1, <2>1, <3>1 DEF Moves, LocksHeld
    <3>3. QED
      BY <2>1, <3>2
  <2>3. payments'[Payment(g)] = payments[Payment(g)]
    BY <1>1, <2>1, <2>2, MovedRequest DEF Moves, TypeInv, TypeOK
  <2>4. QED
    BY <1>1, <2>1, <2>3 DEF Moves, Checked, Expected, Allowed, Payment
<1>2. ASSUME NEW h \in Handlers, Takes(h) PROVE (Expected(g) /\ Allowed(g))'
  BY <1>2 DEF Takes, Goto, rows, Checked, Expected, Allowed, Payment, TypeInv, TypeOK
<1>3. ASSUME NEW h \in Handlers, Quiet(h) PROVE (Expected(g) /\ Allowed(g))'
  <2>1. g # h /\ pc[g] = "update"
    BY <1>3 DEF Quiet, Goto, TypeInv, TypeOK
  <2>2. req'[g] = req[g]
    BY <1>3, <2>1 DEF Quiet, TypeInv, TypeOK
  <2>3. QED
    BY <1>3, <2>1, <2>2 DEF Quiet, rows, Checked, Expected, Allowed, Payment
<1>4. ASSUME NEW q \in Payments, CreatePayment(q) PROVE (Expected(g) /\ Allowed(g))'
  <2>1. pc[g] = "update" /\ UNCHANGED requests
    BY <1>4 DEF CreatePayment, requests
  <2>2. payments[Payment(g)].status # None
    BY <2>1, MovedRequest, PaymentConstants
  <2>3. payments'[Payment(g)] = payments[Payment(g)]
    BY <1>4, <2>1, <2>2, MovedRequest DEF CreatePayment, TypeInv, TypeOK
  <2>4. QED
    BY <2>1, <2>3 DEF requests, Checked, Expected, Allowed, Payment
<1>5. CASE Tick \/ UNCHANGED vars
  BY <1>5 DEF Tick, vars, rows, requests, Checked, Expected, Allowed, Payment
<1>6. QED
  BY <1>1, <1>2, <1>3, <1>4, <1>5, RequestKinds DEF Next

(***************************************************************************)
(* The trail.                                                              *)
(***************************************************************************)

\* What any step does to the rows: a payment is created, or one moves along an
\* edge out of its present status and its trail is extended, or nothing.
Extends(p, to, at) ==
  /\ <<payments[p].status, to>> \in Edges
  /\ payments' = [payments EXCEPT ![p] = MovedPayment(payments[p], to, at)]
  /\ audit' = Audited(p, payments[p].status, to)

\* A move extends the trail of its payment.
LEMMA MoveExtends ==
  ASSUME TypeInv, Checked, NEW h \in Handlers, Moves(h)
  PROVE  Extends(Payment(h), req[h].to, began[h])
<1>1. pc[h] = "update"
  BY DEF Moves
<1>2. /\ payments[Payment(h)].status = req[h].expected
      /\ <<req[h].expected, req[h].to>> \in Edges
  BY <1>1, MovedRequest
<1>3. QED
  BY <1>2 DEF Moves, Extends

\* Nothing else is ever written.
LEMMA Writes ==
  ASSUME TypeInv, Checked, [Next]_vars
  PROVE  \/ UNCHANGED rows
         \/ \E p \in Payments : CreatePayment(p)
         \/ \E p \in Payments, to \in Statuses, at \in Nat : Extends(p, to, at)
<1>1. ASSUME NEW h \in Handlers, Moves(h)
      PROVE  \E p \in Payments, to \in Statuses, at \in Nat : Extends(p, to, at)
  <2>1. Payment(h) \in Payments /\ req[h].to \in Statuses /\ began[h] \in Nat
    BY <1>1, MovedRequest DEF Moves
  <2>2. QED
    BY <1>1, <2>1, MoveExtends
<1>2. QED
  BY <1>1, RequestKinds DEF Next, Takes, Quiet, Tick, vars

\* Edges join statuses, upwards.
LEMMA EdgesClimb ==
  /\ \A s \in Statuses : Rank[s] \in Nat
  /\ \A s, to : <<s, to>> \in Edges =>
       /\ s \in Statuses /\ to \in Statuses
       /\ Rank[s] < Rank[to]
       /\ to # "PENDING" /\ s \notin {"FAILED", "REFUNDED"}
       /\ to = "REFUNDED" <=> s = "PAID"
BY DEF Edges, Rank, Statuses

\* Appending one row keeps the rows before it.
LEMMA AppendKeeps ==
  ASSUME NEW S, NEW A \in Seq(S), NEW row \in S
  PROVE  /\ Append(A, row) \in Seq(S)
         /\ Len(Append(A, row)) = Len(A) + 1
         /\ DOMAIN Append(A, row) = 1..(Len(A) + 1)
         /\ DOMAIN A = 1..Len(A) /\ Len(A) \in Nat
         /\ \A i \in 1..Len(A) : Append(A, row)[i] = A[i]
         /\ Append(A, row)[Len(A) + 1] = row
OBVIOUS

\* The row and the trail that an extension writes.
LEMMA Extension ==
  ASSUME TypeInv, NEW p \in Payments, NEW to \in Statuses, NEW at \in Nat,
         Extends(p, to, at),
         NEW row, row = [from |-> payments[p].status, to |-> to],
         NEW A, A = audit[p]
  PROVE  /\ row \in AuditRow /\ row.from = payments[p].status /\ row.to = to
         /\ A \in Seq(AuditRow)
         /\ audit'[p] = Append(A, row)
         /\ payments'[p] = MovedPayment(payments[p], to, at)
         /\ \A q \in Payments : q # p => /\ audit'[q] = audit[q]
                                        /\ payments'[q] = payments[q]
<1>1. payments[p].status \in Statuses
  BY EdgesClimb DEF Extends
<1>2. row \in AuditRow
  BY <1>1 DEF AuditRow
<1>3. QED
  BY <1>2 DEF Extends, Audited, TypeInv, TypeOK

\* The extended trail takes up where it had ended, and ends in the new status.
LEMMA ExtendedTells ==
  ASSUME TypeInv, NEW p \in Payments, NEW to \in Statuses, NEW at \in Nat,
         Extends(p, to, at), Tells(payments[p], audit[p])
  PROVE  Tells(payments'[p], audit'[p])
<1> DEFINE row == [from |-> payments[p].status, to |-> to]
           A == audit[p]
           B == Append(A, row)
<1>1. /\ row \in AuditRow /\ row.from = payments[p].status /\ row.to = to
      /\ A \in Seq(AuditRow) /\ audit'[p] = B
      /\ payments'[p] = MovedPayment(payments[p], to, at)
  BY Extension
<1>2. /\ Len(B) = Len(A) + 1 /\ Len(A) \in Nat
      /\ \A i \in 1..Len(A) : B[i] = A[i]
      /\ B[Len(A) + 1] = row
      /\ B \in Seq(AuditRow)
  BY <1>1, AppendKeeps
<1>3. <<payments[p].status, to>> \in Edges
  BY DEF Extends
<1>4. /\ payments[p].status \in Statuses /\ to # "PENDING" /\ to # None
      /\ payments[p].status \notin {None, "FAILED", "REFUNDED"}
      /\ to = "REFUNDED" <=> payments[p].status = "PAID"
  BY <1>3, EdgesClimb, PaymentConstants
<1>5. B # <<>>
  BY <1>2
<1>6. B[1].from = "PENDING"
  <2>1. CASE A = <<>>
    <3>1. payments[p].status = "PENDING" /\ Len(A) = 0
      BY <1>4, <2>1 DEF Tells
    <3>2. B[1] = row
      BY <1>2, <3>1
    <3>3. QED
      BY <1>1, <3>1, <3>2
  <2>2. CASE A # <<>>
    <3>1. Len(A) > 0
      BY <1>1, <2>2
    <3>2. B[1] = A[1]
      BY <1>2, <3>1
    <3>3. QED
      BY <2>2, <3>2 DEF Tells
  <2>3. QED
    BY <2>1, <2>2
<1>7. B[Len(B)].to = to
  BY <1>1, <1>2
<1>8. ASSUME NEW i \in 2..Len(B) PROVE B[i].from = B[i-1].to
  <2>1. CASE i <= Len(A)
    <3>1. i \in 2..Len(A) /\ i \in 1..Len(A) /\ i-1 \in 1..Len(A)
      BY <1>2, <2>1
    <3>2. B[i] = A[i] /\ B[i-1] = A[i-1]
      BY <1>2, <3>1
    <3>3. QED
      BY <3>1, <3>2 DEF Tells
  <2>2. CASE i = Len(A) + 1
    <3>1. Len(A) >= 1 /\ A # <<>>
      BY <1>2, <2>2
    <3>2. B[i] = row /\ B[i-1] = A[Len(A)]
      BY <1>2, <2>2, <3>1
    <3>3. QED
      BY <1>1, <3>1, <3>2 DEF Tells
  <2>3. QED
    BY <1>2, <2>1, <2>2
<1>9. /\ payments'[p].status = to
      /\ payments'[p].paidAt # None <=> to \in {"PAID", "REFUNDED"}
  <2>1. payments[p].paidAt # None <=> payments[p].status = "PAID"
    BY <1>4 DEF Tells
  <2>2. to # "PAID" \/ payments[p].status # "PAID"
    BY <1>4
  <2>3. at # None
    BY PaymentConstants
  <2>4. QED
    BY <1>1, <1>4, <2>1, <2>2, <2>3 DEF MovedPayment
<1>10. QED
  BY <1>1, <1>4, <1>5, <1>6, <1>7, <1>8, <1>9 DEF Tells

\* The extended trail climbs on.
LEMMA ExtendedClimbs ==
  ASSUME TypeInv, NEW p \in Payments, NEW to \in Statuses, NEW at \in Nat,
         Extends(p, to, at), Climbs(audit[p], payments[p].status)
  PROVE  Climbs(audit'[p], payments'[p].status)
<1> DEFINE row == [from |-> payments[p].status, to |-> to]
           A == audit[p]
           B == Append(A, row)
           s == payments[p].status
<1>1. /\ row \in AuditRow /\ row.from = s /\ row.to = to
      /\ A \in Seq(AuditRow) /\ audit'[p] = B
      /\ payments'[p].status = to
  <2>1. /\ row \in AuditRow /\ row.from = s /\ row.to = to
        /\ A \in Seq(AuditRow) /\ audit'[p] = B
        /\ payments'[p] = MovedPayment(payments[p], to, at)
    BY Extension
  <2>2. QED
    BY <2>1 DEF MovedPayment
<1>2. /\ DOMAIN A = 1..Len(A) /\ DOMAIN B = 1..(Len(A) + 1) /\ Len(A) \in Nat
      /\ \A i \in 1..Len(A) : B[i] = A[i]
      /\ B[Len(A) + 1] = row
  BY <1>1, AppendKeeps
<1>3. Rank[s] < Rank[to] /\ Rank[s] \in Nat /\ Rank[to] \in Nat
  BY EdgesClimb DEF Extends
<1>4. \A i \in 1..Len(A) : /\ Rank[A[i].from] \in Nat /\ Rank[A[i].to] \in Nat
                           /\ Rank[A[i].to] <= Rank[s]
                           /\ Rank[A[i].from] < Rank[A[i].to]
  <2>1. \A i \in 1..Len(A) : A[i].from \in Statuses /\ A[i].to \in Statuses
    <3>1. \A i \in 1..Len(A) : A[i] \in AuditRow
      BY <1>1
    <3>2. QED
      BY <3>1 DEF AuditRow
  <2>2. \A i \in 1..Len(A) : Rank[A[i].from] \in Nat /\ Rank[A[i].to] \in Nat
    BY <2>1, EdgesClimb
  <2>3. \A i \in DOMAIN A : /\ Rank[A[i].to] <= Rank[s]
                            /\ Rank[A[i].from] < Rank[A[i].to]
    BY DEF Climbs
  <2>4. QED
    BY <1>2, <2>2, <2>3
<1>5. \A i \in DOMAIN B : Rank[B[i].from] < Rank[B[i].to] /\ Rank[B[i].to] <= Rank[to]
  <2>1. ASSUME NEW i \in 1..Len(A)
        PROVE  Rank[B[i].from] < Rank[B[i].to] /\ Rank[B[i].to] <= Rank[to]
    <3>1. B[i] = A[i]
      BY <1>2
    <3>2. QED
      BY <1>3, <1>4, <3>1
  <2>2. /\ Rank[B[Len(A) + 1].from] < Rank[B[Len(A) + 1].to]
        /\ Rank[B[Len(A) + 1].to] <= Rank[to]
    BY <1>1, <1>2, <1>3
  <2>3. QED
    BY <1>2, <2>1, <2>2
<1>6. ASSUME NEW i \in DOMAIN B, NEW j \in DOMAIN B, i < j
      PROVE  Rank[B[i].to] <= Rank[B[j].from]
  <2>1. i \in 1..Len(A) /\ B[i] = A[i]
    BY <1>2, <1>6
  <2>2. CASE j \in 1..Len(A)
    <3>1. B[j] = A[j]
      BY <1>2, <2>2
    <3>2. QED
      BY <1>2, <1>6, <2>1, <2>2, <3>1 DEF Climbs
  <2>3. CASE j = Len(A) + 1
    <3>1. B[j].from = s
      BY <1>1, <1>2, <2>3
    <3>2. QED
      BY <1>4, <2>1, <3>1
  <2>4. QED
    BY <1>2, <2>2, <2>3
<1>7. QED
  BY <1>1, <1>5, <1>6 DEF Climbs

\* A new payment has no trail yet.
LEMMA CreatedIsSound ==
  ASSUME TypeInv, NEW p \in Payments, CreatePayment(p), Tells(payments[p], audit[p])
  PROVE  /\ Tells(payments'[p], audit'[p]) /\ Climbs(audit'[p], payments'[p].status)
         /\ audit' = audit
         /\ \A q \in Payments : q # p => payments'[q] = payments[q]
<1>1. audit[p] = <<>> /\ audit' = audit
  BY DEF CreatePayment, Tells
<1>2. payments'[p] = [status |-> "PENDING", paidAt |-> None]
  BY DEF CreatePayment, TypeInv, TypeOK
<1>3. Tells(payments'[p], audit'[p])
  BY <1>1, <1>2 DEF Tells
<1>4. Climbs(audit'[p], payments'[p].status)
  BY <1>1 DEF Climbs
<1>5. QED
  BY <1>1, <1>3, <1>4 DEF CreatePayment, TypeInv, TypeOK

\* The audit trails go on telling the statuses, and climbing.
LEMMA TrailStep ==
  ASSUME TypeInv, Checked, AuditTells, TrailsClimb, [Next]_vars
  PROVE  AuditTells' /\ TrailsClimb'
<1> SUFFICES ASSUME NEW q \in Payments
             PROVE  Tells(payments'[q], audit'[q]) /\ Climbs(audit'[q], payments'[q].status)
  BY DEF AuditTells, TrailsClimb
<1>1. Tells(payments[q], audit[q]) /\ Climbs(audit[q], payments[q].status)
  BY DEF AuditTells, TrailsClimb
<1>2. CASE UNCHANGED rows
  BY <1>1, <1>2 DEF rows
<1>3. ASSUME NEW p \in Payments, CreatePayment(p)
      PROVE  Tells(payments'[q], audit'[q]) /\ Climbs(audit'[q], payments'[q].status)
  <2>1. Tells(payments[p], audit[p])
    BY DEF AuditTells
  <2>2. QED
    BY <1>1, <1>3, <2>1, CreatedIsSound
<1>4. ASSUME NEW p \in Payments, NEW to \in Statuses, NEW at \in Nat, Extends(p, to, at)
      PROVE  Tells(payments'[q], audit'[q]) /\ Climbs(audit'[q], payments'[q].status)
  <2>1. CASE q = p
    BY <1>1, <1>4, <2>1, ExtendedTells, ExtendedClimbs
  <2>2. CASE q # p
    <3>1. payments'[q] = payments[q] /\ audit'[q] = audit[q]
      BY <1>4, <2>2, Extension
    <3>2. QED
      BY <1>1, <3>1
  <2>3. QED
    BY <2>1, <2>2
<1>5. QED
  BY <1>2, <1>3, <1>4, Writes

(***************************************************************************)
(* Answers.                                                                *)
(***************************************************************************)

\* No row of a trail is ever removed or changed.
LEMMA TrailGrows ==
  ASSUME TypeInv, Checked, [Next]_vars, NEW p \in Payments, NEW i \in DOMAIN audit[p]
  PROVE  i \in DOMAIN audit'[p] /\ audit'[p][i] = audit[p][i]
<1>1. CASE UNCHANGED rows
  BY <1>1 DEF rows
<1>2. ASSUME NEW q \in Payments, CreatePayment(q)
      PROVE  i \in DOMAIN audit'[p] /\ audit'[p][i] = audit[p][i]
  BY <1>2 DEF CreatePayment
<1>3. ASSUME NEW q \in Payments, NEW to \in Statuses, NEW at \in Nat, Extends(q, to, at)
      PROVE  i \in DOMAIN audit'[p] /\ audit'[p][i] = audit[p][i]
  <2>1. CASE q # p
    BY <1>3, <2>1, Extension
  <2>2. CASE q = p
    <3> DEFINE row == [from |-> payments[p].status, to |-> to]
    <3>1. /\ row \in AuditRow /\ audit[p] \in Seq(AuditRow)
          /\ audit'[p] = Append(audit[p], row)
      BY <1>3, <2>2, Extension
    <3>2. /\ DOMAIN audit[p] = 1..Len(audit[p])
          /\ DOMAIN audit'[p] = 1..(Len(audit[p]) + 1) /\ Len(audit[p]) \in Nat
          /\ \A j \in 1..Len(audit[p]) : audit'[p][j] = audit[p][j]
      BY <3>1, AppendKeeps
    <3>3. QED
      BY <3>2
  <2>3. QED
    BY <2>1, <2>2
<1>4. QED
  BY <1>1, <1>2, <1>3, Writes

\* Whoever has been told "ok" keeps its request, and only a move is told it.
LEMMA OkSteps ==
  ASSUME TypeInv, [Next]_vars, NEW g \in Handlers, pc'[g] = "ok"
  PROVE  /\ req'[g] = req[g]
         /\ pc[g] = "ok" \/ Moves(g)
         /\ pc[g] = "ok" \/ (\A h \in Handlers : h # g => pc'[h] = pc[h] /\ req'[h] = req[h])
<1>1. ASSUME NEW h \in Handlers, Moves(h) PROVE g = h \/ (pc[g] = "ok" /\ req'[g] = req[g])
  BY <1>1 DEF Moves, Goto, TypeInv, TypeOK
<1>2. ASSUME NEW h \in Handlers, Moves(h)
      PROVE  UNCHANGED req /\ \A x \in Handlers : x # h => pc'[x] = pc[x]
  BY <1>2 DEF Moves, Goto, TypeInv, TypeOK
<1>3. ASSUME NEW h \in Handlers, Takes(h) \/ Quiet(h) PROVE pc[g] = "ok" /\ req'[g] = req[g]
  BY <1>3 DEF Takes, Quiet, Goto, TypeInv, TypeOK
<1>4. CASE (\E q \in Payments : CreatePayment(q)) \/ Tick \/ UNCHANGED vars
  BY <1>4 DEF CreatePayment, Tick, vars, requests
<1>5. QED
  BY <1>1, <1>2, <1>3, <1>4, RequestKinds DEF Next

\* An "ok" is backed by a row of the trail.
LEMMA OkAuditedStep ==
  ASSUME TypeInv, Checked, OkAudited, [Next]_vars
  PROVE  OkAudited'
<1> SUFFICES ASSUME NEW g \in Handlers, pc'[g] = "ok"
             PROVE  \E i \in DOMAIN audit'[req'[g].payment] :
                      /\ audit'[req'[g].payment][i].from = req'[g].expected
                      /\ audit'[req'[g].payment][i].to = req'[g].to
  BY DEF OkAudited, Payment
<1>1. req'[g] = req[g]
  BY OkSteps
<1>2. CASE pc[g] = "ok"
  <2>1. req[g].payment \in Payments
    BY <1>2 DEF TypeInv, KnowsRequest, Request
  <2>2. PICK i \in DOMAIN audit[req[g].payment] :
               /\ audit[req[g].payment][i].from = req[g].expected
               /\ audit[req[g].payment][i].to = req[g].to
    BY <1>2 DEF OkAudited, Payment
  <2>3. /\ i \in DOMAIN audit'[req[g].payment]
        /\ audit'[req[g].payment][i] = audit[req[g].payment][i]
    BY <2>1, TrailGrows
  <2>4. QED
    BY <1>1, <2>2, <2>3
<1>3. CASE Moves(g)
  <2> DEFINE p == Payment(g)
             row == [from |-> payments[p].status, to |-> req[g].to]
  <2>1. /\ p \in Payments /\ req[g].to \in Statuses /\ began[g] \in Nat
        /\ payments[p].status = req[g].expected
        /\ Extends(p, req[g].to, began[g])
    BY <1>3, MovedRequest, MoveExtends DEF Moves
  <2>2. /\ row \in AuditRow /\ row.from = req[g].expected /\ row.to = req[g].to
        /\ audit[p] \in Seq(AuditRow) /\ audit'[p] = Append(audit[p], row)
    BY <2>1, Extension
  <2>3. /\ Len(audit[p]) + 1 \in DOMAIN audit'[p]
        /\ audit'[p][Len(audit[p]) + 1] = row
    BY <2>2, AppendKeeps
  <2>4. p = req'[g].payment
    BY <1>1 DEF Payment
  <2>5. QED
    BY <1>1, <2>2, <2>3, <2>4
<1>4. QED
  BY <1>2, <1>3, OkSteps

\* No second request is told "ok" for the same transition: the first one's row
\* is in the trail, so the payment has climbed past the expected status.
LEMMA OkOnceStep ==
  ASSUME TypeInv, Checked, TrailsClimb, OkAudited, OkOnce, [Next]_vars
  PROVE  OkOnce'
<1>1. ASSUME NEW g \in Handlers, NEW h \in Handlers, g # h,
             Moves(h), pc[g] = "ok", req[g] = req[h]
      PROVE  FALSE
  <2> DEFINE p == Payment(h)
             A == audit[p]
  <2>1. /\ p \in Payments /\ payments[p].status = req[h].expected
        /\ <<req[h].expected, req[h].to>> \in Edges
    BY <1>1, MovedRequest DEF Moves
  <2>2. PICK i \in DOMAIN A : A[i].to = req[h].to
    BY <1>1 DEF OkAudited, Payment
  <2>3. Rank[req[h].to] <= Rank[req[h].expected]
    BY <2>1, <2>2 DEF TrailsClimb, Climbs
  <2>4. /\ Rank[req[h].expected] < Rank[req[h].to]
        /\ Rank[req[h].expected] \in Nat /\ Rank[req[h].to] \in Nat
    BY <2>1, EdgesClimb
  <2>5. QED
    BY <2>3, <2>4
<1>2. SUFFICES ASSUME NEW g \in Handlers, NEW h \in Handlers, g # h,
                      pc'[g] = "ok", pc'[h] = "ok", req'[g] = req'[h]
               PROVE  FALSE
  BY DEF OkOnce
<1>3. req[g] = req[h]
  BY <1>2, OkSteps
<1>4. CASE pc[g] = "ok" /\ pc[h] = "ok"
  BY <1>2, <1>3, <1>4 DEF OkOnce
<1>5. CASE pc[g] = "ok" /\ Moves(h)
  BY <1>1, <1>2, <1>3, <1>5
<1>6. CASE pc[h] = "ok" /\ Moves(g)
  BY <1>1, <1>2, <1>3, <1>6
<1>7. CASE pc[g] # "ok" /\ pc[h] # "ok"
  BY <1>2, <1>7, OkSteps
<1>8. QED
  BY <1>2, <1>4, <1>5, <1>6, <1>7, OkSteps

(***************************************************************************)
(* The invariant and what follows from it.                                 *)
(***************************************************************************)

\* The inductive invariant holds at first.
LEMMA IInvInit == Init => IInv
<1> SUFFICES ASSUME Init PROVE IInv
  OBVIOUS
<1>1. /\ \A p \in Payments : /\ payments[p].status = None /\ payments[p].paidAt = None
                            /\ audit[p] = <<>>
      /\ \A h \in Handlers : pc[h] = "idle"
  BY DEF Init
<1>2. AuditTells
  <2>1. ASSUME NEW p \in Payments PROVE Tells(payments[p], audit[p])
    <3>1. None \notin {"PAID", "REFUNDED"}
      BY PaymentConstants DEF Statuses
    <3>2. audit[p] = <<>> /\ Len(audit[p]) = 0
      BY <1>1
    <3>3. QED
      BY <1>1, <3>1, <3>2 DEF Tells
  <2>2. QED
    BY <2>1 DEF AuditTells
<1>3. TrailsClimb /\ OkAudited /\ OkOnce
  BY <1>1 DEF TrailsClimb, Climbs, OkAudited, OkOnce
<1>4. QED
  BY <1>2, <1>3, TypeInit DEF IInv

\* Every step preserves it.
LEMMA IInvStep == IInv /\ [Next]_vars => IInv'
BY TypeStep, LocksStep, CheckedStep, TrailStep, OkAuditedStep, OkOnceStep DEF IInv

\* The inductive invariant always holds.
LEMMA Invariance == Spec => []IInv
BY IInvInit, IInvStep, PTL DEF Spec

\* Rows, locks and requests keep their types, whatever the constants.
THEOREM PaymentTypes == Spec => []TypeOK
BY Invariance, PTL DEF IInv, TypeInv

\* The audit trail of a payment is unbroken and ends in its present status,
\* under any number of concurrent callers.
THEOREM TrailsTellStatuses == Spec => []AuditTellsStatus
<1>1. IInv => AuditTellsStatus
  BY DEF IInv, AuditTells, Tells, AuditTellsStatus
<1>2. QED
  BY <1>1, Invariance, PTL

\* A transition is made once: its edge is climbed once, so no row of the trail
\* repeats, and of two callers that ask for it one is told "ok" at most.
THEOREM TransitionsAreAppliedOnce == Spec => []AppliedOnce
<1>1. ASSUME IInv, NEW p \in Payments, NEW i \in DOMAIN audit[p], NEW j \in DOMAIN audit[p],
             i < j, audit[p][i] = audit[p][j]
      PROVE  FALSE
  <2>1. /\ Rank[audit[p][i].from] < Rank[audit[p][i].to]
        /\ Rank[audit[p][i].to] <= Rank[audit[p][j].from]
    BY <1>1 DEF IInv, TrailsClimb, Climbs
  <2>2. audit[p][i] \in AuditRow
    BY <1>1 DEF IInv, TypeInv, TypeOK
  <2>3. Rank[audit[p][i].from] \in Nat /\ Rank[audit[p][i].to] \in Nat
    BY <2>2, EdgesClimb DEF AuditRow
  <2>4. QED
    BY <1>1, <2>1, <2>3
<1>2. ASSUME IInv, NEW p \in Payments, NEW i \in DOMAIN audit[p], NEW j \in DOMAIN audit[p],
             audit[p][i] = audit[p][j]
      PROVE  i = j
  <2>1. i \in Nat /\ j \in Nat
    <3>1. audit[p] \in Seq(AuditRow)
      BY <1>2 DEF IInv, TypeInv, TypeOK
    <3>2. QED
      BY <3>1
  <2>2. QED
    BY <1>1, <1>2, <2>1
<1>3. IInv => AppliedOnce
  BY <1>2 DEF IInv, OkOnce, AppliedOnce
<1>4. QED
  BY <1>3, Invariance, PTL

\* The time of payment is written once and for all.
THEOREM PaidTimesStand == Spec => PaidTimeStands
<1>1. ASSUME IInv, [Next]_vars, NEW p \in Payments, payments[p].paidAt # None
      PROVE  payments'[p].paidAt = payments[p].paidAt
  <2>1. TypeInv /\ Checked /\ payments[p].status \in {"PAID", "REFUNDED"}
    BY <1>1 DEF IInv, AuditTells, Tells
  <2>2. CASE UNCHANGED rows
    BY <2>2 DEF rows
  <2>3. ASSUME NEW q \in Payments, CreatePayment(q)
        PROVE  payments'[p].paidAt = payments[p].paidAt
    <3>1. q # p
      BY <2>1, <2>3, PaymentConstants DEF CreatePayment, Statuses
    <3>2. QED
      BY <2>1, <2>3, <3>1 DEF CreatePayment, TypeInv, TypeOK
  <2>4. ASSUME NEW q \in Payments, NEW to \in Statuses, NEW at \in Nat, Extends(q, to, at)
        PROVE  payments'[p].paidAt = payments[p].paidAt
    <3>1. CASE q # p
      BY <2>1, <2>4, <3>1, Extension
    <3>2. CASE q = p
      <4>1. payments'[p] = MovedPayment(payments[p], to, at)
        BY <2>1, <2>4, <3>2, Extension
      <4>2. QED
        BY <1>1, <4>1 DEF MovedPayment
    <3>3. QED
      BY <3>1, <3>2
  <2>5. QED
    BY <1>1, <2>1, <2>2, <2>3, <2>4, Writes
<1>2. IInv /\ [Next]_vars =>
        [\A p \in Payments :
           payments[p].paidAt # None => payments'[p].paidAt = payments[p].paidAt]_vars
  BY <1>1
<1>3. QED
  BY <1>2, Invariance, PTL DEF Spec, PaidTimeStands

(***************************************************************************)
(* The endpoint.                                                           *)
(***************************************************************************)

\* Whoever was told "ok" is a service.
OkService == \A h \in Handlers : pc[h] = "ok" => req[h].via = "service"

\* Whoever moves a payment or writes its trail is a service.
MovedByService ==
  [][\A h \in Handlers : Handle(h) /\ rows' # rows => req[h].via = "service"]_vars

\* No edge leads to where it starts, and the endpoint's second call finds the
\* status the first one wrote: only a service's request can be repeated.
LEMMA RepeatableByService ==
  ASSUME TypeInv, Checked, NEW h \in Handlers, At(h, "update"), Repeatable(h)
  PROVE  req[h].via = "service"
<1>1. <<req[h].expected, req[h].to>> \in Edges  BY DEF Checked, Allowed, At
<1>2. req[h].expected # req[h].to  BY <1>1 DEF Edges
<1>3. QED
  BY <1>2 DEF Repeatable

LEMMA OkServiceStep ==
  ASSUME TypeInv, Checked, OkService, [Next]_vars
  PROVE  OkService'
<1> SUFFICES ASSUME NEW g \in Handlers, pc'[g] = "ok"
             PROVE  req'[g].via = "service"
  BY DEF OkService
<1>1. ASSUME NEW h \in Handlers, Update(h)
      PROVE  req'[g].via = "service"
  <2>1. CASE g = h
    <3>1. Repeatable(h)
      BY <1>1, <2>1 DEF Update, Goto, TypeInv, TypeOK
    <3>2. QED
      BY <1>1, <2>1, <3>1, RepeatableByService DEF Update
  <2>2. CASE g # h
    BY <1>1, <2>2 DEF Update, Goto, OkService, TypeInv, TypeOK
  <2>3. QED
    BY <2>1, <2>2
<1>2. ASSUME NEW h \in Handlers, Ask(h)
      PROVE  req'[g].via = "service"
  <2>1. g # h
    BY <1>2 DEF Ask, Goto, TypeInv, TypeOK
  <2>2. QED
    BY <1>2, <2>1 DEF Ask, Goto, OkService, TypeInv, TypeOK
<1>3. ASSUME NEW h \in Handlers, ReadMode(h) \/ Call(h) \/ Lock(h) \/ Fail(h)
      PROVE  req'[g].via = "service"
  BY <1>3 DEF ReadMode, Call, Lock, Fail, Goto, OkService, TypeInv, TypeOK
<1>4. CASE (\E q \in Payments : CreatePayment(q)) \/ Tick \/ UNCHANGED vars
  BY <1>4 DEF CreatePayment, Tick, vars, requests, OkService
<1>5. QED
  BY <1>1, <1>2, <1>3, <1>4 DEF Next, Handle

\* No request through the endpoint is ever told "ok" or moves a payment, whatever
\* it asks for and whoever else is there.
THEOREM EndpointMovesNothing == Spec => []OkService /\ MovedByService
<1>1. Init => OkService
  BY DEF Init, OkService
<1>2. IInv /\ OkService /\ [Next]_vars => OkService'
  BY OkServiceStep DEF IInv
<1>3. ASSUME IInv, NEW h \in Handlers, Handle(h), rows' # rows
      PROVE  req[h].via = "service"
  <2>1. Update(h) /\ Repeatable(h)
    BY <1>3 DEF Handle, Ask, ReadMode, Call, Lock, Update, Fail
  <2>2. QED
    BY <1>3, <2>1, RepeatableByService DEF IInv, Update
<1>4. IInv => [\A h \in Handlers : Handle(h) /\ rows' # rows => req[h].via = "service"]_vars
  BY <1>3
<1>5. QED
  BY <1>1, <1>2, <1>4, Invariance, PTL DEF Spec, MovedByService

(***************************************************************************)
(* The refinement.                                                         *)
(***************************************************************************)

Status     == [p \in Payments |-> payments[p].status]
Log        == [p \in Payments |-> Trail(p)]
TrailOf(A) == [i \in 1..(Len(A) + 1) |-> IF i = 1 THEN "PENDING" ELSE A[i-1].to]

\* A payment that has not moved has been PENDING.
LEMMA TrailStarts == TrailOf(<<>>) = Append(<<>>, "PENDING")
<1>1. /\ TrailOf(<<>>) \in Seq({"PENDING"}) /\ Len(TrailOf(<<>>)) = 1
      /\ TrailOf(<<>>)[1] = "PENDING"
  BY DEF TrailOf
<1>2. /\ Append(<<>>, "PENDING") \in Seq({"PENDING"})
      /\ Len(Append(<<>>, "PENDING")) = 1
      /\ Append(<<>>, "PENDING")[1] = "PENDING"
  OBVIOUS
<1>3. QED
  BY <1>1, <1>2

\* Appending a row appends its status.
LEMMA TrailAppends ==
  ASSUME NEW A \in Seq(AuditRow), NEW row \in AuditRow
  PROVE  TrailOf(Append(A, row)) = Append(TrailOf(A), row.to)
<1> DEFINE B == Append(A, row)
           L == TrailOf(A)
           M == Append(L, row.to)
<1>1. /\ Len(A) \in Nat /\ Len(B) = Len(A) + 1
      /\ \A i \in 1..Len(A) : B[i] = A[i]
      /\ B[Len(A) + 1] = row
  BY AppendKeeps
<1>2. L \in Seq(Statuses) /\ Len(L) = Len(A) + 1 /\ row.to \in Statuses
  <2>1. \A i \in 1..Len(A) : A[i] \in AuditRow
    OBVIOUS
  <2>2. \A i \in 1..Len(A) : A[i].to \in Statuses
    BY <2>1 DEF AuditRow
  <2>3. \A i \in 1..(Len(A) + 1) : i # 1 => i-1 \in 1..Len(A)
    BY <1>1
  <2>4. L \in [1..(Len(A) + 1) -> Statuses]
    BY <2>2, <2>3 DEF TrailOf, Statuses
  <2>5. Len(A) + 1 \in Nat
    BY <1>1
  <2>6. L \in Seq(Statuses) /\ Len(L) = Len(A) + 1
    BY <2>4, <2>5
  <2>7. QED
    BY <2>6 DEF AuditRow
<1>3. /\ M \in Seq(Statuses) /\ Len(M) = Len(L) + 1
      /\ \A i \in 1..Len(L) : M[i] = L[i]
      /\ M[Len(L) + 1] = row.to
  BY <1>2, AppendKeeps
<1>4. \A i \in 1..(Len(B) + 1) : TrailOf(B)[i] = M[i]
  <2>1. SUFFICES ASSUME NEW i \in 1..(Len(B) + 1)
                 PROVE  (IF i = 1 THEN "PENDING" ELSE B[i-1].to) = M[i]
    BY DEF TrailOf
  <2>2. CASE i \in 1..(Len(A) + 1)
    <3>1. M[i] = IF i = 1 THEN "PENDING" ELSE A[i-1].to
      BY <1>2, <1>3, <2>2 DEF TrailOf
    <3>2. i # 1 => B[i-1] = A[i-1]
      <4>1. i # 1 => i-1 \in 1..Len(A)
        BY <1>1, <2>2
      <4>2. QED
        BY <1>1, <4>1
    <3>3. QED
      BY <3>1, <3>2
  <2>3. CASE i = Len(A) + 2
    <3>1. i # 1 /\ i-1 = Len(A) + 1 /\ i = Len(L) + 1
      BY <1>1, <1>2, <2>3
    <3>2. QED
      BY <1>1, <1>3, <3>1
  <2>4. i \in 1..(Len(A) + 1) \/ i = Len(A) + 2
    BY <1>1
  <2>5. QED
    BY <2>2, <2>3, <2>4
<1>5. DOMAIN M = 1..(Len(B) + 1) /\ M = [i \in DOMAIN M |-> M[i]]
  BY <1>1, <1>2, <1>3
<1>6. QED
  BY <1>4, <1>5 DEF TrailOf

\* No payment, no status, no trail.
LEMMA LedgerInit == Init => Ledger!Init
BY DEF Init, Ledger!Init, Trail

\* Every step is a step of the abstract log or a stutter.
LEMMA LedgerStep == IInv /\ [Next]_vars => [Ledger!Next]_(Ledger!logVars)
<1> SUFFICES ASSUME IInv, [Next]_vars PROVE Ledger!Next \/ UNCHANGED Ledger!logVars
  OBVIOUS
<1>0. TypeInv /\ Checked /\ AuditTells
  BY DEF IInv
<1>1. CASE UNCHANGED rows
  BY <1>1 DEF rows, Ledger!logVars, Trail
<1>2. ASSUME NEW p \in Payments, CreatePayment(p)
      PROVE  Ledger!Next
  <2>1. /\ payments[p].status = None /\ audit[p] = <<>> /\ audit' = audit
        /\ payments'[p].status = "PENDING"
        /\ \A q \in Payments : q # p => payments'[q] = payments[q]
    BY <1>0, <1>2 DEF CreatePayment, AuditTells, Tells, TypeInv, TypeOK
  <2>2. Trail(p) = <<>> /\ Trail(p)' = Append(<<>>, "PENDING")
    <3>1. Trail(p)' = TrailOf(<<>>)
      BY <2>1, PaymentConstants DEF Trail, TrailOf, Statuses
    <3>2. QED
      BY <2>1, <3>1, TrailStarts DEF Trail
  <2>3. \A q \in Payments : q # p => Trail(q)' = Trail(q)
    BY <2>1 DEF Trail
  <2>4. /\ Status' = [Status EXCEPT ![p] = "PENDING"]
        /\ Log' = [Log EXCEPT ![p] = Append(Log[p], "PENDING")]
        /\ Status[p] = None
    BY <2>1, <2>2, <2>3 DEF Status, Log
  <2>5. Ledger!Record(p, "PENDING")
    BY <2>4 DEF Ledger!Record, Status, Log
  <2>6. Ledger!Enter(p)
    BY <2>4, <2>5 DEF Ledger!Enter, Status
  <2>7. QED
    BY <2>6 DEF Ledger!Next
<1>3. ASSUME NEW p \in Payments, NEW to \in Statuses, NEW at \in Nat, Extends(p, to, at)
      PROVE  Ledger!Next
  <2> DEFINE row == [from |-> payments[p].status, to |-> to]
  <2>1. /\ row \in AuditRow /\ row.to = to /\ audit[p] \in Seq(AuditRow)
        /\ audit'[p] = Append(audit[p], row)
        /\ payments'[p] = MovedPayment(payments[p], to, at)
        /\ \A q \in Payments : q # p => audit'[q] = audit[q] /\ payments'[q] = payments[q]
    BY <1>0, <1>3, Extension
  <2>2. /\ payments[p].status # None /\ to # None
        /\ payments'[p].status = to
        /\ <<payments[p].status, to>> \in Edges
    <3>1. payments[p].status \in Statuses /\ <<payments[p].status, to>> \in Edges
      BY <1>3, EdgesClimb DEF Extends
    <3>2. payments'[p].status = to
      BY <2>1 DEF MovedPayment
    <3>3. QED
      BY <3>1, <3>2, PaymentConstants
  <2>3. Trail(p)' = Append(Trail(p), to)
    <3>1. Trail(p) = TrailOf(audit[p]) /\ Trail(p)' = TrailOf(audit'[p])
      BY <2>2 DEF Trail, TrailOf
    <3>2. TrailOf(Append(audit[p], row)) = Append(TrailOf(audit[p]), row.to)
      BY <2>1, TrailAppends
    <3>3. QED
      BY <2>1, <3>1, <3>2
  <2>4. \A q \in Payments : q # p => Trail(q)' = Trail(q)
    BY <2>1 DEF Trail
  <2>5. /\ Status' = [Status EXCEPT ![p] = to]
        /\ Log' = [Log EXCEPT ![p] = Append(Log[p], to)]
        /\ Status[p] = payments[p].status
    BY <2>1, <2>2, <2>3, <2>4 DEF Status, Log
  <2>6. PICK e \in Edges : e = <<payments[p].status, to>>
    BY <2>2
  <2>7. Status[p] = e[1] /\ to = e[2]
    BY <2>5, <2>6
  <2>8. Ledger!Record(p, e[2])
    BY <2>5, <2>7 DEF Ledger!Record, Status, Log
  <2>9. Ledger!Move(p)
    BY <2>7, <2>8 DEF Ledger!Move, Status
  <2>10. QED
    BY <2>9 DEF Ledger!Next
<1>4. QED
  BY <1>0, <1>1, <1>2, <1>3, Writes

\* The payments table with its trusted function implements the status log:
\* every change of status goes along an edge and is audited in the same step.
THEOREM PaymentsKeepTheLog == Spec => ImplementsStatusLog
BY Invariance, LedgerInit, LedgerStep, PTL DEF Spec, ImplementsStatusLog, Ledger!Spec
=============================================================================
