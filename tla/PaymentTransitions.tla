-------------------------- MODULE PaymentTransitions --------------------------
(***************************************************************************)
(* Payments: the trusted function internal.transition_payment and its      *)
(* trigger (migration 017), called by the administrators' endpoint         *)
(* (routes.py transition_payment) and by others with the service role.     *)
(*                                                                         *)
(* The endpoint reads the payment's mode in one database call and moves it *)
(* in another; a service makes the second call only.  The function locks   *)
(* the row, compares the status with the one its caller expects and writes *)
(* status and audit event.  now() is the start of its transaction, before  *)
(* it waits for the lock.                                                  *)
(*                                                                         *)
(* The endpoint selects `(internal.transition_payment(...)).*`, which      *)
(* PostgreSQL expands to one field selection per column and evaluates with *)
(* one call of the function for each of them, in one transaction.          *)
(***************************************************************************)
EXTENDS Integers, Sequences

CONSTANTS
  Payments,
  Mode,        \* payment -> "LIVE", "DEMO" or "SANDBOX"; never changes
  Asked,       \* the transitions administrators and services ask for
  Handlers,    \* the requests that are served at one time
  None,
  MaxTime      \* bound on the clock

Statuses == {"PENDING", "PROCESSING", "PAID", "FAILED", "REFUNDED"}
Request  == [payment : Payments, expected : Statuses, to : Statuses,
             via : {"endpoint", "service"}]

ASSUME PaymentConstants ==
  /\ Mode \in [Payments -> {"LIVE", "DEMO", "SANDBOX"}]
  /\ Asked \subseteq Request
  /\ None \notin Statuses \union Handlers \union Nat
  /\ MaxTime \in Nat

VARIABLES
  payments,    \* [status, paidAt]; status None before the payment exists
  audit,       \* payment -> its TRANSITION_PAYMENT rows of audit_events
  rowLock,     \* payment -> the handler that holds FOR UPDATE on it
  now,         \* the database clock
  pc,          \* handler -> where it is
  req,         \* handler -> its request, or its last one
  began        \* handler -> now() of its transaction

rows     == <<payments, audit>>
requests == <<pc, req, began>>
vars     == <<rows, rowLock, now, requests>>

PaymentRow == [status : Statuses \union {None}, paidAt : Nat \union {None}]
AuditRow   == [from : Statuses, to : Statuses]

Running == {"mode", "call", "lock", "update"}
Places  == {"idle"} \union Running \union {"ok", "conflict", "refused"}

Init ==
  /\ payments = [p \in Payments |-> [status |-> None, paidAt |-> None]]
  /\ audit    = [p \in Payments |-> <<>>]
  /\ rowLock  = [p \in Payments |-> None]
  /\ now      = 0
  /\ pc       = [h \in Handlers |-> "idle"]
  /\ req      = [h \in Handlers |-> None]
  /\ began    = [h \in Handlers |-> 0]

At(h, place)   == pc[h] = place
Goto(h, place) == pc' = [pc EXCEPT ![h] = place]

Edges == ({"PENDING"}    \X {"PROCESSING", "FAILED"}) \union
         ({"PROCESSING"} \X {"PAID", "FAILED"}) \union
         ({"PAID"}       \X {"REFUNDED"})

\* Nothing in the repository creates payments; they are inserted as PENDING.
CreatePayment(p) ==
  /\ payments[p].status = None
  /\ payments' = [payments EXCEPT ![p] = [status |-> "PENDING", paidAt |-> None]]
  /\ UNCHANGED <<audit, rowLock, now, requests>>

Ask(h) ==
  /\ pc[h] \notin Running
  /\ \E q \in Asked : /\ req' = [req EXCEPT ![h] = q]
                      /\ Goto(h, IF q.via = "endpoint" THEN "mode" ELSE "call")
  /\ UNCHANGED <<rows, rowLock, now, began>>

Payment(h) == req[h].payment

\* Without a configured provider the endpoint does not move LIVE payments.
MayMove(h) == payments[Payment(h)].status # None /\ Mode[Payment(h)] # "LIVE"

ReadMode(h) ==
  /\ At(h, "mode")
  /\ \/ MayMove(h) /\ Goto(h, "call")
     \/ ~MayMove(h) /\ Goto(h, "refused")
  /\ UNCHANGED <<rows, rowLock, now, req, began>>

Call(h) ==
  /\ At(h, "call")
  /\ Goto(h, "lock")
  /\ began' = [began EXCEPT ![h] = now]
  /\ UNCHANGED <<rows, rowLock, now, req>>

Missing(h)  == payments[Payment(h)].status = None
Expected(h) == payments[Payment(h)].status = req[h].expected
Allowed(h)  == <<req[h].expected, req[h].to>> \in Edges

\* Broken: a plain SELECT, which neither waits nor locks.
LockPlainRead(h) ==
  /\ At(h, "lock")
  /\ \/ Expected(h) /\ Allowed(h) /\ Goto(h, "update")
     \/ ~Missing(h) /\ ~Expected(h) /\ Goto(h, "conflict")
     \/ (Missing(h) \/ (Expected(h) /\ ~Allowed(h))) /\ Goto(h, "refused")
  /\ UNCHANGED <<rows, rowLock, now, req, began>>

\* SELECT ... FOR UPDATE, and the checks on the row it returns.
Lock(h) ==
  /\ At(h, "lock")
  /\ rowLock[Payment(h)] = None
  /\ \/ /\ Expected(h) /\ Allowed(h)
        /\ rowLock' = [rowLock EXCEPT ![Payment(h)] = h]
        /\ Goto(h, "update")
     \/ /\ ~Missing(h) /\ ~Expected(h)
        /\ Goto(h, "conflict")
        /\ UNCHANGED rowLock
     \/ /\ Missing(h) \/ (Expected(h) /\ ~Allowed(h))
        /\ Goto(h, "refused")
        /\ UNCHANGED rowLock
  /\ UNCHANGED <<rows, now, req, began>>

\* Broken: a payment that loses its time of payment with its status.
MovedPaymentForgetting(row, to, at) ==
  [status |-> to, paidAt |-> IF to = "PAID" THEN at ELSE None]

\* The trigger stamps the payment when it becomes PAID, unless it is stamped.
MovedPayment(row, to, at) ==
  [status |-> to,
   paidAt |-> IF to = "PAID" /\ row.paidAt = None THEN at ELSE row.paidAt]

Release(h) ==
  rowLock' = [p \in Payments |-> IF rowLock[p] = h THEN None ELSE rowLock[p]]

\* Broken: the two statuses change places.
AuditedReversed(p, from, to) ==
  [audit EXCEPT ![p] = Append(@, [from |-> to, to |-> from])]

\* Broken: the audit event is written for completed payments only.
AuditedWhenFinal(p, from, to) ==
  IF to = "PROCESSING" THEN audit
  ELSE [audit EXCEPT ![p] = Append(@, [from |-> from, to |-> to])]

Audited(p, from, to) ==
  [audit EXCEPT ![p] = Append(@, [from |-> from, to |-> to])]

\* A service asks for one value of the result.  The endpoint's statement calls
\* the function once more, and that call must find the status it expects too.
Repeatable(h) == req[h].via = "service" \/ req[h].to = req[h].expected

\* The update, the audit event and the commit.  The answer may still be lost.
Update(h) ==
  LET p == Payment(h)  from == req[h].expected  to == req[h].to IN
  /\ At(h, "update")
  /\ Release(h)
  /\ \/ /\ Repeatable(h)
        /\ payments' = [payments EXCEPT ![p] = MovedPayment(payments[p], to, began[h])]
        /\ audit' = Audited(p, from, to)
        /\ \E answer \in {"ok", "refused"} : Goto(h, answer)
     \/ /\ ~Repeatable(h)
        /\ Goto(h, "conflict")
        /\ UNCHANGED rows
  /\ UNCHANGED <<now, req, began>>

\* A statement that fails before the commit, or is cancelled.
Fail(h) ==
  /\ pc[h] \in Running
  /\ Release(h)
  /\ Goto(h, "refused")
  /\ UNCHANGED <<rows, now, req, began>>

Tick ==
  /\ now < MaxTime
  /\ now' = now + 1
  /\ UNCHANGED <<rows, rowLock, requests>>

-----------------------------------------------------------------------------
Handle(h) == Ask(h) \/ ReadMode(h) \/ Call(h) \/ Lock(h) \/ Update(h) \/ Fail(h)

Next ==
  \/ \E h \in Handlers : Handle(h)
  \/ \E p \in Payments : CreatePayment(p)
  \/ Tick

Spec == Init /\ [][Next]_vars

-----------------------------------------------------------------------------
(***************************************************************************)
(* Properties.                                                             *)
(***************************************************************************)

\* The shape of every row, lock and request.
TypeOK ==
  /\ payments \in [Payments -> PaymentRow]
  /\ audit \in [Payments -> Seq(AuditRow)]
  /\ rowLock \in [Payments -> Handlers \union {None}]
  /\ now \in Nat
  /\ pc \in [Handlers -> Places]
  /\ req \in [Handlers -> Request \union {None}]
  /\ began \in [Handlers -> Nat]

\* The audit trail of a payment starts where payments start, takes up each time
\* where it ended, and ends in the present status; and a payment carries a time
\* of payment exactly if it has been paid.
AuditTellsStatus ==
  \A p \in Payments : LET A == audit[p]  row == payments[p] IN
    /\ row.status \in {None, "PENDING"} => A = <<>>
    /\ A # <<>> => /\ A[1].from = "PENDING"
                   /\ A[Len(A)].to = row.status
    /\ \A i \in 2..Len(A) : A[i].from = A[i-1].to
    /\ row.paidAt # None <=> row.status \in {"PAID", "REFUNDED"}

\* The time of payment is written once; a refund does not erase it.
PaidTimeStands ==
  [][\A p \in Payments :
       payments[p].paidAt # None => payments'[p].paidAt = payments[p].paidAt]_vars

\* A transition that is sent twice, by two services or by one that got no
\* answer, is made once: of two equal requests at most one is told "ok", and no
\* row of the audit trail repeats.
AppliedOnce ==
  /\ \A g, h \in Handlers :
       pc[g] = "ok" /\ pc[h] = "ok" /\ req[g] = req[h] => g = h
  /\ \A p \in Payments : \A i, j \in DOMAIN audit[p] :
       audit[p][i] = audit[p][j] => i = j

\* Every change of status goes along an edge and is audited in the same step.
\* The insertion of a payment is the entry that the trail leaves out.
Trail(p) == IF payments[p].status = None THEN <<>>
            ELSE [i \in 1..(Len(audit[p]) + 1) |->
                    IF i = 1 THEN "PENDING" ELSE audit[p][i-1].to]

Ledger == INSTANCE StatusLog WITH
  Things  <- Payments,
  Absent  <- None,
  First   <- "PENDING",
  current <- [p \in Payments |-> payments[p].status],
  log     <- [p \in Payments |-> Trail(p)]

ImplementsStatusLog == Ledger!Spec

\* docs/DATABASE.md: transition_payment "locks the payment, requires the
\* expected current state, applies only the payment transitions above": a
\* request that has found the expected state under the lock, and asks for an
\* allowed transition, is not told that the state is another.
ExpectedStateNoConflict ==
  [][\A h \in Handlers : At(h, "update") => pc'[h] # "conflict"]_vars
=============================================================================
