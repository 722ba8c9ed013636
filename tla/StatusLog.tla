------------------------------ MODULE StatusLog ------------------------------
(***************************************************************************)
(* What the record of a lifecycle promises: a thing enters in its first    *)
(* status, moves along the edges of its state machine only, and every move *)
(* is appended to its log in the same step, so that the log always ends in *)
(* the present status and is never rewritten.                              *)
(***************************************************************************)
EXTENDS Sequences

CONSTANTS Things, Absent, First, Edges

VARIABLES current,   \* thing -> its status, or Absent
          log        \* thing -> the statuses it has had, oldest first

logVars == <<current, log>>

Init == /\ current = [x \in Things |-> Absent]
        /\ log = [x \in Things |-> <<>>]

Record(x, status) == /\ current' = [current EXCEPT ![x] = status]
                     /\ log' = [log EXCEPT ![x] = Append(@, status)]

Enter(x) == current[x] = Absent /\ Record(x, First)

Move(x) == \E e \in Edges : current[x] = e[1] /\ Record(x, e[2])

Next == \E x \in Things : Enter(x) \/ Move(x)

Spec == Init /\ [][Next]_logVars
=============================================================================
