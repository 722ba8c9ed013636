--------------------------- MODULE MCOrderLifecycle ---------------------------
(***************************************************************************)
(* A small instance of OrderLifecycle: one order, its farmer and a         *)
(* stranger, every way through the state machine, moves that compete for a *)
(* version, moves that skip a status and a move out of a final one.        *)
(***************************************************************************)
EXTENDS OrderLifecycle, TLC

CONSTANTS o1, farmer, stranger

LifecycleParties == (o1 :> {farmer})

Wish(by, to, version) == [order |-> o1, by |-> by, to |-> to, version |-> version]

LifecycleAsked ==
  {Wish(farmer, w[1], w[2]) : w \in
     {<<"PICKUP_SCHEDULED", 1>>, <<"CANCELLED", 1>>, <<"PICKUP_SCHEDULED", 2>>,
      <<"IN_TRANSIT", 2>>, <<"DISPUTED", 2>>, <<"DELIVERED", 3>>,
      <<"COMPLETED", 4>>, <<"DISPUTED", 5>>}}
    \union {Wish(stranger, "CANCELLED", 1)}

LifecycleSymmetry == Permutations(Handlers)
=============================================================================
