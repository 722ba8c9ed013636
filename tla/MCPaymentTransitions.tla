------------------------- MODULE MCPaymentTransitions -------------------------
(***************************************************************************)
(* A small instance of PaymentTransitions: a payment in DEMO mode and one  *)
(* in LIVE mode, every edge of the state machine and one edge too many by  *)
(* services, and the first edge by the endpoint.                           *)
(***************************************************************************)
EXTENDS PaymentTransitions, TLC

CONSTANTS demo, live

PaymentMode == (demo :> "DEMO") @@ (live :> "LIVE")

Wish(payment, from, to, via) ==
  [payment |-> payment, expected |-> from, to |-> to, via |-> via]

PaymentAsked ==
  {Wish(demo, e[1], e[2], "service") : e \in Edges \union {<<"PAID", "FAILED">>}}
    \union {Wish(demo, "PENDING", "PROCESSING", "endpoint"),
            Wish(live, "PENDING", "PROCESSING", "endpoint")}

PaymentSymmetry == Permutations(Handlers)
=============================================================================
