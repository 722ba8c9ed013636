----------------------------- MODULE AtomicSale -----------------------------
(***************************************************************************)
(* What the acceptance of an offer promises, with no transactions, locks,  *)
(* versions or calls: an open offer is sold in one indivisible step that   *)
(* draws its listing down, fills its demand and hands out the one receipt  *)
(* its key will ever give; or it is closed unsold.                         *)
(***************************************************************************)
EXTENDS Integers

CONSTANTS Offers, Listings, Demands, Slots, None, Terms, Stock, Wanted

VARIABLES
  book,      \* offer   -> "absent", "open", "closed" or "sold"
  left,      \* listing -> quantity still for sale
  filled,    \* demand  -> quantity bought for it
  receipt    \* slot    -> the offer that was sold under this key, or None

saleVars == <<book, left, filled, receipt>>

Init ==
  /\ book    = [o \in Offers |-> "absent"]
  /\ left    = [l \in Listings |-> Stock[l]]
  /\ filled  = [d \in Demands |-> 0]
  /\ receipt = [s \in Slots |-> None]

Move(o, from, to) == book[o] = from /\ book' = [book EXCEPT ![o] = to]

Post(o)  == Move(o, "absent", "open") /\ UNCHANGED <<left, filled, receipt>>
Close(o) == Move(o, "open", "closed") /\ UNCHANGED <<left, filled, receipt>>

Sell(s, o) ==
  LET l == Terms[o].listing
      d == Terms[o].demand
      n == Terms[o].qty
  IN  /\ Move(o, "open", "sold")
      /\ n <= left[l]
      /\ left' = [left EXCEPT ![l] = @ - n]
      /\ IF d = None
         THEN UNCHANGED filled
         ELSE /\ filled[d] + n <= Wanted[d].max
              /\ filled' = [filled EXCEPT ![d] = @ + n]
      /\ receipt[s] = None
      /\ receipt' = [receipt EXCEPT ![s] = o]

Next == \E o \in Offers : Post(o) \/ Close(o) \/ (\E s \in Slots : Sell(s, o))

Spec == Init /\ [][Next]_saleVars
=============================================================================
