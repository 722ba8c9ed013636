------------------------- MODULE MCOfferAcceptance -------------------------
(***************************************************************************)
(* Small instances of OfferAcceptance.                                     *)
(***************************************************************************)
EXTENDS OfferAcceptance, TLC

CONSTANTS farmer, k1, k2, o1, o2, l1, d1, q1, q2, r1

Request(actor, key, offer, lv, quote, rec, cost) ==
  [actor |-> actor, key |-> key, offer |-> offer, offerVersion |-> 1,
   listingVersion |-> lv, quote |-> quote, rec |-> rec, cost |-> cost]

(***************************************************************************)
(* Race: two offers on one listing for one demand that exhaust both if     *)
(* they sell in the right order, one key that is sent for either offer,    *)
(* and two versions of the listing.  At time 1 the first offer has expired *)
(* and one of the second one's two quotes; the recommendation and the      *)
(* demand's window have not.                                               *)
(***************************************************************************)

RaceOwner == (l1 :> farmer)
RaceStock == (l1 :> 3)
RaceWanted == (d1 :> [max |-> 3, from |-> 0, until |-> 1, fits |-> {o1, o2}])
RaceTerms ==
  (o1 :> [listing |-> l1, demand |-> d1, qty |-> 1, expires |-> 1]) @@
  (o2 :> [listing |-> l1, demand |-> d1, qty |-> 2, expires |-> 2])
RaceQuote ==
  (q1 :> [listing |-> l1, demand |-> d1, expires |-> 1, cost |-> 5]) @@
  (q2 :> [listing |-> l1, demand |-> d1, expires |-> 2, cost |-> 4])
RaceRec == (r1 :> [offers |-> {o2}, quotes |-> {q2}, expires |-> 2])
RaceCommands ==
  {Request(farmer, k1, o1, 2, q1, None, 5),
   Request(farmer, k1, o2, 2, q2, r1, 4),
   Request(farmer, k2, o2, 3, q1, None, 5)}

NoRecs == [r \in {} |-> r]

RaceSymmetry == Permutations(Calls)

(***************************************************************************)
(* Scarce: the same two offers, but less of everything than they ask for.  *)
(***************************************************************************)

ScarceStock == (l1 :> 2)
ScarceWanted == (d1 :> [max |-> 2, from |-> 0, until |-> 0, fits |-> {o1, o2}])

(***************************************************************************)
(* Duplicates: one farmer repeats a key, for either offer, and uses        *)
(* another one.                                                            *)
(***************************************************************************)

DuplicateCommands ==
  {Request(farmer, k1, o, 2, q1, None, 5) : o \in {o1, o2}}
    \union {Request(farmer, k2, o2, 2, q1, None, 5)}
=============================================================================
