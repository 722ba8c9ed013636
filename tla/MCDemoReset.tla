----------------------------- MODULE MCDemoReset -----------------------------
(***************************************************************************)
(* The demo: one listing and two offers that each ask for all of it, each  *)
(* for a demand of its own buyer.                                          *)
(***************************************************************************)
EXTENDS DemoReset, TLC

CONSTANTS farmer, k1, k2, o1, o2, l1, d1, d2, q1, q2

Demand(o) == IF o = o1 THEN d1 ELSE d2

SeedOwner  == (l1 :> farmer)
SeedStock  == (l1 :> 1)
SeedWanted ==
  [d \in Demands |-> [max |-> 1, from |-> 0, until |-> 0,
                      fits |-> {o \in Offers : Demand(o) = d}]]
SeedTerms  ==
  [o \in Offers |-> [listing |-> l1, demand |-> Demand(o), qty |-> 1, expires |-> 1]]
SeedQuote  ==
  [q \in Quotes |-> [listing |-> l1, demand |-> IF q = q1 THEN d1 ELSE d2,
                     expires |-> 1, cost |-> 5]]
SeedRec    == [r \in {} |-> r]

PairScript == <<<<"listing", l1>>, <<"demand", d1>>, <<"demand", d2>>,
                <<"offer", o1>>, <<"offer", o2>>>>

Request(key, offer, quote) ==
  [actor |-> farmer, key |-> key, offer |-> offer, offerVersion |-> 1,
   listingVersion |-> 1, quote |-> quote, rec |-> None, cost |-> 5]

\* A key for each offer, which is sent again after a reset.
PairCommands == {Request(k1, o1, q1), Request(k2, o2, q2)}
=============================================================================
