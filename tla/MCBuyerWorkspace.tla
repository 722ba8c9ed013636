-------------------------- MODULE MCBuyerWorkspace --------------------------
(***************************************************************************)
(* Two tabs of the buyer's workspace, with rows of the repository's seed.  *)
(* What is typed is on both sides of each rule of the forms: the offer of  *)
(* a whole number of rupees is refused, whatever it asks for.              *)
(***************************************************************************)
EXTENDS BuyerPages, BuyerSeeds, TLC

\* The first is posted, as a demand for nothing up to four tons.
TypedDemands ==
  LET Typed(min, max, price) ==
        [crop |-> "Onion", min |-> min, max |-> max, price |-> price]
  IN  {Typed(4, 40000000, 4), Typed(0, 40000000, 32000),
       Typed(40000000, 20000000, 32000), Typed(4, 4, 0)}

\* A lot whole, what is left of another and more than that.
TypedOffers ==
  [listing : {1}, qty : {1000}, price : {0, 3100}]
    \union [listing : {2}, qty : {0, 4000, 5000}, price : {2901}]

\* The storage fails at the first key, or not at all.
NoneOrAll == {{}, {"demands", "offers", "orders"}}

\* The first two rows of the longer lists.
TwoDemands == SubSeq(MOCK_DEMANDS, 1, 2)
TwoOffers == SubSeq(MOCK_OFFERS, 1, 2)

TabSymmetry == Permutations(Tabs)
=============================================================================
