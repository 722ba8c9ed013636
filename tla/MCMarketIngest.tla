--------------------------- MODULE MCMarketIngest ---------------------------
(***************************************************************************)
(* A provider that sends a record twice with different contents, one in    *)
(* tonnes, a record that cannot be stored behind one that can, and one     *)
(* from the future, to services with and without provider and demo.        *)
(***************************************************************************)
EXTENDS MarketIngest, TLC

CONSTANTS tomato, onion, desi, m1, m2, demo, s1, s2

Price(n) == [min |-> n - 1, modal |-> n, max |-> n + 1]
Sent(market, crop, variety, at, source, unit, n) ==
  [market |-> market, crop |-> crop, variety |-> variety, at |-> at,
   source |-> source, unit |-> unit] @@ Price(n)

early  == Sent(m1, tomato, None, 1, s1, "kg", 30)
late   == Sent(m1, tomato, desi, 3, s2, "tonne", 30004)
other  == Sent(m1, tomato, None, 1, s1, "kg", 31)
future == Sent(m2, tomato, None, 5, None, "quintal", 3050)
crate  == Sent(m2, tomato, None, 3, s1, "crate", 30)
wrong  == Sent(m2, onion, desi, 3, s1, "kg", 30)

ProviderBatches ==
  {<<early, late>>, <<late, other>>, <<early, crate>>, <<wrong>>, <<future>>}

\* One process with everything, and one with nothing.
BothServices == {[provider |-> x, demo |-> x] : x \in BOOLEAN}
Asked   == {[crop |-> tomato, variety |-> None], [crop |-> tomato, variety |-> desi]}
Catalog == (desi :> tomato)

TheDemoMandi == [market |-> demo, by |-> None]
TheDemoRow ==
  [mandi |-> TheDemoMandi, crop |-> tomato, variety |-> None, at |-> 0,
   source |-> None, prices |-> Price(31), mode |-> "DEMO"]

CallSymmetry == Permutations(Calls)
=============================================================================
