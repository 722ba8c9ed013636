----------------------------- MODULE BuyerSeeds -----------------------------
(***************************************************************************)
(* The rows of src/apps/buyer-web/src/lib/mockData.ts, numbered by the     *)
(* last digits of their ids, with what the model of the workspace tells    *)
(* apart.  Weights are in kilograms, those of demands in grams, and money  *)
(* is in paise.                                                            *)
(***************************************************************************)
EXTENDS Integers, Sequences

MOCK_LISTINGS ==
  LET Listed(crop, quantity, available) ==
        [crop |-> crop, status |-> "ACTIVE", quantity |-> quantity, available |-> available]
  IN  <<Listed("Tomato", 1000, 1000), Listed("Onion", 5000, 4000),
        Listed("Potato", 8000, 8000), Listed("Soybean", 12000, 12000)>>

MOCK_DEMANDS ==
  LET Demanded(by, crop, min, max, price, version) ==
        [status |-> "ACTIVE", version |-> version, by |-> by, crop |-> crop,
         min |-> 1000 * min, max |-> 1000 * max, price |-> price]
  IN  <<Demanded("BUYER", "Tomato", 2000, 10000, 3150, 3),
        Demanded("BUYER", "Onion", 5000, 25000, 2900, 5),
        Demanded("FPO", "Potato", 10000, 40000, 2150, 1)>>

MOCK_OFFERS ==
  <<[status |-> "ACCEPTED", version |-> 2, listing |-> 1, qty |-> 1000, price |-> 3100,
     order |-> {1}],
    [status |-> "PENDING", version |-> 1, listing |-> 2, qty |-> 3000, price |-> 2900,
     order |-> {}],
    [status |-> "PENDING", version |-> 1, listing |-> 3, qty |-> 5000, price |-> 2100,
     order |-> {}]>>

MOCK_ORDERS ==
  <<[status |-> "PICKUP_SCHEDULED", version |-> 3, gross |-> 3100000],
    [status |-> "DELIVERED", version |-> 5, gross |-> 5700000]>>

MOCK_GRIEVANCES == <<[status |-> "RESOLVED", by |-> "BUYER", order |-> 2]>>
=============================================================================
