CONSTANTS
  None = None
  farmer = farmer
  k1 = k1
  k2 = k2
  o1 = o1
  o2 = o2
  l1 = l1
  d1 = d1
  q1 = q1
  q2 = q2
  r1 = r1
  Farmers = {farmer}
  Keys = {k1, k2}
  Offers = {o1, o2}
  Listings = {l1}
  Demands = {d1}
  Quotes = {q1, q2}
  Recs = {r1}
  Calls = {c1, c2, c3}
  Commands <- RaceCommands
  Owner <- RaceOwner
  Stock <- RaceStock
  Wanted <- RaceWanted
  Terms <- RaceTerms
  Quote <- RaceQuote
  Rec <- RaceRec
  MaxTime = 1

SPECIFICATION Spec
SYMMETRY RaceSymmetry
CHECK_DEADLOCK FALSE

INVARIANTS
  AcceptedIffOneOrder
  QuantityConserved
  StatusTellsQuantity
  ReceiptsMatchOrders
  OrderAsAcknowledged

PROPERTIES
  SellsWhatWasSeen
  DecisionsAreFinal
  RetryGetsTheOrder
  ImplementsAtomicSale
