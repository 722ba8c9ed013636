CONSTANTS
  None = None
  Resetting = Resetting
  farmer = farmer
  k1 = k1
  k2 = k2
  o1 = o1
  o2 = o2
  l1 = l1
  d1 = d1
  d2 = d2
  q1 = q1
  q2 = q2
  Farmers = {farmer}
  Keys = {k1, k2}
  Offers = {o1, o2}
  Listings = {l1}
  Demands = {d1, d2}
  Quotes = {q1, q2}
  Recs = {}
  Calls = {c1, c2}
  Commands <- PairCommands
  Owner <- SeedOwner
  Stock <- SeedStock
  Wanted <- SeedWanted
  Terms <- SeedTerms
  Quote <- SeedQuote
  Rec <- SeedRec
  MaxTime = 0
  DemoFarmer = farmer
  DemoOffers = {o1, o2}
  Script <- PairScript

SPECIFICATION FairDemoSpec

INVARIANTS
  AcceptedHasOneOrder
  ReceiptsNameOrders

PROPERTIES
  EveryResetEnds
  EveryCallEnds
