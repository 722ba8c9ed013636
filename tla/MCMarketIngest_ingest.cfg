CONSTANTS
  None = None
  tomato = tomato
  onion = onion
  desi = desi
  m1 = m1
  m2 = m2
  demo = demo
  s1 = s1
  s2 = s2
  Calls = {c1, c2}
  Services <- BothServices
  Crops = {tomato, onion}
  CropOf <- Catalog
  Subjects <- Asked
  AsOf = {3, 4}
  Batches <- ProviderBatches
  DemoMandi <- TheDemoMandi
  DemoRow <- TheDemoRow
  LiveAge = 1
  CacheAge = 2
  Offset = 1
  Day = 3

SPECIFICATION Spec
SYMMETRY CallSymmetry
CHECK_DEADLOCK FALSE

INVARIANTS
  RecordsAreStoredOnce
  WholeBatchBehindLive
  FallbackTakesTheBest
  DeliveryIsHonest
