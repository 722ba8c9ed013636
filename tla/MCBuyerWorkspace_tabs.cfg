CONSTANTS
  None = None
  Tabs = {a, b}
  DemoByDefault = TRUE
  Epoch = 10
  SeedListings <- MOCK_LISTINGS
  SeedDemands <- TwoDemands
  SeedOffers <- TwoOffers
  SeedOrders <- MOCK_ORDERS
  SeedGrievances <- MOCK_GRIEVANCES
  FirstOrder = 1
  Addresses = {2, 3}
  DemandForms <- TypedDemands
  OfferForms <- TypedOffers
  Removals <- NoneOrAll
  MaxEdits = 2

SPECIFICATION Spec
SYMMETRY TabSymmetry

INVARIANTS
  CurrentTabsAgree
  PostedRowsAreSound
  PagesAgree
PROPERTIES
  FinishedRowsStay
