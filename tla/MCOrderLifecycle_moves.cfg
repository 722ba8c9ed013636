CONSTANTS
  None = None
  o1 = o1
  farmer = farmer
  stranger = stranger
  Orders = {o1}
  People = {farmer, stranger}
  Parties <- LifecycleParties
  Asked <- LifecycleAsked
  Handlers = {h1, h2}
  MaxTime = 1

SPECIFICATION Spec
SYMMETRY LifecycleSymmetry

INVARIANTS
  HistoryTellsStatus
  HistoryInTimeOrder
  OkMeansMoved
  RatedOrdersAreCompleted

PROPERTIES
  ImplementsStatusLog
