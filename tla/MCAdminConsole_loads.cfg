CONSTANTS
  None = None
  Visited <- AllPages
  Default <- LiveDefault
  URLs = {"", "there"}
  Tokens = {"t"}
  Servers = {"here", "there"}
  Lots = {l1, l2}
  MaxSteps = 5

SPECIFICATION FairSpec
CHECK_DEADLOCK FALSE

INVARIANTS
  AdminTypeOK
  ReloadRestores
  RowsStemFromOwnContexts
  CurrentUnlessOvertaken
PROPERTIES
  
  LoadingEnds
