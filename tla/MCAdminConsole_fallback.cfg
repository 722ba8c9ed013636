CONSTANTS
  None = None
  Visited <- AllPages
  Default <- DemoDefault
  URLs = {"", "there"}
  Tokens = {"t"}
  Servers = {"here", "there"}
  Lots = {l1, l2}
  MaxSteps = 1

SPECIFICATION Spec
CHECK_DEADLOCK FALSE

INVARIANTS
  LiveShowsNoFixtures
