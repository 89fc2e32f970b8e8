SPECIFICATION FairSpec
CONSTANTS
  h1 = h1
  h2 = h2
  h3 = h3
  alice = alice
  bob = bob
  stopper = stopper
  None = None
  Handoffs <- Three
  People <- Members
  Stoppers <- AStop
  MaxDepth = 2
  MaxChildren = 2
  MaxParallel = 1
  MaxAttempts = 2
  MaxFaults = 1
  Scenes <- Together
INVARIANTS LimitsHeld TreeStopped
PROPERTIES EndUndoneByRaceOnly RunsEnd HandoffHears
CHECK_DEADLOCK FALSE
