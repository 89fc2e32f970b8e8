SPECIFICATION FairSpec
CONSTANTS
  Bots = {1, 2}
  Callers = {1, 2}
  Orders = {3, 4}
  Scenes <- MCScenes
  MaxRunning = 1
  Attempts = 2
  MaxFaults = 1
INVARIANTS CapacityHeld StaleOnlyWhenOvertaken
PROPERTIES BuiltClean EnsuresEnd
CHECK_DEADLOCK FALSE
