SPECIFICATION FairSpec
CONSTANTS
  Runs <- OneRun
  NoRun = 0
  Calls = {1, 2}
  Asks <- Asked
  Moves = {"queued"}
  LifeTicks = 1
  WaitTicks = 1
  MaxRequests = 4
INVARIANTS PermittedWasApproved
PROPERTIES AnswersFinal CallsEnd
CHECK_DEADLOCK FALSE
