SPECIFICATION CSpec
CONSTANTS
  w1 = w1
  Nobody = Nobody
  NoRun = 0
  Runs <- OneRun
  Workers <- Single
  Sources = {"routine"}
  AskedAttempts = {2}
  Patches <- None
  LeaseTicks = 1
  RetryTicks = 1
  Concurrency = 1
  RecoverBatch = 20
  MayCrash <- None
  MaxFaults = 0
  MaxClaims = 2
  LifeTicks = 1
  WaitTicks = 1
  MaxRequests = 2
INVARIANTS ActsOnApproval
PROPERTIES OnlyAnswersResume
CHECK_DEADLOCK FALSE
