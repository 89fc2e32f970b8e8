SPECIFICATION FairSpec
CONSTANTS
  w1 = w1
  w2 = w2
  Nobody = Nobody
  Runs <- OneRun
  Workers <- Pair
  Sources = {"delegation", "external"}
  AskedAttempts = {0, 2}
  Patches <- ByHand
  LeaseTicks = 1
  RetryTicks = 1
  Concurrency = 2
  RecoverBatch = 20
  MayCrash <- Crashing
  MaxFaults = 1
  MaxClaims = 2
INVARIANTS OneExecution ToldOnceAndTrue AttemptsBounded
PROPERTIES FollowsLifecycle RecoverableFinishes SourceHears
CHECK_DEADLOCK FALSE
