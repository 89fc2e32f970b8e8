SPECIFICATION FairSpec
CONSTANTS
  Requests = {1, 2}
  Messages = {1}
  Workers = {1, 2}
  MaxAttempts = 2
  MaxMishaps = 2
INVARIANTS Deduplicated RepeatedByMishapOnly StatusIsTrue
PROPERTIES DeliveriesEnd MessageAnswered
CHECK_DEADLOCK FALSE
