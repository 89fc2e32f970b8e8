SPECIFICATION FairSpec
CONSTANTS
  s1 = s1
  s2 = s2
  q1 = q1
  p1 = p1
  p2 = p2
  Names = {1, 2}
  Schedulers = {s1, s2}
  Requests = {q1}
  People = {p1, p2}
  Limits = {1, 2}
  MaxTime = 2
  MaxFaults = 1
  Scenes <- MCScenes
INVARIANTS WorkedOnce OnIsScheduled
PROPERTIES DueIsWorked
CHECK_DEADLOCK FALSE
