SPECIFICATION FairSpec
CONSTANTS
  s1 = s1
  s2 = s2
  Streams = {s1, s2}
  Protobuf = {s2}
  Stall = 2
INVARIANTS EndedOnce
PROPERTIES OnlySilenceEnds SilenceIsEnded
CHECK_DEADLOCK FALSE
