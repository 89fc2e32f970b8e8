SPECIFICATION FairSpec
CONSTANTS
  MaxSends = 3
  MaxButtons = 1
  MaxFailures = 1
INVARIANTS SaidOnce InTurn
PROPERTIES ParkedGoesOn
CHECK_DEADLOCK FALSE
