SPECIFICATION FairSpec
CONSTANTS
  w1 = w1
  w2 = w2
  d1 = d1
  d2 = d2
  Nobody = Nobody
  Workers = {w1, w2}
  Docs = {d1, d2}
  Log <- MCLog
  Deletions <- MCDeletions
  MaxSyncs = 3
  Budgets <- MCBudgets
  Scenes <- MCScenes
INVARIANTS ChangesKept OpenRunHeld
PROPERTIES NotStranded
CHECK_DEADLOCK FALSE
