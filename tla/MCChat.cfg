SPECIFICATION Spec
CONSTANTS
  t1 = t1
  t2 = t2
  t3 = t3
  d1 = d1
  d2 = d2
  Turns <- MCTurns
  Deleters <- MCDeleters
  MaxOpen = 2
  MaxCrashes = 1
SYMMETRY Symmetry
CHECK_DEADLOCK FALSE
INVARIANTS
  TypeOK
  AnswerKeepsItsQuestion
  AnsweredIsRemembered
  IndexedIsSearchable
  DeletionIsClean
