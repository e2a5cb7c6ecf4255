CONSTANTS
  t1 = t1
  t2 = t2
  Threads <- TwoThreads
  MaxHead = 2
  MaxWrites = 2
  MaxFailures = 1
SPECIFICATION FairSpec
INVARIANTS
  TypeOK
  AnsweredWritesAreShown
  ReopeningIsOnItsWay
PROPERTIES
  GateReopens
CHECK_DEADLOCK FALSE
