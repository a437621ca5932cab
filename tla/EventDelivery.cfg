SPECIFICATION FairSpec
CONSTANTS
  t1 = t1
  t2 = t2
  c1 = c1
  Threads <- MCThreads
  Outlasting = {t2}
  Clients = {c1}
  Topics <- MCTopics
  Capacity = 1
  MaxEvents <- MCMaxEvents
INVARIANTS
  RowsInOrder
  NoneLost
  StreamFresh
PROPERTIES
  CloseReturns
CHECK_DEADLOCK FALSE
