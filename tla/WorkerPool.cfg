CONSTANTS
  w1 = w1
  c1 = c1
  c2 = c2
  a = a
  Workers <- MCWorkers
  Clients <- MCClients
  Items <- MCItems
  Nobody = nobody
SPECIFICATION FairSpec
INVARIANTS
  SleepersWillBeWoken
  BodiesAreExclusive
PROPERTIES
  WorkIsDone
