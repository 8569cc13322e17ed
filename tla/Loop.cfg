CONSTANTS
  N = 2
  main = main
  stopper = stopper
  nobody = nobody
  a = a
  b = b
  Workers <- MCWorkers
  Clients <- MCClients
  Items <- MCItems
  Main <- main
  Stopper <- stopper
  Nobody <- nobody
  MayThrow = TRUE
SPECIFICATION FairSpec
INVARIANTS
  MainExclusive
  Barrier
  NoLostWakeup
PROPERTIES
  ThrownWedges
  RoundsSpec
  RoundsGoOn
  TerminateTakesEffect
