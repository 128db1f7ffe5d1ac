CONSTANTS
  w1 = w1
  w2 = w2
  w3 = w3
  c1 = c1
  c2 = c2
  Workers = {w1, w2, w3}
  Clients = {c1, c2}
  MaxJobs = 2
  Ahead = 2
SPECIFICATION FairSpec
INVARIANTS NoLostWakeup JobsOnce
PROPERTIES ImplementsService Answered DestroyReturns
