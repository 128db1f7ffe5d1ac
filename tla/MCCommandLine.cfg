CONSTANTS
  w1 = w1
  w2 = w2
  main = main
  Cli = main
  Workers = {w1, w2}
  Clients = {main}
  MaxJobs = 4
  Ahead = 2
  Failures = {"args", "store"}
SPECIFICATION FairCSpec
INVARIANTS OneCommand EndsShutDown
PROPERTIES ImplementsSession ExitEnds
