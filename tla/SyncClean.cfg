SPECIFICATION FairSpec
CONSTANTS
  t1 = t1
  t2 = t2
  t3 = t3
  Run = {1, 2}
  Ticket <- MCTickets
  MaxTickets = 2
  MaxAttempts = 3
  Concurrency = 2
  MaxCrashes = 0
  MaxFaults = 0
  MaxDisconnects = 1
INVARIANTS
  CountersExact
  SettledMeansLanded
PROPERTY
  ImplementsSyncRun
  
