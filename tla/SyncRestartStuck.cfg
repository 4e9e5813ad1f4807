SPECIFICATION FairSpec
CONSTANTS
  t1 = t1
  t2 = t2
  t3 = t3
  Run = {1}
  Ticket <- MCTickets
  MaxTickets = 2
  MaxAttempts = 2
  Concurrency = 2
  MaxCrashes = 1
  MaxFaults = 0
  MaxDisconnects = 0
PROPERTY
  RunsSettle
