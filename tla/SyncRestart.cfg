SPECIFICATION FairSpec
CONSTANTS
  t1 = t1
  t2 = t2
  t3 = t3
  Run = {1, 2}
  Ticket <- MCTicket
  MaxTickets = 1
  MaxAttempts = 2
  Concurrency = 2
  MaxCrashes = 1
  MaxFaults = 2
  MaxDisconnects = 1
INVARIANTS
  AtMostOneInFlight
  NoOrphanRun
PROPERTY
  EarlyCrashSettles
