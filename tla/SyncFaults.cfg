SPECIFICATION Spec
CONSTANTS
  t1 = t1
  t2 = t2
  t3 = t3
  Run = {1, 2}
  Ticket <- MCTickets3
  MaxTickets = 2
  MaxAttempts = 2
  Concurrency = 2
  MaxCrashes = 0
  MaxFaults = 1
  MaxDisconnects = 1
SYMMETRY MCSymmetry
INVARIANTS
  
  
  TruncationReported
PROPERTY
  SettledIsFinalUntilCrash
