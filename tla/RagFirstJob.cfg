SPECIFICATION FairSpec
CONSTANTS
  s1 = s1
  s2 = s2
  a = a
  b = b
  u1 = u1
  u2 = u2
  Source = {s1, s2}
  Text = {a}
  User = {}
  MaxAttempts = 2
  MaxChanges = 0
  MaxEvictions = 0
  MaxCrashes = 1
  MaxFaults = 0
CHECK_DEADLOCK FALSE
PROPERTIES
  CreatedIsProcessed
  FirstJobSettles
