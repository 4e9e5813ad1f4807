SPECIFICATION FairSpec
CONSTANTS
  s1 = s1
  s2 = s2
  a = a
  b = b
  u1 = u1
  u2 = u2
  Source = {s1}
  Text = {a, b}
  User = {u1}
  MaxAttempts = 2
  MaxChanges = 1
  MaxEvictions = 0
  MaxCrashes = 0
  MaxFaults = 0
CHECK_DEADLOCK FALSE
PROPERTIES
  EditsReachIndex
