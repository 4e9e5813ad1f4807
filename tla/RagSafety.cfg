SPECIFICATION Spec
CONSTANTS
  s1 = s1
  s2 = s2
  a = a
  b = b
  u1 = u1
  u2 = u2
  Source = {s1}
  Text = {a, b}
  User = {u1, u2}
  MaxAttempts = 2
  MaxChanges = 2
  MaxEvictions = 1
  MaxCrashes = 1
  MaxFaults = 1
SYMMETRY MCSymmetry
CHECK_DEADLOCK FALSE
INVARIANTS
  ReadyMeansIndexed
  ChunksMatchHash
  NoJobBeforeTranscript
