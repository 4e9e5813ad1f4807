SPECIFICATION RunsSpec
VIEW MCView
CONSTANTS
  c1 = c1
  c2 = c2
  p1 = p1
  b1 = b1
  None = None
  Case = {c1, c2}
  Plan = {p1}
  Cycle = {1, 2}
  Bug = {b1}
  Person = {}
  Chosen = {"Passed", "Retest"}
  Slot = {1, 2}
  MaxExecs = 2
  MaxRequests = 4
  SuiteOf <- MCSuiteOf
  P1 = {c1}
CHECK_DEADLOCK FALSE
INVARIANTS
  OneRowPerCase
  
  ShardsShareRun
  BugsConsistent
  
