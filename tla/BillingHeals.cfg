SPECIFICATION FairSpec
CONSTANTS
  Sub <- MCOne
  Tab <- MCOne
  MaxChanges = 2
  MaxBusy = 2
  MaxGrants = 1
  MaxFaults = 1
CHECK_DEADLOCK FALSE
INVARIANTS
  ProIsReconcilable
PROPERTIES
  UnderProvisionedHeals
  OverProvisionedHeals
