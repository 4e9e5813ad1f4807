SPECIFICATION ZyraChatSpec
CHECK_DEADLOCK FALSE
CONSTANTS
  Loop = {1, 2}
  Turn = {1, 2}
  MaxScenarios = 3
  BatchSize = 1
  MaxTurns = 3
PROPERTY StopHolds
