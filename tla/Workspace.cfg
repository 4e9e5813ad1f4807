SPECIFICATION MCSpec
VIEW MCView
CHECK_DEADLOCK FALSE
CONSTANTS
  Tc = {1, 2, 3}
  Suite = {1, 2, 3}
  Title = {"a"}
  SuiteName = {"x"}
  Writer = {1, 2}
  Pinned = {1, 2}
  Attempts = 2
  ChunkSize = 1
  File <- MCFile
  MaxCalls = 3
  Field = {1}
  Item = {1, 2}
  Label = {"p", "q"}
  Option = {1, 2}
  Desk = {1, 2}
  MaxAsks = 4
  Person = {1, 2, 3}
  Org = {1, 2}
  Project = {1, 2, 3}
  Invite = {1, 2}
  Clerk = {1, 2}
  ProjectLimit = 1
  KeyAttempts = 3
  MaxRequests = 4
  Email = {1}
  Session = {1, 2}
  Secret = {1, 2}
  Pending = {1, 2}
  Booth = {1, 2}
  MaxVisits = 6
  Folder = {1, 2, 3}
  Doc = {1}
  KbFile = {1}
  Comment = {1, 2}
  Mirror = {1}
  Member = {1, 2}
  Manager = {1}
  Tray = {1, 2}
  MaxActs = 4
  Task = {1}
  Worker = {1, 2, 3}
  MaxDrafts = 2
  MaxClicks = 5
  Loop = {1, 2}
  Turn = {1, 2}
  MaxScenarios = 2
  BatchSize = 1
  MaxTurns = 3
  ZCase = {1, 2}
  OpLimit = 2
  MaxMeddles = 2
  HProject = {1, 2}
  PwSuite <- MCSuites
  KnownCase = {1}
  PwRetries = 1
  Tries = 2
  PCase = {1, 2}
  PSuite = {1}
  PJob = {1, 2}
  MaxEvents = 4
  Column = {1, 2, 3}
  Locked = {1}
  Unshown = {3}
  OldPrefs <- MCPrefs
  MaxDrags = 3
  SJob = {1, 2}
  MaxPresses = 4
  Target = {1, 2}
  MaxSteps = 3
INVARIANTS
  RepositoryAgrees
  FieldsSound
  AccessHolds
  SignInHolds
  
  TasksHold
  
  
  
  ReporterHolds
  PageHolds
  ColumnsHold
  
  
