SPECIFICATION Spec
CONSTANTS
  Batch = 2
  TimedPoints <- TP
  FaultPoints <- FP
  EventPoints <- EP
  Values = {0, 1}
  RealEvery = 2
  EventEvery = 1
  DayEvery = 2
  KeepTimed = 0
  KeepFaults = 1
  KeepRecord = 0
  PurgeEvery = 2
  ConfigRows = 1
  Unknown = 9
  MaxNow = 2
  MaxRuns = 2
  MaxStoreFailures = 1
  MaxConf = 2
  Day = 9
  Night = {1, 2, 3}
  MaxSaves = 4
  MaxStarts = 2
  MaxQueries = 2
  MaxExport = 2
  Racks = {1, 2}
  Share = 10
  MFaults = {"hot", "smoke"}
  Derate <- Derating
  Enabled = {"one", "all"}
  LostTime = 2
  MaxFlips = 2
  N = 3
  RbmsNum = 3
  Volts = {0, 2, 3}
  AllowDiff = 2
  MinClusters = 2
  OnTimeout = 1
  OffTimeout = 1
  MaxChanges = 4
  Ids = {"A", "B"}
  Foreign = "x"
  CanQueueSize = 3
  MaxFrames = 4
  MaxTimeouts = 2
  MaxClients = 2
  MaxConnections = 3
  MaxSends = 2
  DevNum = 2
  Requests = 2
  Transactions = 7
  LostAfter = 2
  MaxDeviceFaults = 3
INVARIANTS
  ServicesTypeOK
  ChangesStoredOnce
  
  ChangesNoticed
  RequestsServedOnce
  StackFaultsAgree
  SelectionCounted
  QuietFrameReachesAll
  StoredForItsDevice
PROPERTIES
  KeptForItsPeriod
  NeverOlder
CHECK_DEADLOCK FALSE
