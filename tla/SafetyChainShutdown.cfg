SPECIFICATION FairSpec
CONSTANTS
  Faults <- OffFaults
  TriggerAt <- OffTriggerAt
  RecoverAt <- OffRecoverAt
  TriggerTime <- OffTriggerTime
  RecoverTime <- OffRecoverTime
  Level1 <- OffFaults
  Shutdown <- OffFaults
  Ratio <- OffRatio
  SignalOf <- OffSignalOf
  Analog = {}
  AllLost = "AllRackCommLost"
  OneLost = "OneRackCommLost"
  Signals <- MCSignals
  DiRows <- MCDiRows
  FireSignals = {2}
  FireFaults = {}
  Rbms = {1, 2}
  Values <- MCValues
  Wrap = 4
  MaxGap = 1
  Horizon = 3
  Reads = {0}
PROPERTY ShutdownReaches
