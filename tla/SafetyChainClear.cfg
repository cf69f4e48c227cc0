SPECIFICATION FairSpec
CONSTANTS
  Faults <- MCFaults
  TriggerAt <- MCTriggerAt
  RecoverAt <- MCRecoverAt
  TriggerTime <- MCTriggerTime
  RecoverTime <- MCRecoverTime
  Level1 <- MCLevel1
  Shutdown <- MCShutdown
  Ratio <- MCRatio
  SignalOf <- MCSignalOf
  Analog <- MCAnalog
  AllLost = "AllRackCommLost"
  OneLost = "OneRackCommLost"
  Signals <- MCSignals
  DiRows <- MCDiRows
  FireSignals = {2}
  FireFaults = {}
  Rbms = {1}
  Values <- MCValues
  Wrap = 4
  MaxGap = 1
  Horizon = 3
  Reads = {0, 1, 255}
PROPERTY FaultClears
