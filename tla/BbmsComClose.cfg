SPECIFICATION FairSpec
CONSTANTS
  Rbms = {1}
  SubLimit = 2
  SendCap = 1
  RbmsCap = 1
  ReplyCap = 1
  TelemetryCap = 1
  MaxCommands = 1
  MaxFlight = 1
  MaxBurst = 1
  Streams = FALSE
  MaxBreaks = 1
PROPERTIES
  CloseNoticed
