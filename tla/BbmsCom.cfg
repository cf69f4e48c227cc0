SPECIFICATION Spec
CONSTANTS
  Rbms = {1, 2}
  SubLimit = 3
  SendCap = 1
  RbmsCap = 1
  ReplyCap = 1
  TelemetryCap = 1
  MaxCommands = 2
  MaxFlight = 1
  MaxBurst = 0
  Streams = FALSE
  MaxBreaks = 1
INVARIANTS
  TypeOK
  DeliveredInOrder
  InOnePlace
  ShelteredSurvive
  AnswersInOrder
