SPECIFICATION Spec
CONSTANTS
  PointNum = 2
  PollNum = 2
  Size = 2
  Retries = 2
  Modulus = 5
  Serial = TRUE
  MaxChanges = 2
  MaxPending = 2
  MaxFaults = 2
PROPERTY NoWriteForgotten
