SPECIFICATION FairSpec
CONSTANTS
  PointNum = 2
  PollNum = 2
  Size = 2
  Retries = 2
  Modulus = 5
  Serial = FALSE
  MaxChanges = 2
  MaxPending = 2
  MaxFaults = 2
INVARIANTS
  TypeOK
  StoredFromItsPoll
  Settled
PROPERTIES
  NoWriteForgotten
  NoOlderValue
  WritesArrive
  PollsGoOn
