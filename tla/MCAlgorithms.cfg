SPECIFICATION Spec
CONSTANTS
  NaN = NaN
  SocLower = 3000
  SocUpper = 9900
  N = 4
  RbmsNum = 4
  AllowDiff = 2
  MinClusters = 2
  CoolHigh = 35
  CircDelta = 5
  NotFinite = NaN
  kCon_RBMSNum = 2
  MaxReg = 2
  RackLists <- MCRackLists
  StackInputs <- MCStackInputs
  ClusterTables <- MCClusterTables
  Modes <- MCModes
  ControlInputs <- MCControlInputs
  Ranges <- MCRanges
  Databases <- MCDatabases
  Datings <- MCDatings
  PointLists <- MCPointLists
  Frames <- MCFrames
INVARIANTS
  StackShowsItsRacks
  ChosenSetIsLargest
  ControlSettles
  EmsSeesOneStack
  PointsReadRight
  FramesDecodeRight
CHECK_DEADLOCK FALSE
