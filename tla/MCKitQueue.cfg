SPECIFICATION Spec
CONSTANTS
  Producers = {p1, p2}
  Consumers = {c1}
  Data = {d1, d2}
  NoData = NoData
  NoThread = NoThread
  Capacity = 3
PROPERTIES
  RefinesFifo
  CheckThenDequeueHolds
SYMMETRY Symmetry
