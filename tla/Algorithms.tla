------------------------------ MODULE Algorithms ------------------------------
(* The algorithms that compute a result from their inputs: the first step       *)
(* chooses an algorithm and its inputs, and the invariants compare the result   *)
(* with what it should be.  The inputs are constants, so that a model can take  *)
(* small sets and a proof any sets of the inputs that the code can be given.    *)
EXTENDS Statistics, ClusterChoice, TmsStrategy, EmsMap, ModbusPoints, BmsFrames

CONSTANTS
  RackLists, StackInputs,         \* of the statistics
  ClusterTables,                  \* of the choice of clusters
  Modes, ControlInputs,           \* of the temperature control
  Ranges, Databases, Datings,     \* of the EMS: requests, faults, clocks to be set
  PointLists,                     \* of a Modbus master
  Frames                          \* of RBMS and host computer: a table and the bytes

VARIABLE in

\* The points of a rack that the statistics read.
RackNames ==
  {"SoEC", "SoED", "SoFPulseChrgPwr", "SoFContDisChrgPwr", "SoFPulseDisChrgPwr", "SoFContChrgCurr",
   "SoFPulseChrgCurr", "SoFContDisChrgCurr", "SoFPulseDisChrgCurr", "A_HighAccu", "AccuChrgAh2",
   "AccuChrgkWh2", "AccuDisChrgAh2", "AccuDisChrgkWh2", "LstChEkWh", "LstDchEkWh", "ResChAvlCapAh",
   "ResDischAvlCapAh", "HvBoxMaxTemp", "ModTmpMax", "HvBoxMinTemp", "ModTmpMin", "MaxPoleTDegC",
   "MinPoleTDegC", "DCBusV", "IsoRPos", "IsoRNeg", "CellVMax", "CellVMin", "MaxCellVMdulIdxNbr",
   "MaxCellVMdulInnerIdxNbr", "CellVMinPstn", "MinCellVMdulIdxNbr", "MinCellVMdulInnerIdxNbr",
   "MaxTMdulIdxNbr", "MinTMdulIdxNbr", "CellVAvg", "ModTmpAvg", "MaxPoleTIdxNbr", "MinPoleTIdxNbr",
   "BMSMaxFltLevel", "SoC", "SoH", "MaxPoleTMdulIdxNbr", "MaxPoleTMdulInnerIdxNbr",
   "MinPoleTMdulIdxNbr", "MinPoleTMdulInnerIdxNbr", "SysMaxSOC", "SysMinSOC", "LstChCapAh",
   "RealSysCapAh", "LstDchCapAh"}

ASSUME AlgorithmsAssumption ==
  /\ \A racks \in RackLists : RackList(racks, RackNames)
  /\ \A stack \in StackInputs : stack.lqdLevel \in Int /\ stack.bankLevel \in Int
  /\ \A cl \in ClusterTables : Measured(cl)
  /\ \A given \in ControlInputs : given.manual.enabled \in BOOLEAN
  /\ kCon_RBMSNum \in 0 .. 20
  /\ \A r \in Ranges : r.start \in 0 .. MaxAddr /\ r.n \in 1 .. MaxRegs
  /\ \A db \in Databases : FaultTables(db)
  /\ \A d \in Datings : d.clock \in Clocks /\ d.new \in Settable
  /\ PointLists \subseteq Configuration /\ MaxReg \in Nat

-----------------------------------------------------------------------------

ChooseRacks ==
  \E racks \in RackLists, stack \in StackInputs : in' = [of |-> "stack", racks |-> racks, stack |-> stack]
ChooseClusters == \E cl \in ClusterTables : in' = [of |-> "choice", clusters |-> cl]
ChooseControl ==
  \E s \in Modes, given \in ControlInputs : in' = [of |-> "control", state |-> s, given |-> given]
ChooseRange == \E r \in Ranges : in' = [of |-> "read", range |-> r]
ChooseFaults == \E db \in Databases : in' = [of |-> "db", db |-> db]
ChooseDates == \E d \in Datings : in' = [of |-> "clock", dates |-> d]
ChoosePoints == \E ps \in PointLists : in' = [of |-> "points", points |-> ps]
ChooseFrame == \E f \in Frames : in' = [of |-> "frame", frame |-> f]

Init == in = [of |-> "none"]

Next ==
  /\ in.of = "none"
  /\ \/ ChooseRacks \/ ChooseClusters \/ ChooseControl \/ ChooseRange \/ ChooseFaults \/ ChooseDates
     \/ ChoosePoints \/ ChooseFrame

Spec == Init /\ [][Next]_in

-----------------------------------------------------------------------------
\* The statistics of the stack show its racks: an offline rack leaves no trace,
\* and the worst of the others is not hidden (app_bms_statistics.c).
StackShowsItsRacks ==
  in.of = "stack" =>
    OfflineLeaveNoTrace(in.racks, in.stack) /\ WorstRackShows(in.racks, in.stack)

\* The clusters chosen may be connected and are as many as may be
\* (buildValidClusterSet).
ChosenSetIsLargest == in.of = "choice" => LargestSetChosen(in.clusters)

\* The temperature control settles at once when its inputs stay as they are
\* (tms_strategy_step).
ControlSettles ==
  in.of = "control" =>
    StrategySettles(in.state, [mode |-> in.state, temp |-> 22], in.given)

\* The EMS reads the same whatever range it asks for and whichever table a
\* fault is read from, and the clock it sets is the clock it then reads
\* (protocol_ems_modbus_map.c).
EmsSeesOneStack ==
  /\ in.of = "read" => EmsReadsAgree(in.range.start, in.range.n, in.range.present)
  /\ in.of = "db" => EmsTablesAgree(in.db)
  /\ in.of = "clock" => EmsClockSet(in.dates.clock, in.dates.new)

\* Every point shows the registers it is configured for (bsp_modbus.c).
PointsReadRight == in.of = "points" => PointsShowTheirRegisters(in.points)

\* Frames decode to what they were encoded from (protocol_bms_rbms.c and
\* protocol_bms_hmi.c).
FramesDecodeRight == in.of = "frame" => TableCoversFrames(in.frame.table, in.frame.data)
===============================================================================
