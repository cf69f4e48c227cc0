----------------------------- MODULE Statistics -----------------------------
(* app_bms_statistics.c: what the timer thread writes into the points of the *)
(* stack every second, computed from the points of its racks (RBMS devices). *)
(* A rack is a record: whether it is online, its active faults, and a number *)
(* for each of its points.  Floats are integers here.                        *)
EXTENDS Integers, SequencesExt, FiniteSetsExt, Ranking

CONSTANTS
  NaN,                  \* the float 0/0
  SocLower, SocUpper    \* 3000 and 9900, in hundredths of a percent

\* get_rbms_num and get_rbms_online: the numbers of the racks that are online.
get_rbms_num(racks) == Len(racks)
get_rbms_online(racks) == {i \in 1 .. get_rbms_num(racks) : racks[i].online}

\* The points of two tables, those of the first before those of the second.
f ++ g == [x \in DOMAIN f \cup DOMAIN g |-> IF x \in DOMAIN f THEN f[x] ELSE g[x]]

\* The loop of every statistic passes over the racks that are offline.
OnlineValues(p, racks) == {racks[i].at[p] : i \in get_rbms_online(racks)}

SumOf(numbers) ==
  LET sum[i \in 0 .. Len(numbers)] == IF i = 0 THEN 0 ELSE sum[i - 1] + numbers[i]
  IN  sum[Len(numbers)]

\* mutant of Sum: racks that are offline are summed, too.
SumAll(p, racks) == SumOf([i \in DOMAIN racks |-> racks[i].at[p]])
Sum(p, racks) == SumOf([i \in DOMAIN racks |-> IF racks[i].online THEN racks[i].at[p] ELSE 0])

\* Greatest value above 0 and least value below 65535.
Greatest(p, racks) == Max({0} \cup OnlineValues(p, racks))
Least(p, racks) == Min({65535} \cup OnlineValues(p, racks))

\* The loops that keep their extreme in the variable they have just read:
\* nothing is greater or less than itself, so they return the last value and,
\* as its place, the first rack.
Latest(p, start, racks) ==
  LET online == get_rbms_online(racks) IN IF online = {} THEN start ELSE racks[Max(online)].at[p]
PlaceUnset == 0
AtFirst(p, racks) == IF racks = <<>> THEN 0 ELSE racks[1].at[p]

Statistic(Op(_, _), points, racks) == [t \in DOMAIN points |-> Op(points[t], racks)]

-----------------------------------------------------------------------------
(* Tables: the points of the stack and the points of the racks they come from. *)

SummedPowers ==
  [MaxChrgE |-> "SoEC", MaxDisChrgE |-> "SoED",
   MaxContChrgPower |-> "SoFPulseChrgPwr", Max60sChrgPower |-> "SoFPulseChrgPwr",
   MaxContDisChrgPower |-> "SoFContDisChrgPwr", Max60sDisChrgPower |-> "SoFPulseDisChrgPwr",
   MaxContChrgCur |-> "SoFContChrgCurr", Max60sChrgCur |-> "SoFPulseChrgCurr"]
SummedCurrents ==
  [MaxContDisChrgCur |-> "SoFContDisChrgCurr", Max60sDisChrgCur |-> "SoFPulseDisChrgCurr"]
SummedBus == [TotalDCCur |-> "A_HighAccu"]
SummedEnergies ==
  [AccuChrgC |-> "AccuChrgAh2", AccuChrgE |-> "AccuChrgkWh2",
   AccuDisChrgC |-> "AccuDisChrgAh2", AccuDisChrgE |-> "AccuDisChrgkWh2",
   LstChEkWh |-> "LstChEkWh", LstDchEkWh |-> "LstDchEkWh"]
SummedCapacities == [MaxChrgCap |-> "ResChAvlCapAh", MaxDisChrgCap |-> "ResDischAvlCapAh"]

GreatestOf ==
  [MaxHvBoxTDegC |-> "HvBoxMaxTemp", MaxCellT |-> "ModTmpMax"]
LeastOf ==
  [MinHvBoxTDegC |-> "HvBoxMinTemp", MinCellT |-> "ModTmpMin"]
GreatestPole == [MaxPoleT |-> "MaxPoleTDegC"]
LeastPole == [MinPoleT |-> "MinPoleTDegC"]
GreatestBus == [DCBusV |-> "DCBusV"]
LeastIso == [IsoRPos |-> "IsoRPos", IsoRNeg |-> "IsoRNeg"]

LatestMost == [MaxRackCur |-> "A_HighAccu", MaxCellV |-> "CellVMax"]
LatestFewest == [MinRackCur |-> "A_HighAccu", MinCellV |-> "CellVMin"]
FirstOfCells ==
  [MaxVCellTrayNr |-> "MaxCellVMdulIdxNbr", MaxVCellNr |-> "MaxCellVMdulInnerIdxNbr",
   MinVCellRackNr |-> "CellVMinPstn"]
FirstOfLowCells ==
  [MinVCellTrayNr |-> "MinCellVMdulIdxNbr", MinVCellNr |-> "MinCellVMdulInnerIdxNbr"]
FirstOfTemps ==
  [MaxTCellTrayNr |-> "MaxTMdulIdxNbr", MinTCellTrayNr |-> "MinTMdulIdxNbr",
   MaxTCellNr |-> "MaxCellVMdulInnerIdxNbr", MinTCellNr |-> "MinCellVMdulInnerIdxNbr"]
PlacesUnset == {"MaxCurRackNr", "MinCurRackNr", "MaxVCellRackNr"}
TempPlacesUnset == {"MaxHvBoxTRackNr", "MinHvBoxTRackNr", "MaxTCellRackNr", "MinTCellRackNr"}

-----------------------------------------------------------------------------
(* Single statistics.                                                        *)

bms_bank_total_power_update(racks) ==
  SumOf([i \in DOMAIN racks |->
           IF racks[i].online THEN racks[i].at["DCBusV"] * racks[i].at["A_HighAccu"] ELSE 0]) \div 1000

\* The average cell voltage divides by the number of racks online, whatever it
\* is; the average temperature does not divide by 0.
bms_bank_avg_cell_v_update(racks) ==
  LET n == Cardinality(get_rbms_online(racks)) IN
  IF n = 0 THEN NaN ELSE Sum("CellVAvg", racks) \div n
bms_bank_avg_cell_t_deg_c_update(racks) ==
  LET n == Cardinality(get_rbms_online(racks)) IN
  IF n = 0 THEN 0 ELSE Sum("ModTmpAvg", racks) \div n

\* The first rack whose pole has the greatest, or the least, position.
PoleRack(p, start, Better(_, _), racks) ==
  LET moved == {i \in get_rbms_online(racks) : Better(racks[i].at[p], start)}
      best == {i \in moved : ~\E j \in moved : Better(racks[j].at[p], racks[i].at[p])}
  IN  IF best = {} THEN 1 ELSE Min(best)
bms_bank_max_pole_t_rack_nr_update(racks) ==
  PoleRack("MaxPoleTIdxNbr", 0, LAMBDA a, b : a > b, racks)
bms_bank_min_pole_t_rack_nr_update(racks) ==
  PoleRack("MinPoleTIdxNbr", 65535, LAMBDA a, b : a < b, racks)
PointOf(racks, i, p) == IF i \in DOMAIN racks THEN racks[i].at[p] ELSE 0

\* Dehumidifiers: the last one online.
bms_bank_hum_sensor_rh_update(dehumidifiers) == Latest("CurrentHumidity", 0, dehumidifiers)
bms_bank_tmp_sensor_rh_update(dehumidifiers) == Latest("CurrentTemp", 0, dehumidifiers)

\* The greatest self-discharge rate of a cell that is a percentage.
bms_bank_cell_discharge_rate_pct_update(racks) ==
  Max({0} \cup {v \in UNION {racks[i].sdrate : i \in get_rbms_online(racks)} : v <= 100})

\* The first rack whose state decides; without one, some rack that is connected.
Decide == {"NotConnected", "SOCProtection", "Fault"}
bms_bank_status_update(racks) ==
  LET deciding == {i \in get_rbms_online(racks) : racks[i].status \in Decide} IN
  IF deciding # {} THEN racks[Min(deciding)].status
  ELSE IF \E i \in get_rbms_online(racks) : racks[i].status = "Connected" THEN "Connected"
  ELSE "Allocation"

\* The first rack that charges or discharges; without one, the last that is full.
bms_bank_charge_status_update(racks) ==
  LET Those(states) == {i \in get_rbms_online(racks) : racks[i].charging \in states}
      moving == Those({"Discharge", "Charge"})
      full == Those({"FullDischarge", "FullCharge"})
  IN  IF moving # {} THEN racks[Min(moving)].charging
      ELSE IF full # {} THEN racks[Max(full)].charging ELSE "NotConnected"

\* bat_conn of the control configuration, as the command it stands for.
bms_bank_oper_status_update(conn) ==
  CASE conn \in {1, 2} -> "connect" [] conn = 3 -> "disconnect" [] OTHER -> "none"

\* The level-1 map and the disconnectors take racks that are offline with them.
bms_bank_rack_flt_lvl1_nbr_update(racks) ==
  {i \in DOMAIN racks : racks[i].at["BMSMaxFltLevel"] = 1}
ContactFaults == [epo |-> "EmergStopFault", cmbst_gas |-> "CombGasAlarm", fire_warn |-> "FireFault",
                  fire_fault |-> "FireModerateAlarm", fire_actuator |-> "FireExtremeAlarm",
                  qf_switch |-> "QF1CircuitBrkFault", spd |-> "SPD2SurgeFault",
                  expprf_fan |-> "ExproFanAlarm", expprf_fan_fault |-> "ExproFanAlarm"]
ContactOutputs == [green |-> "Green_Light", yellow |-> "Yellow_Light", red |-> "Red_Light",
                   door |-> "PCS_EStop"]
bms_bank_contact_st_update(racks, faults, outputs) ==
  {b \in DOMAIN ContactFaults : ContactFaults[b] \in faults}
  \cup {b \in DOMAIN ContactOutputs : ContactOutputs[b] \in outputs}
  \cup (IF \E i \in DOMAIN racks : "IslSwitchOpen" \in racks[i].faults THEN {"qs"} ELSE {})
  \cup (IF \E i \in DOMAIN racks : {"Aerosol1", "Aerosol2"} \cap racks[i].faults # {}
          THEN {"aerosol"} ELSE {})

\* Level 1 is the worst, 7 is none.  A fault of the stack counts while its
\* value is 1, whether it has been raised or not.
bms_get_bank_max_flt_level(values, levels) ==
  Min({7} \cup {levels[f] : f \in {g \in DOMAIN values : values[g] = 1}})

bms_get_total_fault_level(racks, lqd, bank) ==
  Min({7, lqd, bank} \cup OnlineValues("BMSMaxFltLevel", racks))

bms_bank_rack_enaNbr_update(racks) ==
  Cardinality({i \in get_rbms_online(racks) : "BatStrDis" \in racks[i].confail})
bms_bank_con_fail_update(racks) == UNION {racks[i].confail : i \in get_rbms_online(racks)}

bms_bank_proh_upgrade_flg_update(current) == IF current >= 10 THEN 1 ELSE 0

-----------------------------------------------------------------------------
(* State of charge and of health, from the configuration kept in between.    *)

\* Low and high racks protect the stack; between the limits the charge is
\* spread over the whole range.
Spread(lo, hi) ==
  SocLower + ((lo - SocLower) * (SocUpper - SocLower)) \div (SocUpper + (lo - SocLower) - hi)
Soc(socs) ==
  LET lo == Min({10000} \cup Range(socs))
      hi == Max({0} \cup Range(socs))
  IN  IF lo <= SocLower THEN lo ELSE IF hi >= SocUpper THEN hi ELSE Spread(lo, hi)

\* Both test the number of racks of the last calculation first, and it is only
\* set by a calculation: it stays 0.
bms_soc_statistics(count, racks) ==
  IF count = 0 THEN [count |-> 0, soc |-> 0]
  ELSE [count |-> Len(racks), soc |-> Soc([i \in DOMAIN racks |-> racks[i].at["SoC"]])]
bms_soh_statistics(count, racks, enabled) ==
  IF count = 0 THEN [count |-> 0, soh |-> 0]
  ELSE [count |-> Len(racks),
        soh |-> (SumOf([i \in DOMAIN racks |-> IF i \in enabled THEN racks[i].at["SoH"] ELSE 0]) % 65536)
                  \div Cardinality(enabled)]

-----------------------------------------------------------------------------
(* bms_bank_statistics_update, in the order of its writes.                   *)

UpdateState(racks, in) ==
  [BatSt |-> bms_bank_status_update(racks), ChSt |-> bms_bank_charge_status_update(racks),
   SysOperSt |-> bms_bank_oper_status_update(in.conn), PmtRkFltNum |-> in.minRacks,
   SetInverterSt |-> 0, RackFltLvl1Nbr |-> bms_bank_rack_flt_lvl1_nbr_update(racks),
   CntrSt |-> bms_bank_contact_st_update(racks, in.faults, in.outputs),
   SOC |-> bms_soc_statistics(0, racks).soc, SOH |-> bms_soh_statistics(0, racks, {}).soh,
   WtrSt |-> "WaterLeakAlarm" \in in.faults]
UpdateSums(racks) ==
  Statistic(Sum, SummedPowers ++ SummedCurrents ++ SummedBus ++ SummedEnergies ++ SummedCapacities, racks)
UpdateBus(racks, in) ==
  [HumSensorRH |-> bms_bank_hum_sensor_rh_update(in.dehumidifiers),
   TmpSensorRH |-> bms_bank_tmp_sensor_rh_update(in.dehumidifiers),
   StrCtrlHb |-> in.heart, TotalPower |-> bms_bank_total_power_update(racks)]
  ++ Statistic(Greatest, GreatestBus, racks)
UpdateCells(racks) ==
  Statistic(LAMBDA p, rs : Latest(p, 0, rs), LatestMost, racks)
  ++ Statistic(LAMBDA p, rs : Latest(p, 65535, rs), LatestFewest, racks)
  ++ Statistic(AtFirst, FirstOfCells ++ FirstOfLowCells ++ FirstOfTemps, racks)
  ++ [t \in PlacesUnset \cup TempPlacesUnset |-> PlaceUnset]
  ++ [AvgCellV |-> bms_bank_avg_cell_v_update(racks)]
UpdateFaults(racks, in) ==
  [ProhUpgradeFlg |-> bms_bank_proh_upgrade_flg_update(Sum("A_HighAccu", racks)),
   BMSMaxFltLevel |-> bms_get_total_fault_level(racks, in.lqdLevel, in.bankLevel),
   IDLearnSt |-> 0, IDLearnFaiLocationNbr |-> 0,
   RackEnaNbr |-> bms_bank_rack_enaNbr_update(racks),
   RackOnlineNbr |-> Cardinality(get_rbms_online(racks)),
   ConFail |-> bms_bank_con_fail_update(racks)]
  ++ Statistic(Least, LeastIso, racks)
UpdateTemperatures(racks) ==
  Statistic(Greatest, GreatestOf ++ GreatestPole, racks)
  ++ Statistic(Least, LeastOf ++ LeastPole, racks)
  ++ [AvgCellT |-> bms_bank_avg_cell_t_deg_c_update(racks)]
UpdatePoles(racks) ==
  LET hot == bms_bank_max_pole_t_rack_nr_update(racks)
      cold == bms_bank_min_pole_t_rack_nr_update(racks)
  IN  [MaxPoleTRackNr |-> hot, MaxPoleTMdulNr |-> PointOf(racks, hot, "MaxPoleTMdulIdxNbr"),
       MaxPoleTMdulInnerNr |-> PointOf(racks, hot, "MaxPoleTMdulInnerIdxNbr"),
       MinPoleTRackNr |-> cold, MinPoleTMdulNr |-> PointOf(racks, cold, "MinPoleTMdulIdxNbr"),
       MinPoleTMdulInnerNr |-> PointOf(racks, cold, "MinPoleTMdulInnerIdxNbr"),
       RTCnCMTimeVldFlg |-> 0, CellUsedMonth |-> 0,
       CellDischargeRatePct |-> bms_bank_cell_discharge_rate_pct_update(racks)]
\* The arrays with a value per rack, online or not.
UpdateArrays(racks) ==
  [t \in {"SoC", "SysMaxSOC", "SysMinSOC", "LstChCapAh", "RealSysCapAh", "LstDchCapAh"} |->
     [i \in DOMAIN racks |-> racks[i].at[t]]]

OnlineStatistics(racks, in) ==
  UpdateSums(racks) ++ UpdateBus(racks, in) ++ UpdateFaults(racks, in)
  ++ UpdateTemperatures(racks)
bms_bank_statistics_update(racks, in) ==
  UpdateState(racks, in) ++ OnlineStatistics(racks, in) ++ UpdateCells(racks)
  ++ UpdatePoles(racks) ++ [byRack |-> UpdateArrays(racks)]

-----------------------------------------------------------------------------
(* Properties, of the racks in the present state.                            *)

\* Racks in their order, each with a number for every point it has.
RackList(racks, names) ==
  /\ racks \in Seq(Range(racks))
  /\ \A i \in DOMAIN racks : racks[i].online \in BOOLEAN /\ racks[i].at \in [names -> Int]

\* The racks that are online, in their order.
OnlyOnline(racks) ==
  LET online == get_rbms_online(racks)
      order == Ranked(online, {p \in online \X online : p[1] < p[2]})
  IN  [k \in DOMAIN order |-> racks[order[k]]]

\* A rack that is offline leaves no trace: sums, averages, extremes, levels and
\* the state of charging are the same as if it did not exist.
OfflineLeaveNoTrace(racks, in) ==
  LET there == OnlyOnline(racks) IN
  /\ OnlineStatistics(racks, in) = OnlineStatistics(there, in)
  /\ bms_bank_status_update(racks) = bms_bank_status_update(there)
  /\ bms_bank_charge_status_update(racks) = bms_bank_charge_status_update(there)

\* One bad rack among good ones is not hidden, wherever it stands in the order:
\* the stack shows "connected" only if each rack online is usable, it has the
\* worst level of its racks, and the least isolation and extreme temperatures
\* that any of them has.
WorstRackShows(racks, in) ==
  LET bank == bms_bank_statistics_update(racks, in) IN
  \A i \in get_rbms_online(racks) :
    /\ racks[i].status \in Decide =>
         bank.BatSt \in Decide
    /\ bank.BMSMaxFltLevel <= racks[i].at["BMSMaxFltLevel"]
    /\ \A t \in DOMAIN LeastOf : bank[t] <= racks[i].at[LeastOf[t]]
    /\ \A t \in DOMAIN GreatestOf : bank[t] >= racks[i].at[GreatestOf[t]]
    /\ \A t \in DOMAIN LeastIso : bank[t] <= racks[i].at[LeastIso[t]]
=============================================================================
