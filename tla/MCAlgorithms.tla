----------------------------- MODULE MCAlgorithms -----------------------------
(* Small sets of inputs for the algorithms, with every border that they have.  *)
EXTENDS Algorithms, TLC

-----------------------------------------------------------------------------
(* Inputs of the statistics: racks in any order, each with one value for all   *)
(* of its points, so that the rack behind a statistic shows in it.             *)

Rack ==
  {[online |-> o, status |-> s, charging |-> c, faults |-> {}, confail |-> {}, sdrate |-> {v},
    at |-> [p \in RackNames |-> v]] :
     o \in BOOLEAN, s \in {"NotConnected", "Connected", "Fault"}, c \in {"Charge", "Standing"}, v \in {1, 4}}
MCRackLists == UNION {[1 .. n -> Rack] : n \in 1 .. 3}
MCStackInputs ==
  {[conn |-> 1, minRacks |-> 1, faults |-> {}, outputs |-> {}, dehumidifiers |-> <<>>,
    heart |-> 0, lqdLevel |-> 5, bankLevel |-> 7]}

-----------------------------------------------------------------------------
(* Four clusters, usable or not, with voltages up to twice the difference      *)
(* allowed.                                                                    *)

Cluster == {[online |-> u, ready |-> TRUE, fault |-> FALSE, volt |-> v, on |-> FALSE] :
              u \in BOOLEAN, v \in 0 .. 4}
MCClusterTables == [0 .. 3 -> Cluster]

-----------------------------------------------------------------------------
(* Temperatures around every threshold, from every state.                      *)

Defaults == [coolMax |-> 30, coolAvg |-> 27, coolExitMax |-> 26, coolExitAvg |-> 24,
             heatMin |-> 8, heatAvg |-> 12, heatExitMin |-> 14, heatExitAvg |-> 18]
Temperatures == {[max |-> a, min |-> b, avg |-> c] :
                   a \in {7, 20, 25, 30, 35}, b \in {7, 14, 20}, c \in {7, 12, 18, 22, 24, 27}}
MCModes == {"SHUTDOWN", "CIRCULATE", "COOLING", "HEATING"}
MCControlInputs ==
  {[manual |-> [enabled |-> manual, mode |-> "COOLING", temp |-> 15], t |-> t,
    rtdb |-> [k \in DOMAIN Defaults |-> IF k = odd THEN 40 ELSE NotFinite],
    defaults |-> Defaults, charge |-> charge, racks |-> {}] :
     t \in Temperatures, manual \in BOOLEAN, charge \in {"Charge", "Discharge", "Standing"},
     odd \in {"none", "coolExitMax", "heatExitMin"}}

-----------------------------------------------------------------------------
(* Register ranges around every border of the EMS map, faults of two racks,    *)
(* and dates at the ends of months.                                            *)

Edges == {0, 1, 99, 100, 499, 500, 503, 699, 700, 3099, 3100, 6099, 6100, 60099, 60100, 60230,
          61599, 61600, 65535}
MCRanges ==
  {[start |-> start, n |-> n, present |-> present] :
     start \in {edge + off : edge \in Edges, off \in {-1, 0, 1}} \cap 0 .. 65535,
     n \in {1, 2, 100, 125}, present \in {{}, {"Lqd"}}}
EmsRacks == [online : BOOLEAN, faults : SUBSET {1, 12, 271}]
MCDatabases == {[racks |-> 0 :> r0 @@ 1 :> r1, mFaults |-> {49}, level |-> 1] : r0, r1 \in EmsRacks}
Dates == [year : {2024, 2025}, month : {1, 2, 12}, day : {1, 28, 29, 31}, hour : {0, 23},
          minute : {0, 59}, second : {0}]
MCDatings == [clock : Dates, new : Dates]

-----------------------------------------------------------------------------
(* Up to three Modbus points in any order, and tables of two fields with the   *)
(* bytes of a frame.                                                           *)

SmallPoints ==
  {p \in [func : {"F01", "F03"}, addr : 0 .. 4, type : {"u16", "u32", "f64"}, bits : {"none", "alarm"}] :
     /\ p.func = "F01" => p.type = "u16"
     /\ p.bits = "alarm" => p.type = "u16" /\ p.func = "F03"}
MCPointLists == UNION {[1 .. n -> SmallPoints] : n \in 1 .. 3}

Field == {<<"u8", 3>>, <<"u8", 5>>, <<"u8", 8>>, <<"s8", 8>>, <<"u16", 16>>, <<"s16", 16>>, <<"s8", 4>>}
Attr(id, start, field, off, rep, coeff) ==
  [pointId |-> id, dataIdx |-> start \div 8, dataBitLen |-> field[2], dataStartBit |-> start,
   dataType |-> field[1], coeff |-> coeff, offset |-> off, maxVal |-> 300, minVal |-> -200,
   repeatCnt |-> rep]
Table(f, g, off, rep, coeff) ==
  <<Attr(10, 0, f, off, rep, coeff), Attr(20, f[2] * (IF rep = 0 THEN 1 ELSE rep), g, 0, 0, 1)>>

MCFrames ==
  {[table |-> Table(f, g, off, rep, coeff), data |-> [i \in 1 .. 6 |-> (a + b * i) % 256]] :
     f \in Field, g \in Field, off \in {0, -40}, rep \in {0, 2}, coeff \in {1, 2},
     a \in {0, 127, 200, 255}, b \in {0, 1, 85}}
===============================================================================
