---------------------------- MODULE ModbusPoints ----------------------------
(***************************************************************************)
(* bsp/bsp_modbus.c: from the configured points of a device to its polls   *)
(* and back.  The points are sorted into function codes (initPointModbus), *)
(* ordered by address (modbusSort) and cut into groups of consecutive      *)
(* registers (modbusMergeAddr); the answer to the poll of a group is       *)
(* handed out to the points by their place in the list, and bits are cut   *)
(* out of the points read (calcAlarmCall).                                 *)
(*                                                                         *)
(* A point is a record of func, addr, type and bits: bits is "none" for a  *)
(* register of its own, "alarm" when both bitPos and bitNum are given, and *)
(* "half" when only one of them is.  All points belong to one device, as   *)
(* every master has a list of its own.  The byte of a register holds its   *)
(* own number, 2 * addr and 2 * addr + 1, so that a stored value tells     *)
(* where it was read; the value of a coil is its address.                  *)
(***************************************************************************)
EXTENDS Integers, Sequences, SequencesExt, Ranking

CONSTANT MaxReg   \* registers after which a group is closed, 30

\* Functions 01 and 02 read bits, 03 and 04 registers; 05 to 10 only write.
BitFuncs == {"F01", "F02"}
RegFuncs == {"F03", "F04"}

Configuration ==
  Seq([func : BitFuncs \cup RegFuncs, addr : Nat, type : {"u8", "u16", "u32", "f64"},
       bits : {"none", "alarm", "half"}])

calcRegister(type) == [u8 |-> 1, u16 |-> 1, u32 |-> 2, f64 |-> 4][type]
Stale == -1   \* a byte behind the end of the answer
Bytes(type) == [u8 |-> 1, u16 |-> 2, u32 |-> 4, f64 |-> 8][type]
End(p) == p.addr + calcRegister(p.type) - 1

-----------------------------------------------------------------------------
(* The lists of a function code.  A point with half a bit field is in none.*)

Configured(points, func, bits) ==
  {i \in DOMAIN points : points[i].func = func /\ points[i].bits = bits}

\* The points of a list in an order of their places in the configuration.
InOrder(points, list, before) ==
  LET order == Ranked(list, {p \in list \X list : <<p[1], p[2]>> \in before})
  IN  [k \in DOMAIN order |-> points[order[k]]]

\* The bubble sort only swaps a greater address behind: it is stable.
modbusSort(points) ==
  {p \in (DOMAIN points) \X (DOMAIN points) :
     \/ points[p[1]].addr < points[p[2]].addr
     \/ points[p[1]].addr = points[p[2]].addr /\ p[1] < p[2]}
AsConfigured(points) == {p \in (DOMAIN points) \X (DOMAIN points) : p[1] < p[2]}

initPointModbus(points, func) == InOrder(points, Configured(points, func, "none"), modbusSort(points))
Alarms(points, func) == InOrder(points, Configured(points, func, "alarm"), AsConfigured(points))

-----------------------------------------------------------------------------
(* Groups.                                                                 *)

Joined(left, right, newLen) ==
  /\ right.addr - left.addr = 1 \/ End(left) + 1 = right.addr
  /\ newLen < MaxReg

\* mutant of Close: the last register of a wide point is left out
CloseShort(start, last) == [start |-> start, end |-> last.addr]

Close(start, last) == [start |-> start, end |-> End(last)]

modbusMergeAddr(list) ==
  LET merged[i \in 1 .. Len(list)] ==
        IF i = 1 THEN [groups |-> <<>>, start |-> list[1].addr, newLen |-> 0]
        ELSE IF Joined(list[i - 1], list[i], merged[i - 1].newLen)
        THEN [merged[i - 1] EXCEPT !.newLen = @ + calcRegister(list[i - 1].type)]
        ELSE [groups |-> Append(merged[i - 1].groups, Close(merged[i - 1].start, list[i - 1])),
              start |-> list[i].addr, newLen |-> 0]
      all == merged[Len(list)]
  IN  IF list = <<>> THEN <<>> ELSE Append(all.groups, Close(all.start, list[Len(list)]))

-----------------------------------------------------------------------------
(* Answers: value is the sequence of the values stored for the points.     *)

First(list, start) == SelectInSeq(list, LAMBDA p : p.addr = start)

mbParseFunc01Fun02Respond(list, group, value) ==
  LET first == First(list, group.start)
  IN  [i \in DOMAIN value |->
         IF i - first \in 0 .. group.end - group.start THEN <<group.start + (i - first)>> ELSE value[i]]

Consumed(type) == Bytes(type)

mbParseFunc03Fun04Respond(list, group, value) ==
  LET first == First(list, group.start)
      len == 2 * (group.end - group.start + 1)
      pos[i \in first .. Len(list)] == IF i = first THEN 0 ELSE pos[i - 1] + Consumed(list[i - 1].type)
  IN  [i \in DOMAIN value |->
         IF i >= first /\ pos[i] < len
         THEN [b \in 1 .. Bytes(list[i].type) |->
                 IF pos[i] + b <= len THEN 2 * group.start + pos[i] + b - 1 ELSE Stale]
         ELSE value[i]]

\* The values after every group of the function was polled and answered.
Answered(list, func, group, value) ==
  IF func \in BitFuncs THEN mbParseFunc01Fun02Respond(list, group, value)
  ELSE mbParseFunc03Fun04Respond(list, group, value)
Polled(points, func) ==
  LET list == initPointModbus(points, func)
      groups == modbusMergeAddr(list)
      polled[k \in 0 .. Len(groups)] ==
        IF k = 0 THEN [i \in DOMAIN list |-> <<>>] ELSE Answered(list, func, groups[k], polled[k - 1])
  IN  polled[Len(groups)]

\* The parent of an alarm point is the first point read at its address; 0 if
\* there is none, where the code leaves the index as malloc gave it.
initParseAlarmThread(points, func) ==
  [i \in DOMAIN Alarms(points, func) |->
     First(initPointModbus(points, func), Alarms(points, func)[i].addr)]

\* The bits of an alarm point are cut out of its parent's value.
calcAlarmCall(points, func) ==
  [i \in DOMAIN Alarms(points, func) |->
     Polled(points, func)[initParseAlarmThread(points, func)[i]]]

-----------------------------------------------------------------------------
(* Configurations: no two points of a function share a register, a coil is *)
(* one bit, and a register is never read as a single byte: the answer      *)
(* carries two bytes for it and mbParseFunc03Fun04Respond would take one.  *)

Readable(points) ==
  /\ \A i, j \in DOMAIN points :
       i # j /\ points[i].func = points[j].func /\ points[i].bits = "none" /\ points[j].bits = "none"
         => points[i].addr > End(points[j]) \/ points[j].addr > End(points[i])
  /\ \A i \in DOMAIN points :
       points[i].bits = "none" =>
         /\ points[i].func \in BitFuncs => calcRegister(points[i].type) = 1
         /\ points[i].func \in RegFuncs => points[i].type # "u8"

\* After a round of polls every point shows its own registers or coil, however
\* the points were grouped and whatever their order in the configuration, and
\* an alarm point shows bits of the register it names (initPointModbus to
\* calcAlarmCall).
PointsShowTheirRegisters(points) ==
  Readable(points) =>
    /\ \A func \in RegFuncs : \A i \in DOMAIN initPointModbus(points, func) :
         LET p == initPointModbus(points, func)[i]
         IN  Polled(points, func)[i] = [b \in 1 .. Bytes(p.type) |-> 2 * p.addr + b - 1]
    /\ \A func \in BitFuncs : \A i \in DOMAIN initPointModbus(points, func) :
         Polled(points, func)[i] = <<initPointModbus(points, func)[i].addr>>
    /\ \A func \in RegFuncs : \A i \in DOMAIN Alarms(points, func) :
         initParseAlarmThread(points, func)[i] # 0
           => calcAlarmCall(points, func)[i][1] = 2 * Alarms(points, func)[i].addr
=============================================================================
