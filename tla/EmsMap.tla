------------------------------- MODULE EmsMap -------------------------------
(* The Modbus TCP slave for the EMS: protocol_ems_modbus_map.c gives the      *)
(* registers their meaning, protocol_ems_modbus_server.c and                  *)
(* bsp_modbusSlave.c answer requests.  Registers are told apart by the point  *)
(* that they show; as built the start of this server is commented out.        *)
EXTENDS Integers, SequencesExt, FiniteSetsExt

CONSTANT kCon_RBMSNum   \* the racks that are configured

Point(dev, nr, point) == [dev |-> dev, nr |-> nr, point |-> point]
Zero == Point("none", 0, 0)
NoRack == [rack |-> -1, off |-> -1]
MaxAddr == 65535

\* Function codes 0x03, 0x04, 0x10 take up to 125 registers, 0x02 takes bits.
MaxRegs == 125
MaxBits == 2000

-----------------------------------------------------------------------------
(* Discrete inputs.  Faults are numbered: the first twelve of both tables are *)
(* the same ones, others have numbers of their own, AfeHardware is 0.         *)

s_bank_disc(i) ==
  CASE i \in (1 .. 48) \cup {50} \cup (52 .. 55) \cup (70 .. 78) -> [kind |-> "RBMS_OR", faults |-> {i}]
    [] i \in {79, 80} -> [kind |-> "RBMS_OR", faults |-> {0, i}]
    [] i \in {49, 51} \cup (81 .. 122) -> [kind |-> "M_FAULT", faults |-> {i}]
    [] i = 56 -> [kind |-> "MAXFLT", faults |-> {2, 3}]
    [] i = 57 -> [kind |-> "MAXFLT", faults |-> {1}]
    [] OTHER -> [kind |-> "ZERO", faults |-> {}]

s_rack_disc(i) ==
  CASE i = 56 -> [kind |-> "RBMS_BIT", faults |-> {0}]
    [] i \in 1 .. 12 -> [kind |-> "RBMS_BIT", faults |-> {i}]
    [] i \in ({0} \cup (13 .. 150)) \ {56, 70} -> [kind |-> "RBMS_BIT", faults |-> {200 + i}]
    [] OTHER -> [kind |-> "ZERO", faults |-> {}]

\* The number 0 is not taken for a fault: the answer is 0xFF.
get_rbms_fault_bit(db, rack, f) ==
  IF f = 0 THEN 255 ELSE IF f \in db.racks[rack].faults THEN 1 ELSE 0

bms_bank_rbms_fault_or(db, f) ==
  \E r \in 0 .. kCon_RBMSNum - 1 : db.racks[r].online /\ get_rbms_fault_bit(db, r, f) # 0

ems_eval_disc_entry(db, entry, rack) ==
  \E f \in entry.faults :
    \/ entry.kind = "RBMS_OR" /\ bms_bank_rbms_fault_or(db, f)
    \/ entry.kind = "RBMS_BIT" /\ get_rbms_fault_bit(db, rack, f) # 0
    \/ entry.kind = "M_FAULT" /\ f \in db.mFaults
    \/ entry.kind = "MAXFLT" /\ db.level = f

\* mutant of ems_map_read_discrete_bit: the table starts at address 1, as its
\* comment says.
ReadDiscreteFromOne(db, addr) ==
  LET rel == addr - 200 IN
  \/ addr \in 1 .. 199 /\ ems_eval_disc_entry(db, s_bank_disc(addr - 1), -1)
  \/ addr >= 200 /\ rel \div 200 < kCon_RBMSNum /\ ems_eval_disc_entry(db, s_rack_disc(rel % 200), rel \div 200)

ems_map_read_discrete_bit(db, addr) ==
  LET rel == addr - 200 IN
  \/ addr \in 1 .. 199 /\ ems_eval_disc_entry(db, s_bank_disc(addr), -1)
  \/ addr >= 200 /\ rel \div 200 < kCon_RBMSNum /\ ems_eval_disc_entry(db, s_rack_disc(rel % 200), rel \div 200)

\* The bits read, or <<>> when the request is refused.
ems_modbus_read_discrete_inputs(db, start, n) ==
  IF start + n - 1 > MaxAddr \/ start = 0 THEN <<>>
  ELSE [i \in 1 .. n |-> ems_map_read_discrete_bit(db, start + i - 1)]

-----------------------------------------------------------------------------
(* Input registers.  present: the types of periphery that are configured.     *)

\* A physical value in units of its least step; the register holds the number
\* of resolutions above the offset, rounded, within 16 bits.
ems_encode_u16(physical, resolution, offset) ==
  IF physical < offset THEN 0
  ELSE Min({65535, (2 * (physical - offset) + resolution) \div (2 * resolution)})

BankPoints == ((1 .. 22) \ {18, 20}) \cup (24 .. 37)
ems_read_bank_input_reg(addr) == IF addr \in BankPoints THEN Point("BBMS", 0, addr) ELSE Zero

ems_decode_rack_input_addr(addr) ==
  IF addr < 100 \/ addr - 100 >= 3000 * kCon_RBMSNum THEN NoRack
  ELSE [rack |-> (addr - 100) \div 3000, off |-> (addr - 100) % 3000]

Arrays == {[dev |-> "CellVolt", start |-> 101, count |-> 700, kept |-> 416],
           [dev |-> "CellTemp", start |-> 801, count |-> 700, kept |-> 416],
           [dev |-> "PoleTemp", start |-> 1501, count |-> 160, kept |-> 128],
           [dev |-> "PackTemp", start |-> 1661, count |-> 40, kept |-> 16]}
ArrayOf(off) == {a \in Arrays : off \in a.start .. a.start + a.count - 1}
ems_read_rack_input_array(rack, off) ==
  LET a == CHOOSE b \in ArrayOf(off) : TRUE
      j == off - a.start
  IN  IF j < a.kept THEN Point(a.dev, rack, j) ELSE Zero

RackPoints == ((0 .. 44) \ {33, 35}) \cup ((2101 .. 2152) \ {2117, 2119, 2121, 2123, 2125, 2130, 2132, 2138})
ems_read_rack_input_sox_packed == {2138, 2153}
ems_read_rack_input_reg(rack, off) ==
  CASE ArrayOf(off) # {} -> ems_read_rack_input_array(rack, off)
    [] off \in ems_read_rack_input_sox_packed -> Point("SOX", rack, off)
    [] off \in RackPoints -> Point("RBMS", rack, off)
    [] OTHER -> Zero

ExtPoints == [
  Meter |-> (60100 .. 60114) \cup {60116, 60127},
  UPS |-> {60121, 60123, 60125, 60129, 60130, 60132, 60133, 60134, 60136, 60138, 60140},
  Lqd |-> (60146 .. 60181) \cup {60189, 60190, 60217, 60218, 60222, 60224, 60225, 60228},
  dehumidifier |-> {60187, 60188, 60191, 60219, 60226, 60227, 60229} \cup (60197 .. 60202),
  TempSensor |-> {60220}, HumiditySensor |-> {60221, 60223}]
ems_get_dev_count_by_type(present, dev) == dev \in present
ems_read_ext_input_reg(addr, present) ==
  LET dev == {d \in DOMAIN ExtPoints : addr \in ExtPoints[d]} IN
  CASE addr \in 60208 .. 60211 -> Point("M_FAULT", 0, addr)
    [] \E d \in dev : ems_get_dev_count_by_type(present, d) -> Point(CHOOSE d \in dev : TRUE, 0, addr)
    [] OTHER -> Zero

InBank(addr) == addr \in 1 .. 99
InRack(addr) == ems_decode_rack_input_addr(addr) # NoRack
InExt(addr) == addr \in 60100 .. 61599
InHold(addr) == addr \in 500 .. 699

ems_rack_input_same_segment(a, b) ==
  InRack(a) /\ InRack(b) /\ ems_decode_rack_input_addr(a).rack = ems_decode_rack_input_addr(b).rack

\* The registers read, or <<>> when the request is refused.
ems_read_rack(addr) ==
  LET d == ems_decode_rack_input_addr(addr) IN ems_read_rack_input_reg(d.rack, d.off)
ems_modbus_read_input_registers(start, n, present) ==
  LET end == start + n - 1 IN
  IF end > MaxAddr \/ InHold(start) \/ InHold(end) THEN <<>>
  ELSE IF InBank(start) /\ InBank(end) THEN [i \in 1 .. n |-> ems_read_bank_input_reg(start + i - 1)]
  ELSE IF ems_rack_input_same_segment(start, end) THEN [i \in 1 .. n |-> ems_read_rack(start + i - 1)]
  ELSE IF InExt(start) /\ InExt(end) THEN [i \in 1 .. n |-> ems_read_ext_input_reg(start + i - 1, present)]
  ELSE <<>>

-----------------------------------------------------------------------------
(* Holding registers: the clock at 524 to 529, all others read 0.             *)

Skipped == {501, 503}
Fields == <<"year", "month", "day", "hour", "minute", "second">>
IsRtc(addr) == addr \in 524 .. 529
RtcField(addr) == Fields[addr - 523]
ems_hold_range_is_valid(start, end) ==
  InHold(start) /\ InHold(end) /\ Skipped \cap (start .. end) = {}

Days(y, m) ==
  CASE m \in {4, 6, 9, 11} -> 30
    [] m = 2 -> IF y % 4 = 0 /\ (y % 100 # 0 \/ y % 400 = 0) THEN 29 ELSE 28
    [] OTHER -> 31

\* mktime carries the days that a month does not have into the next one.
kit_set_rtc_time(rtc) ==
  LET days == Days(rtc.year, rtc.month) IN
  IF rtc.day <= days THEN rtc ELSE [rtc EXCEPT !.month = @ + 1, !.day = @ - days]

Accepted(field) ==
  CASE field = "year" -> 0 .. 100 [] field = "month" -> 1 .. 12 [] field = "day" -> 1 .. 31
    [] field = "hour" -> 0 .. 23 [] OTHER -> 0 .. 59

ems_read_hold_reg(addr, clock) ==
  IF ~IsRtc(addr) THEN 0
  ELSE IF RtcField(addr) = "year" THEN clock.year - 2000 ELSE clock[RtcField(addr)]

ems_hold_apply_rtc_field(addr, value, clock) ==
  [clock EXCEPT ![RtcField(addr)] = IF RtcField(addr) = "year" THEN value + 2000 ELSE value]

ems_write_hold_reg(addr, value, clock) ==
  IF ~IsRtc(addr) THEN [ok |-> addr \notin Skipped /\ InHold(addr), clock |-> clock]
  ELSE IF value \notin Accepted(RtcField(addr)) THEN [ok |-> FALSE, clock |-> clock]
  ELSE [ok |-> TRUE, clock |-> kit_set_rtc_time(ems_hold_apply_rtc_field(addr, value, clock))]

\* Every register is applied on its own: the clock is set up to six times, and
\* what comes before a value that is refused stays set.
ems_modbus_write_multiple_hold_registers(start, values, clock) ==
  IF ~ems_hold_range_is_valid(start, start + Len(values) - 1) THEN [ok |-> FALSE, clock |-> clock]
  ELSE LET applied[i \in 0 .. Len(values)] ==
             IF i = 0 THEN [ok |-> TRUE, clock |-> clock]
             ELSE IF applied[i - 1].ok THEN ems_write_hold_reg(start + i - 1, values[i], applied[i - 1].clock)
             ELSE applied[i - 1]
       IN  applied[Len(values)]

ems_modbus_read_hold_registers(start, n, clock) ==
  IF ~ems_hold_range_is_valid(start, start + n - 1) THEN <<>>
  ELSE [i \in 1 .. n |-> ems_read_hold_reg(start + i - 1, clock)]

-----------------------------------------------------------------------------
(* Answers.  A request is [tid, fun, addr, n, values]; the send buffer keeps  *)
(* the transaction of the last answer.                                        *)

Handled == {2, 3, 4, 6, 16}
Exception(tid, code, clock) == [tid |-> tid, error |-> code, data |-> <<>>, clock |-> clock]
Answer(tid, data, clock) == [tid |-> tid, error |-> 0, data |-> data, clock |-> clock]
Reading(req, data, clock) == IF data = <<>> THEN Exception(req.tid, 2, clock) ELSE Answer(req.tid, data, clock)
Writing(req, done) == IF done.ok THEN Answer(req.tid, <<>>, done.clock) ELSE Exception(req.tid, 2, done.clock)

\* Function code 5 has no handler and is refused; for codes that are not known
\* the answer goes out with the transaction of the answer before.
stdModbusTcpSlavespondCall(last, req, db, present, clock) ==
  CASE req.fun = 5 -> Exception(req.tid, 1, clock)
    [] req.fun \notin Handled \cup {5} -> Exception(last, 1, clock)
    [] req.fun = 2 /\ req.n \in 1 .. MaxBits ->
         Reading(req, ems_modbus_read_discrete_inputs(db, req.addr, req.n), clock)
    [] req.fun = 3 /\ req.n \in 1 .. MaxRegs ->
         Reading(req, ems_modbus_read_hold_registers(req.addr, req.n, clock), clock)
    [] req.fun = 4 /\ req.n \in 1 .. MaxRegs ->
         Reading(req, ems_modbus_read_input_registers(req.addr, req.n, present), clock)
    [] req.fun = 6 -> Writing(req, ems_write_hold_reg(req.addr, req.values[1], clock))
    [] req.fun = 16 /\ req.n \in 1 .. MaxRegs ->
         Writing(req, ems_modbus_write_multiple_hold_registers(req.addr, req.values, clock))
    [] OTHER -> Exception(req.tid, 2, clock)

-----------------------------------------------------------------------------
(* Properties.                                                               *)

\* The faults of the racks by their numbers; times of the clock, and those that
\* its registers can carry.
FaultTables(db) == db.racks \in [0 .. kCon_RBMSNum - 1 -> [online : BOOLEAN, faults : SUBSET Nat]]
Clocks == [year : Nat, month : 1 .. 12, day : 1 .. 31, hour : 0 .. 23, minute : 0 .. 59, second : 0 .. 59]
Settable == {c \in Clocks : c.year \in 2000 .. 2100}

\* For any range of input registers: it is answered just when each of its
\* registers can be read alone and all belong to the stack, to one rack, or to
\* the periphery; and the answer is what they read alone.
EmsReadsAgree(start, n, present) ==
  LET Read(addr, k) == ems_modbus_read_input_registers(addr, k, present)
      Device(addr) == IF InRack(addr) THEN ems_decode_rack_input_addr(addr).rack
                      ELSE IF InBank(addr) THEN -1 ELSE -2
      addrs == start .. start + n - 1
      alone == /\ start + n - 1 <= MaxAddr
               /\ \A addr \in addrs : Read(addr, 1) # <<>> /\ Device(addr) = Device(start)
  IN  /\ (Read(start, n) # <<>>) = alone
      /\ alone => \A addr \in addrs : Read(start, n)[addr - start + 1] = Read(addr, 1)[1]

\* The fault bits of the stack and those of its racks, which come from two
\* tables, tell the same: a bit of the stack is set just when it is set for a
\* rack that is online.  And a mended rack shows no fault, AfeHardware aside.
EmsTablesAgree(db) ==
  /\ \A f \in 1 .. 12 :
       ems_map_read_discrete_bit(db, f) =
         \E r \in 0 .. kCon_RBMSNum - 1 : db.racks[r].online /\ ems_map_read_discrete_bit(db, 200 + 200 * r + f)
  /\ \A r \in 0 .. kCon_RBMSNum - 1 : db.racks[r].faults = {} =>
       \A i \in (0 .. 199) \ {56} : ~ems_map_read_discrete_bit(db, 200 + 200 * r + i)

\* A date and time written over the clock register by register is what the
\* clock shows then, provided no month lacks the day that the clock had.
EmsClockSet(clock, new) ==
  LET values == <<new.year - 2000, new.month, new.day, new.hour, new.minute, new.second>>
      done == ems_modbus_write_multiple_hold_registers(524, values, clock)
  IN  clock.day <= 28 /\ new.day <= Days(new.year, new.month) =>
        /\ done.ok /\ done.clock = new
        /\ ems_modbus_read_hold_registers(524, 6, done.clock) = values
=============================================================================
