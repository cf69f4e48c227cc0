--------------------------- MODULE Algorithms_proofs ---------------------------
(* What the algorithms of module Algorithms compute, for all of their inputs:    *)
(* the command to the TMS (TmsStrategy), the register map of the EMS (EmsMap),   *)
(* the statistics of the stack (Statistics), and the points of a Modbus master   *)
(* (ModbusPoints).  The choice of clusters is in Stack_proofs, with the lemmas   *)
(* about the order of a set and its least element that are needed here, too.     *)
EXTENDS Algorithms, Stack_proofs

-----------------------------------------------------------------------------
(* The command to the TMS.                                                   *)

\* A mode is kept by the step that follows it.
LEMMA ModeIsKept ==
  ASSUME NEW s, NEW t, NEW th
  PROVE  NextMode(NextMode(s, t, th), t, th) = NextMode(s, t, th)
<1> DEFINE c == Chosen(t, th)
<1>1. CASE s = "COOLING" /\ ~CoolDone(t, th)
  BY <1>1 DEF NextMode
<1>2. CASE s = "HEATING" /\ ~HeatDone(t, th)
  BY <1>2 DEF NextMode
<1>3. CASE NextMode(s, t, th) = c
  <2>1. NextMode(c, t, th) = c
    BY DEF NextMode
  <2>2. QED
    BY <1>3, <2>1
<1>4. QED
  BY <1>1, <1>2, <1>3 DEF NextMode

\* With any thresholds and any temperatures the temperature control settles at
\* once while its inputs stay as they are (tms_strategy_step).
THEOREM TmsControlSettles ==
  ASSUME NEW s, NEW was, NEW given, given.manual.enabled \in BOOLEAN
  PROVE  StrategySettles(s, was, given)
<1> DEFINE first == tms_strategy_step(s, was, given)
           second == tms_strategy_step(first.state, first.shown, given)
           th == Thresholds(given.rtdb, given.defaults)
           next == NextMode(s, given.t, th)
           target == [mode |-> next, temp |-> TargetTemp(next, given.charge, given.racks)]
<1>1. CASE given.manual.enabled
  <2>1. second = first
    BY <1>1 DEF tms_strategy_step
  <2>2. QED
    BY <1>1, <2>1 DEF StrategySettles
<1>2. CASE ~given.manual.enabled
  <2>1. first = [state |-> next, target |-> target, shown |-> target]
    BY <1>2 DEF tms_strategy_step
  <2>2. NextMode(next, given.t, th) = next
    BY ModeIsKept
  <2> HIDE DEF next
  <2>3. tms_strategy_step(next, target, given) = [state |-> next, target |-> target, shown |-> target]
    BY <1>2, <2>2 DEF tms_strategy_step
  <2>4. first.state = next /\ first.shown = target /\ first.target = target
    BY <2>1
  <2>5. second = first
    BY <2>1, <2>3, <2>4
  <2> HIDE DEF first, second, target
  <2>6. first.shown = first.target
    BY <2>4
  <2>7. QED
    BY <2>5, <2>6 DEF StrategySettles, first, second
<1>3. QED
  BY <1>1, <1>2

-----------------------------------------------------------------------------
(* Requests of the EMS for a range of input registers.                       *)

\* The register at an address, asked for alone.
Register(addr, present) ==
  IF InBank(addr) THEN ems_read_bank_input_reg(addr)
  ELSE IF InRack(addr) THEN ems_read_rack(addr)
  ELSE ems_read_ext_input_reg(addr, present)

\* The ranges that are answered.
Served(start, end) ==
  /\ end <= MaxAddr /\ ~InHold(start) /\ ~InHold(end)
  /\ \/ InBank(start) /\ InBank(end)
     \/ ems_rack_input_same_segment(start, end)
     \/ InExt(start) /\ InExt(end)

\* The rack of an address, from the bounds of its segment.
LEMMA RackOfAddress ==
  ASSUME kCon_RBMSNum \in Nat, NEW a \in Nat
  PROVE  /\ InRack(a) <=> 100 <= a /\ a < 100 + 3000 * kCon_RBMSNum
         /\ InRack(a) =>
              LET k == ems_decode_rack_input_addr(a).rack
              IN  k \in 0 .. kCon_RBMSNum - 1 /\ 100 + 3000 * k <= a /\ a < 100 + 3000 * (k + 1)
BY SMT DEF InRack, ems_decode_rack_input_addr, NoRack

\* Addresses of the stack, of the racks and of the periphery are different ones.
LEMMA AreasDiffer ==
  ASSUME kCon_RBMSNum \in 0 .. 20, NEW a \in Nat
  PROVE  /\ InBank(a) => ~InRack(a) /\ ~InExt(a) /\ ~InHold(a)
         /\ InRack(a) => ~InExt(a)
         /\ InExt(a) => ~InHold(a)
BY RackOfAddress DEF InBank, InExt, InHold

\* A range is answered with the register at each of its addresses, or refused.
LEMMA RangeRead ==
  ASSUME kCon_RBMSNum \in 0 .. 20, NEW start \in Nat, NEW n \in 1 .. MaxRegs, NEW present
  PROVE  ems_modbus_read_input_registers(start, n, present) =
           IF Served(start, start + n - 1) THEN [i \in 1 .. n |-> Register(start + i - 1, present)]
           ELSE <<>>
<1> DEFINE end == start + n - 1
           served == [i \in 1 .. n |-> Register(start + i - 1, present)]
           read == ems_modbus_read_input_registers(start, n, present)
<1>1. end \in Nat /\ start <= end
      /\ \A i \in 1 .. n : start + i - 1 \in Nat /\ start + i - 1 \in start .. end
  BY DEF MaxRegs
<1>2. CASE ~Served(start, end)
  <2>1. read = <<>>
    BY <1>2, <1>1 DEF ems_modbus_read_input_registers, Served, MaxAddr
  <2>2. QED
    BY <1>2, <2>1
<1>3. CASE Served(start, end) /\ InBank(start) /\ InBank(end)
  <2>1. \A i \in 1 .. n : InBank(start + i - 1)
    BY <1>1, <1>3 DEF InBank
  <2>2. served = [i \in 1 .. n |-> ems_read_bank_input_reg(start + i - 1)]
    BY <2>1 DEF Register
  <2>3. read = [i \in 1 .. n |-> ems_read_bank_input_reg(start + i - 1)]
    BY <1>1, <1>3 DEF ems_modbus_read_input_registers, Served, MaxAddr
  <2>4. QED
    BY <1>3, <2>2, <2>3
<1>4. CASE Served(start, end) /\ ems_rack_input_same_segment(start, end)
  <2>1. \A i \in 1 .. n : InRack(start + i - 1)
    BY <1>1, <1>4, RackOfAddress DEF ems_rack_input_same_segment
  <2>2. \A i \in 1 .. n : ~InBank(start + i - 1)
    BY <1>1, <2>1, AreasDiffer
  <2>3. ~InBank(start)
    BY <1>4, AreasDiffer DEF ems_rack_input_same_segment
  <2>4. served = [i \in 1 .. n |-> ems_read_rack(start + i - 1)]
    BY <2>1, <2>2 DEF Register
  <2>5. read = [i \in 1 .. n |-> ems_read_rack(start + i - 1)]
    BY <1>1, <1>4, <2>3 DEF ems_modbus_read_input_registers, Served, MaxAddr
  <2>6. QED
    BY <1>4, <2>4, <2>5
<1>5. CASE Served(start, end) /\ InExt(start) /\ InExt(end)
  <2>1. \A i \in 1 .. n : InExt(start + i - 1)
    BY <1>1, <1>5 DEF InExt
  <2>2. \A i \in 1 .. n : ~InBank(start + i - 1) /\ ~InRack(start + i - 1)
    BY <1>1, <2>1, AreasDiffer
  <2>3. ~InBank(start) /\ ~InRack(start)
    BY <1>5, AreasDiffer
  <2>4. served = [i \in 1 .. n |-> ems_read_ext_input_reg(start + i - 1, present)]
    BY <2>2 DEF Register
  <2>5. read = [i \in 1 .. n |-> ems_read_ext_input_reg(start + i - 1, present)]
    BY <1>1, <1>5, <2>3 DEF ems_modbus_read_input_registers, ems_rack_input_same_segment, Served, MaxAddr
  <2>6. QED
    BY <1>5, <2>4, <2>5
<1>6. QED
  BY <1>2, <1>3, <1>4, <1>5 DEF Served

\* Where a register belongs: the number of its rack, the stack or the periphery.
Area(a) == IF InRack(a) THEN ems_decode_rack_input_addr(a).rack ELSE IF InBank(a) THEN -1 ELSE -2

\* A range of at most 125 registers is answered just when each of its registers
\* is and all belong to the same: it is too short to reach over the registers
\* 500 to 699 of the clock.
LEMMA ServedTogether ==
  ASSUME kCon_RBMSNum \in 0 .. 20, NEW start \in Nat, NEW end \in Nat,
         start <= end, end < start + MaxRegs
  PROVE  Served(start, end) <=>
           end <= MaxAddr /\ \A a \in start .. end : Served(a, a) /\ Area(a) = Area(start)
<1>1. ASSUME Served(start, end), NEW a \in start .. end
      PROVE  Served(a, a) /\ Area(a) = Area(start)
  <2>1. a \in Nat /\ a <= MaxAddr
    BY <1>1 DEF Served, MaxAddr
  <2>2. CASE InBank(start) /\ InBank(end)
    <3>1. InBank(a)
      BY <2>2 DEF InBank
    <3>2. ~InRack(a) /\ ~InRack(start) /\ ~InHold(a)
      BY <2>1, <2>2, <3>1, AreasDiffer
    <3>3. QED
      BY <2>1, <2>2, <3>1, <3>2 DEF Served, Area
  <2>3. CASE ems_rack_input_same_segment(start, end)
    <3> DEFINE k == ems_decode_rack_input_addr(start).rack
               m == ems_decode_rack_input_addr(a).rack
    <3>1. InRack(start) /\ InRack(end) /\ ems_decode_rack_input_addr(end).rack = k
      BY <2>3 DEF ems_rack_input_same_segment
    <3>2. k \in 0 .. kCon_RBMSNum - 1 /\ 100 + 3000 * k <= start /\ end < 100 + 3000 * (k + 1)
          /\ end < 100 + 3000 * kCon_RBMSNum /\ 100 <= start
      BY <3>1, RackOfAddress
    <3>3. InRack(a)
      BY <2>1, <3>2, RackOfAddress
    <3>4. m \in 0 .. kCon_RBMSNum - 1 /\ 100 + 3000 * m <= a /\ a < 100 + 3000 * (m + 1)
      BY <2>1, <3>3, RackOfAddress
    <3> HIDE DEF k, m
    <3>5. m = k
      BY <2>1, <3>2, <3>4
    <3>6. InRack(a) /\ ems_decode_rack_input_addr(a).rack = ems_decode_rack_input_addr(start).rack
      BY <3>3, <3>5 DEF k, m
    <3>7. ~InHold(a)
      BY <1>1, <2>1 DEF InHold, Served, MaxRegs
    <3>8. QED
      BY <2>1, <2>3, <3>6, <3>7 DEF Served, Area, ems_rack_input_same_segment
  <2>4. CASE InExt(start) /\ InExt(end)
    <3>1. InExt(a)
      BY <2>4 DEF InExt
    <3>2. ~InRack(a) /\ ~InRack(start) /\ ~InHold(a) /\ ~InBank(a) /\ ~InBank(start)
      BY <2>1, <2>4, <3>1, AreasDiffer
    <3>3. QED
      BY <2>1, <2>4, <3>1, <3>2 DEF Served, Area
  <2>5. QED
    BY <1>1, <2>2, <2>3, <2>4 DEF Served
<1>2. ASSUME end <= MaxAddr, \A a \in start .. end : Served(a, a) /\ Area(a) = Area(start)
      PROVE  Served(start, end)
  <2>1. Served(start, start) /\ Served(end, end) /\ Area(end) = Area(start)
    BY <1>2
  <2>2. CASE InRack(start)
    <3>1. Area(start) \in Nat
      BY <2>2, RackOfAddress DEF Area
    <3>2. InRack(end)
      BY <2>1, <3>1 DEF Area
    <3>3. QED
      BY <1>2, <2>1, <2>2, <3>2 DEF Served, Area, ems_rack_input_same_segment
  <2>3. CASE InBank(start)
    <3>1. Area(start) = -1
      BY <2>3, AreasDiffer DEF Area
    <3>2. InRack(end) => Area(end) \in Nat
      BY RackOfAddress DEF Area
    <3>3. InBank(end)
      BY <2>1, <3>1, <3>2 DEF Area
    <3>4. QED
      BY <1>2, <2>1, <2>3, <3>3 DEF Served
  <2>4. CASE ~InRack(start) /\ ~InBank(start)
    <3>1. Area(start) = -2 /\ InExt(start)
      BY <2>1, <2>4 DEF Area, Served, ems_rack_input_same_segment
    <3>2. InRack(end) => Area(end) \in Nat
      BY RackOfAddress DEF Area
    <3>3. ~InRack(end) /\ ~InBank(end)
      BY <2>1, <3>1, <3>2 DEF Area
    <3>4. QED
      BY <1>2, <2>1, <3>1, <3>3 DEF Served, ems_rack_input_same_segment
  <2>5. QED
    BY <2>2, <2>3, <2>4
<1>3. end <= MaxAddr \/ ~Served(start, end)
  BY DEF Served
<1>4. QED
  BY <1>1, <1>2, <1>3

\* For up to 20 racks, as many as there is room for before the registers of the
\* periphery, and any range that a request can carry, the EMS reads in one request
\* what it reads register by register (ems_modbus_read_input_registers).
THEOREM EmsReadsOneMap ==
  ASSUME kCon_RBMSNum \in 0 .. 20, NEW start \in 0 .. MaxAddr, NEW n \in 1 .. MaxRegs, NEW present
  PROVE  EmsReadsAgree(start, n, present)
<1> DEFINE end == start + n - 1
<1>1. start \in Nat /\ end \in Nat /\ start <= end /\ end < start + MaxRegs /\ 1 \in 1 .. MaxRegs
  <2>1. MaxAddr \in Nat /\ MaxRegs \in Nat
    BY DEF MaxAddr, MaxRegs
  <2>2. start \in Nat /\ n \in Nat /\ 1 <= n /\ n <= MaxRegs
    BY <2>1
  <2>3. QED
    BY <2>1, <2>2
<1> DEFINE Read(addr, k) == ems_modbus_read_input_registers(addr, k, present)
           alone == /\ end <= MaxAddr
                    /\ \A addr \in start .. end : Read(addr, 1) # <<>> /\ Area(addr) = Area(start)
<1>2. ASSUME NEW addr \in start .. end
      PROVE  Read(addr, 1) = IF Served(addr, addr) THEN <<Register(addr, present)>> ELSE <<>>
  <2>1. addr \in Nat /\ addr + 1 - 1 = addr
    BY <1>1
  <2>2. Read(addr, 1) = IF Served(addr, addr) THEN [i \in 1 .. 1 |-> Register(addr + i - 1, present)] ELSE <<>>
    BY <1>1, <2>1, RangeRead
  <2>3. [i \in 1 .. 1 |-> Register(addr + i - 1, present)] = <<Register(addr, present)>>
    <3>1. \A i \in 1 .. 1 : i = 1 /\ addr + i - 1 = addr
      BY <2>1
    <3>2. QED
      BY <3>1
  <2>4. QED
    BY <2>2, <2>3
<1>3. Read(start, n) = IF Served(start, end) THEN [i \in 1 .. n |-> Register(start + i - 1, present)] ELSE <<>>
  BY <1>1, RangeRead
<1>4. [i \in 1 .. n |-> Register(start + i - 1, present)] # <<>>
  BY DEF MaxRegs
<1> HIDE DEF Read, end
<1>5. Read(start, n) # <<>> <=> Served(start, end)
  BY <1>3, <1>4
<1>6. \A addr \in start .. end : Read(addr, 1) # <<>> <=> Served(addr, addr)
  BY <1>2
<1>7. Served(start, end) <=> alone
  BY <1>1, <1>6, ServedTogether
<1>8. ASSUME alone, NEW addr \in start .. end
      PROVE  Read(start, n)[addr - start + 1] = Read(addr, 1)[1]
  <2>1. addr - start + 1 \in 1 .. n /\ start + (addr - start + 1) - 1 = addr
    BY <1>1 DEF end, MaxRegs
  <2>2. Read(start, n)[addr - start + 1] = Register(addr, present)
    BY <1>3, <1>7, <1>8, <2>1
  <2>3. Read(addr, 1) = <<Register(addr, present)>>
    BY <1>2, <1>6, <1>8
  <2>4. QED
    BY <2>2, <2>3
<1>9. QED
  BY <1>5, <1>7, <1>8 DEF EmsReadsAgree, Area, Read, end

-----------------------------------------------------------------------------
(* Discrete inputs of the EMS: the fault bits.                               *)

\* A bit of the stack.
LEMMA StackBit ==
  ASSUME NEW db, NEW f \in 1 .. 12
  PROVE  ems_map_read_discrete_bit(db, f) <=>
           \E r \in 0 .. kCon_RBMSNum - 1 : db.racks[r].online /\ get_rbms_fault_bit(db, r, f) # 0
<1>1. s_bank_disc(f) = [kind |-> "RBMS_OR", faults |-> {f}]
  BY DEF s_bank_disc
<1>2. ems_map_read_discrete_bit(db, f) <=> ems_eval_disc_entry(db, s_bank_disc(f), -1)
  BY DEF ems_map_read_discrete_bit
<1>3. ems_eval_disc_entry(db, [kind |-> "RBMS_OR", faults |-> {f}], -1) <=> bms_bank_rbms_fault_or(db, f)
  BY DEF ems_eval_disc_entry
<1>4. QED
  BY <1>1, <1>2, <1>3 DEF bms_bank_rbms_fault_or

\* A bit of a rack.
LEMMA RackBit ==
  ASSUME kCon_RBMSNum \in Nat, NEW db, NEW r \in 0 .. kCon_RBMSNum - 1, NEW i \in 0 .. 199
  PROVE  ems_map_read_discrete_bit(db, 200 + 200 * r + i) <=> ems_eval_disc_entry(db, s_rack_disc(i), r)
<1> DEFINE a == 200 + 200 * r + i
<1>1. a \in Nat /\ a >= 200 /\ a \notin 1 .. 199
  OBVIOUS
<1>2. (a - 200) \div 200 = r /\ (a - 200) % 200 = i
  <2>1. a - 200 = 200 * r + i
    OBVIOUS
  <2>2. QED
    BY <2>1
<1>3. r < kCon_RBMSNum
  OBVIOUS
<1> HIDE DEF a
<1>4. ems_map_read_discrete_bit(db, a) <=> ems_eval_disc_entry(db, s_rack_disc(i), r)
  BY <1>1, <1>2, <1>3 DEF ems_map_read_discrete_bit
<1>5. QED
  BY <1>4 DEF a

\* For any number of racks and any faults of theirs the two tables of fault bits
\* tell the EMS the same: a bit of the stack is set just when it is set for a rack
\* that is online, and a rack without faults shows none, its bit 56 aside
\* (ems_map_read_discrete_bit).
THEOREM EmsTablesTellTheSame ==
  ASSUME kCon_RBMSNum \in Nat, NEW db, FaultTables(db)
  PROVE  EmsTablesAgree(db)
<1>1. ASSUME NEW f \in 1 .. 12, NEW r \in 0 .. kCon_RBMSNum - 1
      PROVE  ems_map_read_discrete_bit(db, 200 + 200 * r + f) <=> get_rbms_fault_bit(db, r, f) # 0
  <2>1. s_rack_disc(f) = [kind |-> "RBMS_BIT", faults |-> {f}]
    BY DEF s_rack_disc
  <2>2. ems_map_read_discrete_bit(db, 200 + 200 * r + f) <=> ems_eval_disc_entry(db, s_rack_disc(f), r)
    BY RackBit
  <2>3. ems_eval_disc_entry(db, [kind |-> "RBMS_BIT", faults |-> {f}], r) <=> get_rbms_fault_bit(db, r, f) # 0
    BY DEF ems_eval_disc_entry
  <2>4. QED
    BY <2>1, <2>2, <2>3
<1>2. ASSUME NEW f \in 1 .. 12
      PROVE  ems_map_read_discrete_bit(db, f) =
               \E r \in 0 .. kCon_RBMSNum - 1 : db.racks[r].online /\ ems_map_read_discrete_bit(db, 200 + 200 * r + f)
  <2>1. ems_map_read_discrete_bit(db, f) \in BOOLEAN
    BY DEF ems_map_read_discrete_bit
  <2> DEFINE some == \E r \in 0 .. kCon_RBMSNum - 1 :
                       db.racks[r].online /\ ems_map_read_discrete_bit(db, 200 + 200 * r + f)
  <2>2. ems_map_read_discrete_bit(db, f) <=>
          \E r \in 0 .. kCon_RBMSNum - 1 : db.racks[r].online /\ get_rbms_fault_bit(db, r, f) # 0
    BY StackBit
  <2>3. ems_map_read_discrete_bit(db, f) <=> some
    BY <1>1, <2>2
  <2>4. some \in BOOLEAN
    OBVIOUS
  <2> HIDE DEF some
  <2>5. ems_map_read_discrete_bit(db, f) = some
    BY <2>1, <2>3, <2>4
  <2>6. QED
    BY <2>5 DEF some
<1>3. ASSUME NEW r \in 0 .. kCon_RBMSNum - 1, db.racks[r].faults = {}, NEW i \in (0 .. 199) \ {56}
      PROVE  ~ems_map_read_discrete_bit(db, 200 + 200 * r + i)
  <2>1. ems_map_read_discrete_bit(db, 200 + 200 * r + i) <=> ems_eval_disc_entry(db, s_rack_disc(i), r)
    BY RackBit
  <2>2. \A f \in Nat \ {0} : get_rbms_fault_bit(db, r, f) = 0
    BY <1>3 DEF get_rbms_fault_bit
  <2>3. \/ s_rack_disc(i) = [kind |-> "ZERO", faults |-> {}]
        \/ \E f \in Nat \ {0} : s_rack_disc(i) = [kind |-> "RBMS_BIT", faults |-> {f}]
    <3>1. CASE i \in 1 .. 12
      <4>1. s_rack_disc(i) = [kind |-> "RBMS_BIT", faults |-> {i}] /\ i \in Nat \ {0}
        BY <3>1 DEF s_rack_disc
      <4>2. QED
        BY <4>1
    <3>2. CASE i \in ({0} \cup (13 .. 150)) \ {56, 70}
      <4>1. s_rack_disc(i) = [kind |-> "RBMS_BIT", faults |-> {200 + i}] /\ 200 + i \in Nat \ {0}
        BY <1>3, <3>2 DEF s_rack_disc
      <4>2. QED
        BY <4>1
    <3>3. CASE i \notin 0 .. 150 \/ i = 70
      BY <1>3, <3>3 DEF s_rack_disc
    <3>4. QED
      BY <3>1, <3>2, <3>3
  <2>4. ASSUME NEW f \in Nat \ {0}
        PROVE  ~ems_eval_disc_entry(db, [kind |-> "RBMS_BIT", faults |-> {f}], r)
    BY <2>2 DEF ems_eval_disc_entry
  <2>5. ~ems_eval_disc_entry(db, [kind |-> "ZERO", faults |-> {}], r)
    BY DEF ems_eval_disc_entry
  <2>6. QED
    BY <2>1, <2>3, <2>4, <2>5
<1>4. QED
  BY <1>2, <1>3 DEF EmsTablesAgree

-----------------------------------------------------------------------------
(* The clock, written by the EMS register by register.                       *)

\* The values of the registers from 524 on.
Values(new) == <<new.year - 2000, new.month, new.day, new.hour, new.minute, new.second>>

\* The clock after the first k of them were written.
Partly(clock, new, k) ==
  [year |-> IF k >= 1 THEN new.year ELSE clock.year,
   month |-> IF k >= 2 THEN new.month ELSE clock.month,
   day |-> IF k >= 3 THEN new.day ELSE clock.day,
   hour |-> IF k >= 4 THEN new.hour ELSE clock.hour,
   minute |-> IF k >= 5 THEN new.minute ELSE clock.minute,
   second |-> IF k >= 6 THEN new.second ELSE clock.second]

\* The result of writing them.
Done(clock, new, k) == [ok |-> TRUE, clock |-> Partly(clock, new, k)]

\* Every month has 28 days.
LEMMA DaysEnough == ASSUME NEW y \in Nat, NEW m \in 1 .. 12 PROVE Days(y, m) \in 28 .. 31
BY DEF Days

\* A time whose month has its day is set as it is.
LEMMA SetAsItIs ==
  ASSUME NEW c, c.day <= Days(c.year, c.month)
  PROVE  kit_set_rtc_time(c) = c
BY DEF kit_set_rtc_time

\* One register more.  The day is within the month at each of the six steps,
\* because the day that the clock had is in every month.
LEMMA OneRegisterMore ==
  ASSUME NEW clock \in Clocks, NEW new \in Settable, clock.day <= 28,
         new.day <= Days(new.year, new.month), NEW k \in 1 .. 6
  PROVE  ems_write_hold_reg(524 + k - 1, Values(new)[k], Partly(clock, new, k - 1))
           = Done(clock, new, k)
<1> DEFINE field == Fields[k]
           value == Values(new)[k]
           before == Partly(clock, new, k - 1)
           after == Partly(clock, new, k)
<1>1. IsRtc(524 + k - 1) /\ RtcField(524 + k - 1) = field
  <2>1. 524 + k - 1 \in 524 .. 529 /\ (524 + k - 1) - 523 = k
    OBVIOUS
  <2>2. QED
    BY <2>1 DEF IsRtc, RtcField
<1>2. /\ clock.year \in Nat /\ clock.month \in 1 .. 12 /\ clock.day \in 1 .. 28
      /\ new.year \in 2000 .. 2100 /\ new.month \in 1 .. 12 /\ new.day \in 1 .. 31
      /\ new.hour \in 0 .. 23 /\ new.minute \in 0 .. 59 /\ new.second \in 0 .. 59
  BY DEF Clocks, Settable
<1>3. value \in Accepted(field)
  BY <1>2 DEF Values, Fields, Accepted
<1>4. ems_hold_apply_rtc_field(524 + k - 1, value, before) = after
  <2>1. ems_hold_apply_rtc_field(524 + k - 1, value, before)
          = [before EXCEPT ![field] = IF field = "year" THEN value + 2000 ELSE value]
    BY <1>1 DEF ems_hold_apply_rtc_field
  <2>2. CASE k = 1
    BY <1>2, <2>1, <2>2 DEF Partly, Fields, Values
  <2>3. CASE k = 2
    BY <1>2, <2>1, <2>3 DEF Partly, Fields, Values
  <2>4. CASE k = 3
    BY <1>2, <2>1, <2>4 DEF Partly, Fields, Values
  <2>5. CASE k = 4
    BY <1>2, <2>1, <2>5 DEF Partly, Fields, Values
  <2>6. CASE k = 5
    BY <1>2, <2>1, <2>6 DEF Partly, Fields, Values
  <2>7. CASE k = 6
    BY <1>2, <2>1, <2>7 DEF Partly, Fields, Values
  <2>8. QED
    BY <2>2, <2>3, <2>4, <2>5, <2>6, <2>7
<1>5. after.day <= Days(after.year, after.month)
  <2>1. CASE k < 3
    <3>1. after.year \in Nat /\ after.month \in 1 .. 12 /\ after.day \in 1 .. 28
      BY <1>2, <2>1 DEF Partly
    <3>2. QED
      BY <3>1, DaysEnough
  <2>2. CASE k >= 3
    BY <2>2 DEF Partly
  <2>3. QED
    BY <2>1, <2>2
<1>6. kit_set_rtc_time(after) = after
  BY <1>5, SetAsItIs
<1> HIDE DEF field, value, before, after
<1>7. ems_write_hold_reg(524 + k - 1, value, before) = [ok |-> TRUE, clock |-> after]
  <2>1. ems_write_hold_reg(524 + k - 1, value, before)
          = [ok |-> TRUE,
             clock |-> kit_set_rtc_time(ems_hold_apply_rtc_field(524 + k - 1, value, before))]
    BY <1>1, <1>3 DEF ems_write_hold_reg
  <2>2. QED
    BY <1>4, <1>6, <2>1
<1>8. QED
  BY <1>7 DEF value, before, after, Done

\* A step of the function that write_multiple_hold_registers applies.
Applied(clock, new, f, i) ==
  IF i = 0 THEN [ok |-> TRUE, clock |-> clock]
  ELSE IF f[i - 1].ok THEN ems_write_hold_reg(524 + i - 1, Values(new)[i], f[i - 1].clock)
  ELSE f[i - 1]

\* A date and time that the EMS writes register by register over any clock is what
\* the clock shows then, provided no month lacks the day that the clock had: the
\* days up to 28 (ems_modbus_write_multiple_hold_registers).
THEOREM EmsSetsTheClock ==
  ASSUME NEW clock \in Clocks, NEW new \in Settable
  PROVE  EmsClockSet(clock, new)
<1> SUFFICES ASSUME clock.day <= 28, new.day <= Days(new.year, new.month)
             PROVE  /\ ems_modbus_write_multiple_hold_registers(524, Values(new), clock)
                         = [ok |-> TRUE, clock |-> new]
                    /\ ems_modbus_read_hold_registers(524, 6, new) = Values(new)
  BY DEF EmsClockSet, Values
<1> DEFINE g == [i \in 0 .. 6 |-> Done(clock, new, i)]
<1>1. Len(Values(new)) = 6
  BY DEF Values
<1>2. ems_hold_range_is_valid(524, 524 + 6 - 1)
  BY DEF ems_hold_range_is_valid, InHold, Skipped
<1>3. Partly(clock, new, 0) = clock /\ Partly(clock, new, 6) = new
  BY DEF Partly, Clocks, Settable
<1>4. ASSUME NEW i \in 1 .. 6, NEW f, f[i - 1] = Done(clock, new, i - 1)
      PROVE  Applied(clock, new, f, i) = Done(clock, new, i)
  <2>1. i # 0 /\ f[i - 1].ok /\ f[i - 1].clock = Partly(clock, new, i - 1)
    BY <1>4 DEF Done
  <2>2. Applied(clock, new, f, i) = ems_write_hold_reg(524 + i - 1, Values(new)[i], Partly(clock, new, i - 1))
    BY <2>1 DEF Applied
  <2>3. QED
    BY <2>2, OneRegisterMore
<1>5. \A f : Applied(clock, new, f, 0) = Done(clock, new, 0)
  BY <1>3 DEF Applied, Done
<1>6. g = [i \in 0 .. 6 |-> Applied(clock, new, g, i)]
  <2>1. ASSUME NEW i \in 0 .. 6
        PROVE  g[i] = Applied(clock, new, g, i)
    <3>1. CASE i = 0
      BY <1>5, <3>1
    <3>2. CASE i # 0
      <4>1. i \in 1 .. 6 /\ g[i - 1] = Done(clock, new, i - 1)
        BY <3>2
      <4>2. QED
        BY <1>4, <4>1
    <3>3. QED
      BY <3>1, <3>2
  <2>2. QED
    BY <2>1
<1>7. ASSUME NEW f, f = [i \in 0 .. 6 |-> Applied(clock, new, f, i)]
      PROVE  f[6] = [ok |-> TRUE, clock |-> new]
  <2> DEFINE After(i) == f[i] = Done(clock, new, i)
  <2>1. \A i \in 0 .. 6 : f[i] = Applied(clock, new, f, i)
    BY <1>7
  <2>2. After(0)
    BY <2>1, <1>5
  <2>3. ASSUME NEW i \in 1 .. 6, After(i - 1)
        PROVE  After(i)
    BY <2>1, <2>3, <1>4
  <2> HIDE DEF After
  <2>4. After(1 - 1) /\ After(1)
    BY <2>2, <2>3
  <2>5. After(2)
    <3>1. After(2 - 1)
      BY <2>4
    <3>2. QED
      BY <2>3, <3>1
  <2>6. After(3)
    <3>1. After(3 - 1)
      BY <2>5
    <3>2. QED
      BY <2>3, <3>1
  <2>7. After(4)
    <3>1. After(4 - 1)
      BY <2>6
    <3>2. QED
      BY <2>3, <3>1
  <2>8. After(5)
    <3>1. After(5 - 1)
      BY <2>7
    <3>2. QED
      BY <2>3, <3>1
  <2>9. After(6)
    <3>1. After(6 - 1)
      BY <2>8
    <3>2. QED
      BY <2>3, <3>1
  <2>10. QED
    BY <1>3, <2>9 DEF After, Done
<1> DEFINE applied == CHOOSE f : f = [i \in 0 .. 6 |-> Applied(clock, new, f, i)]
<1>8. applied = [i \in 0 .. 6 |-> Applied(clock, new, applied, i)]
  BY <1>6
<1>9. applied[6] = [ok |-> TRUE, clock |-> new]
  <2> HIDE DEF applied
  <2>1. QED
    BY <1>7, <1>8
<1>10. ems_modbus_write_multiple_hold_registers(524, Values(new), clock) = applied[6]
  BY <1>1, <1>2 DEF ems_modbus_write_multiple_hold_registers, Applied
<1>11. ems_modbus_read_hold_registers(524, 6, new) = Values(new)
  <2>1. ASSUME NEW i \in 1 .. 6
        PROVE  ems_read_hold_reg(524 + i - 1, new) = Values(new)[i]
    <3>1. 524 + i - 1 \in 524 .. 529 /\ (524 + i - 1) - 523 = i
      OBVIOUS
    <3>2. IsRtc(524 + i - 1) /\ RtcField(524 + i - 1) = Fields[i]
      BY <3>1 DEF IsRtc, RtcField
    <3>3. ems_read_hold_reg(524 + i - 1, new) = IF Fields[i] = "year" THEN new.year - 2000 ELSE new[Fields[i]]
      BY <3>2 DEF ems_read_hold_reg
    <3>4. QED
      BY <3>3 DEF Fields, Values
  <2>2. ems_modbus_read_hold_registers(524, 6, new) = [i \in 1 .. 6 |-> ems_read_hold_reg(524 + i - 1, new)]
    BY <1>2 DEF ems_modbus_read_hold_registers
  <2>3. [i \in 1 .. 6 |-> Values(new)[i]] = Values(new)
    BY DEF Values
  <2>4. QED
    BY <2>1, <2>2, <2>3
<1>12. QED
  BY <1>9, <1>10, <1>11

-----------------------------------------------------------------------------
(* The statistics of the stack.                                              *)

Increasing(S) == {p \in S \X S : p[1] < p[2]}

\* A finite set of numbers, in increasing order: each of them once.
LEMMA NumbersInOrder ==
  ASSUME NEW S, IsFiniteSet(S), S \subseteq Int
  PROVE  LET r == Ranked(S, Increasing(S)) IN
         /\ r \in Seq(S) /\ Len(r) = Cardinality(S) /\ Len(r) \in Nat
         /\ \A i, j \in 1 .. Len(r) : i < j => r[i] < r[j]
         /\ \A c \in S : \E i \in 1 .. Len(r) : r[i] = c
<1> DEFINE R == Increasing(S)
           r == Ranked(S, R)
<1>1. \A a, b \in S : <<a, b>> \in R <=> a < b
  BY DEF Increasing
<1> HIDE DEF R
<1>2. Orders(R, S)
  BY <1>1 DEF Orders
<1>3. /\ r \in Seq(S) /\ Len(r) = Cardinality(S) /\ Len(r) \in Nat
      /\ \A i, j \in 1 .. Len(r) : i < j => <<r[i], r[j]>> \in R
      /\ \A c \in S : \E i \in 1 .. Len(r) : r[i] = c
  BY <1>2, RankedFacts
<1> HIDE DEF r
<1>4. ASSUME NEW i \in 1 .. Len(r), NEW j \in 1 .. Len(r), i < j
      PROVE  r[i] < r[j]
  <2>1. r[i] \in S /\ r[j] \in S
    BY <1>3
  <2>2. QED
    BY <1>1, <1>3, <1>4, <2>1
<1>5. QED
  BY <1>3, <1>4 DEF r, R

\* Min and Max give the least and the greatest of a finite set of integers.
LEMMA FiniteExtremes ==
  ASSUME NEW S, IsFiniteSet(S), S \subseteq Int, S # {}
  PROVE  /\ Min(S) \in S /\ \A k \in S : Min(S) <= k
         /\ Max(S) \in S /\ \A k \in S : Max(S) >= k
<1> DEFINE r == Ranked(S, Increasing(S))
           n == Len(r)
<1>1. /\ r \in Seq(S) /\ n \in Nat
      /\ \A i, j \in 1 .. n : i < j => r[i] < r[j]
      /\ \A c \in S : \E i \in 1 .. n : r[i] = c
  BY NumbersInOrder
<1> HIDE DEF r
<1>2. n \in 1 .. n /\ 1 \in 1 .. n /\ n >= 1
  <2>1. PICK c \in S : TRUE
    OBVIOUS
  <2>2. PICK i \in 1 .. n : r[i] = c
    BY <1>1
  <2>3. QED
    BY <1>1, <2>2
<1>3. r[1] \in S /\ r[n] \in S /\ \A i \in 1 .. n : r[i] \in Int /\ r[i] \in S
  <2>1. \A i \in 1 .. n : r[i] \in S
    BY <1>1
  <2>2. QED
    BY <1>2, <2>1
<1>4. ASSUME NEW k \in S
      PROVE  r[1] <= k /\ r[n] >= k
  <2>1. PICK i \in 1 .. n : r[i] = k
    BY <1>1
  <2>2. i = 1 \/ r[1] < r[i]
    BY <1>1, <1>2
  <2>3. i = n \/ r[i] < r[n]
    BY <1>1, <1>2
  <2>4. QED
    BY <1>2, <1>3, <2>1, <2>2, <2>3
<1>5. Min(S) \in S /\ \A k \in S : Min(S) <= k
  BY <1>3, <1>4 DEF Min
<1>6. Max(S) \in S /\ \A k \in S : Max(S) >= k
  BY <1>3, <1>4 DEF Max
<1>7. QED
  BY <1>5, <1>6

\* The racks that are online, in their order: rank[k] is the place of the kth.
Rank(racks) == Ranked(get_rbms_online(racks), Increasing(get_rbms_online(racks)))

\* The ranking lists every online rack once, by its place, and so does the list
\* of the racks without the offline ones.
LEMMA OnlineInOrder ==
  ASSUME NEW racks, RackList(racks, RackNames)
  PROVE  LET on == get_rbms_online(racks)
             rank == Rank(racks)
             there == OnlyOnline(racks)
             n == Cardinality(on)
         IN  /\ n \in Nat /\ IsFiniteSet(on) /\ Len(racks) \in Nat /\ DOMAIN racks = 1 .. Len(racks)
             /\ rank \in Seq(on) /\ Len(rank) = n /\ DOMAIN rank = 1 .. n
             /\ on \subseteq 1 .. Len(racks)
             /\ \A i, j \in 1 .. n : i < j => rank[i] < rank[j]
             /\ \A i \in on : \E k \in 1 .. n : rank[k] = i
             /\ \A k \in 1 .. n : rank[k] \in on
             /\ there \in Seq(Range(racks)) /\ Len(there) = n /\ DOMAIN there = 1 .. n
             /\ \A k \in 1 .. n : there[k] = racks[rank[k]]
             /\ get_rbms_online(there) = 1 .. n
<1> DEFINE on == get_rbms_online(racks)
           rank == Rank(racks)
           there == OnlyOnline(racks)
           n == Cardinality(on)
<1>1. /\ racks \in Seq(Range(racks)) /\ Len(racks) \in Nat /\ DOMAIN racks = 1 .. Len(racks)
      /\ \A i \in DOMAIN racks : racks[i] \in Range(racks)
  BY DEF RackList, Range
<1>2. on \subseteq 1 .. Len(racks) /\ \A i \in on : racks[i].online
  BY DEF get_rbms_online, get_rbms_num
<1>3. IsFiniteSet(on) /\ on \subseteq Int
  <2> HIDE DEF on
  <2>1. IsFiniteSet(1 .. Len(racks)) /\ 1 .. Len(racks) \subseteq Int
    BY <1>1, FS_Interval
  <2>2. QED
    BY <1>2, <2>1, FS_Subset
<1>4. there = [k \in DOMAIN rank |-> racks[rank[k]]]
  BY DEF OnlyOnline, Rank, Increasing
<1> HIDE DEF on
<1>5. /\ rank \in Seq(on) /\ Len(rank) = n /\ n \in Nat
      /\ \A i, j \in 1 .. n : i < j => rank[i] < rank[j]
      /\ \A i \in on : \E k \in 1 .. n : rank[k] = i
  BY <1>3, NumbersInOrder DEF Rank, on
<1> HIDE DEF rank, there
<1>6. DOMAIN rank = 1 .. n /\ \A k \in 1 .. n : rank[k] \in on
  BY <1>5
<1>7. \A k \in 1 .. n : there[k] = racks[rank[k]] /\ there[k] \in Range(racks) /\ there[k].online
  BY <1>1, <1>2, <1>4, <1>6
<1>8. there \in Seq(Range(racks)) /\ Len(there) = n /\ DOMAIN there = 1 .. n
  <2>1. there \in [1 .. n -> Range(racks)]
    BY <1>4, <1>6, <1>7
  <2>2. QED
    BY <1>5, <2>1
<1>9. get_rbms_online(there) = 1 .. n
  BY <1>7, <1>8 DEF get_rbms_online, get_rbms_num
<1>10. QED
  BY <1>1, <1>2, <1>3, <1>5, <1>6, <1>7, <1>8, <1>9 DEF on, rank, there

-----------------------------------------------------------------------------
\* The sums of a list, one number more at a time.
Summing(v, f, i) == IF i = 0 THEN 0 ELSE f[i - 1] + v[i]
Sums(v, f, m) == f = [i \in 0 .. m |-> Summing(v, f, i)]

\* They exist.
LEMMA ListSumsExist ==
  ASSUME NEW v, NEW m \in Nat
  PROVE  \E f : Sums(v, f, m)
<1> DEFINE T == {k \in Nat : ~ \E f : Sums(v, f, k)}
<1>1. 0 \notin T
  <2> DEFINE f == [i \in 0 .. 0 |-> 0]
  <2>1. f = [i \in 0 .. 0 |-> Summing(v, f, i)]
    BY DEF Summing
  <2>2. QED
    BY <2>1 DEF Sums
<1>2. ASSUME NEW k \in Nat, k \notin T
      PROVE  k + 1 \notin T
  <2>1. PICK f : Sums(v, f, k)
    BY <1>2
  <2> DEFINE g == [i \in 0 .. k + 1 |-> IF i = k + 1 THEN Summing(v, f, i) ELSE f[i]]
  <2>2. ASSUME NEW i \in 0 .. k + 1
        PROVE  g[i] = Summing(v, g, i)
    <3>1. i # k + 1 => i \in 0 .. k /\ f[i] = Summing(v, f, i)
      BY <2>1 DEF Sums
    <3>2. CASE i = 0
      BY <3>1, <3>2 DEF Summing
    <3>3. CASE i # 0
      <4>1. i - 1 \in 0 .. k /\ g[i - 1] = f[i - 1]
        BY <3>3
      <4>2. Summing(v, g, i) = Summing(v, f, i)
        BY <3>3, <4>1 DEF Summing
      <4>3. QED
        BY <3>1, <4>2
    <3>4. QED
      BY <3>2, <3>3
  <2>3. g = [i \in 0 .. k + 1 |-> Summing(v, g, i)]
    BY <2>2
  <2> HIDE DEF g
  <2>4. Sums(v, g, k + 1)
    BY <2>3 DEF Sums
  <2>5. QED
    BY <2>4
<1> HIDE DEF T
<1>3. T = {}
  <2>1. T \subseteq Nat
    BY DEF T
  <2>2. QED
    BY <1>1, <1>2, <2>1, NoException
<1>4. QED
  BY <1>3 DEF T

\* The sum of a list is the last of them.
LEMMA SumOfFacts ==
  ASSUME NEW v, Len(v) \in Nat, \A i \in 1 .. Len(v) : v[i] \in Int
  PROVE  \E f : /\ SumOf(v) = f[Len(v)] /\ f[0] = 0
                /\ \A i \in 0 .. Len(v) : f[i] \in Int
                /\ \A i \in 1 .. Len(v) : f[i] = f[i - 1] + v[i]
<1> DEFINE n == Len(v)
           f == CHOOSE f : f = [i \in 0 .. n |-> IF i = 0 THEN 0 ELSE f[i - 1] + v[i]]
<1>1. SumOf(v) = f[n]
  BY DEF SumOf
<1>2. \E g : g = [i \in 0 .. n |-> IF i = 0 THEN 0 ELSE g[i - 1] + v[i]]
  BY ListSumsExist DEF Sums, Summing
<1>3. f = [i \in 0 .. n |-> IF i = 0 THEN 0 ELSE f[i - 1] + v[i]]
  BY <1>2
<1> HIDE DEF f
<1>4. f[0] = 0 /\ \A i \in 1 .. n : f[i] = f[i - 1] + v[i]
  <2>1. 0 \in 0 .. n /\ \A i \in 1 .. n : i \in 0 .. n /\ i # 0
    OBVIOUS
  <2>2. QED
    BY <1>3, <2>1
<1>5. \A i \in 0 .. n : f[i] \in Int
  <2> DEFINE T == {k \in 0 .. n : f[k] \notin Int}
  <2> SUFFICES ASSUME T # {} PROVE FALSE
    OBVIOUS
  <2>1. T \subseteq Nat
    OBVIOUS
  <2> HIDE DEF T
  <2>2. PICK first \in T : \A k \in T : first <= k
    BY <2>1, LeastNumber
  <2>3. first \in 0 .. n /\ f[first] \notin Int /\ first # 0
    BY <1>4 DEF T
  <2>4. first - 1 \in 0 .. n /\ ~ (first <= first - 1) /\ first \in 1 .. n
    BY <2>3
  <2>5. f[first - 1] \in Int
    BY <2>2, <2>4 DEF T
  <2>6. QED
    BY <1>4, <2>3, <2>4, <2>5
<1>6. QED
  BY <1>1, <1>4, <1>5

\* A sum that takes 0 for the racks that are offline is the sum over the racks that
\* are online.
LEMMA OnlineSums ==
  ASSUME NEW racks, RackList(racks, RackNames),
         NEW v, NEW w,
         Len(v) = Len(racks), Len(w) = Cardinality(get_rbms_online(racks)),
         \A i \in 1 .. Len(racks) : v[i] \in Int,
         \A i \in 1 .. Len(racks) : i \notin get_rbms_online(racks) => v[i] = 0,
         \A k \in 1 .. Cardinality(get_rbms_online(racks)) : w[k] = v[Rank(racks)[k]]
  PROVE  SumOf(v) = SumOf(w)
<1> DEFINE on == get_rbms_online(racks)
           rank == Rank(racks)
           n == Cardinality(on)
           len == Len(racks)
<1>1. /\ n \in Nat /\ len \in Nat /\ on \subseteq 1 .. len
      /\ \A i, j \in 1 .. n : i < j => rank[i] < rank[j]
      /\ \A i \in on : \E k \in 1 .. n : rank[k] = i
      /\ \A k \in 1 .. n : rank[k] \in on
  BY OnlineInOrder
<1>2. /\ Len(v) = len /\ Len(w) = n /\ \A i \in 1 .. len : v[i] \in Int
      /\ \A i \in 1 .. len : i \notin on => v[i] = 0
      /\ \A k \in 1 .. n : w[k] = v[rank[k]]
  OBVIOUS
<1> HIDE DEF on, rank, n, len
<1>3. \A k \in 1 .. n : w[k] \in Int /\ rank[k] \in 1 .. len
  BY <1>1, <1>2
<1>4. PICK f : /\ SumOf(v) = f[len] /\ f[0] = 0 /\ \A i \in 0 .. len : f[i] \in Int
               /\ \A i \in 1 .. len : f[i] = f[i - 1] + v[i]
  <2>1. Len(v) = len /\ Len(v) \in Nat /\ \A i \in 1 .. Len(v) : v[i] \in Int
    BY <1>1, <1>2
  <2>2. \E h : /\ SumOf(v) = h[Len(v)] /\ h[0] = 0
               /\ \A i \in 0 .. Len(v) : h[i] \in Int
               /\ \A i \in 1 .. Len(v) : h[i] = h[i - 1] + v[i]
    BY <2>1, SumOfFacts
  <2>3. QED
    BY <2>1, <2>2
<1>5. PICK g : /\ SumOf(w) = g[n] /\ g[0] = 0 /\ \A k \in 0 .. n : g[k] \in Int
               /\ \A k \in 1 .. n : g[k] = g[k - 1] + w[k]
  <2>1. Len(w) = n /\ Len(w) \in Nat /\ \A i \in 1 .. Len(w) : w[i] \in Int
    BY <1>1, <1>2, <1>3
  <2>2. \E h : /\ SumOf(w) = h[Len(w)] /\ h[0] = 0
               /\ \A i \in 0 .. Len(w) : h[i] \in Int
               /\ \A i \in 1 .. Len(w) : h[i] = h[i - 1] + w[i]
    BY <2>1, SumOfFacts
  <2>3. QED
    BY <2>1, <2>2
<1> DEFINE Upto(i, k) == \A m \in 1 .. n : m <= k <=> rank[m] <= i
           T == {i \in 0 .. len : ~ \E k \in 0 .. n : f[i] = g[k] /\ Upto(i, k)}
<1>6. 0 \notin T
  <2>1. Upto(0, 0) /\ 0 \in 0 .. n
    BY <1>1, <1>3
  <2>2. QED
    BY <1>4, <1>5, <2>1
<1>7. ASSUME NEW i \in 1 .. len, i - 1 \notin T
      PROVE  i \notin T
  <2>1. PICK k \in 0 .. n : f[i - 1] = g[k] /\ Upto(i - 1, k)
    BY <1>1, <1>7
  <2>2. CASE i \in on
    <3>1. PICK m \in 1 .. n : rank[m] = i
      BY <1>1, <2>2
    <3>2. ~ (m <= k)
      BY <1>1, <2>1, <3>1
    <3>3. ASSUME NEW h \in 1 .. n, h < m
          PROVE  h <= k
      <4>1. rank[h] <= i - 1
        BY <1>1, <1>3, <3>1, <3>3
      <4>2. QED
        BY <2>1, <4>1
    <3>4. m = k + 1
      <4>1. m > k + 1 => k + 1 \in 1 .. n /\ k + 1 < m /\ ~ (k + 1 <= k)
        BY <1>1, <2>1
      <4>2. QED
        BY <1>1, <3>2, <3>3, <4>1
    <3>5. Upto(i, m)
      <4>1. ASSUME NEW h \in 1 .. n
            PROVE  h <= m <=> rank[h] <= i
        <5>1. h < m => rank[h] < rank[m]
          BY <1>1
        <5>2. m < h => rank[m] < rank[h]
          BY <1>1
        <5>3. rank[h] \in Int /\ rank[m] \in Int
          BY <1>3
        <5>4. QED
          BY <1>1, <3>1, <5>1, <5>2, <5>3
      <4>2. QED
        BY <4>1
    <3>6. f[i] = g[m]
      <4>1. f[i] = g[k] + v[i] /\ g[m] = g[m - 1] + w[m] /\ m - 1 = k
        BY <1>4, <1>5, <2>1, <3>4
      <4>2. QED
        BY <1>2, <3>1, <4>1
    <3>7. m \in 0 .. n
      OBVIOUS
    <3>8. QED
      BY <3>5, <3>6, <3>7
  <2>3. CASE i \notin on
    <3>1. f[i] = f[i - 1] + 0 /\ f[i - 1] \in Int
      <4>1. i - 1 \in 0 .. len /\ v[i] = 0
        BY <1>1, <1>2, <2>3
      <4>2. QED
        BY <1>4, <4>1
    <3>2. Upto(i, k)
      <4>1. ASSUME NEW h \in 1 .. n
            PROVE  h <= k <=> rank[h] <= i
        <5>1. rank[h] # i /\ rank[h] \in Int
          BY <1>1, <1>3, <2>3
        <5>2. h <= k <=> rank[h] <= i - 1
          BY <2>1
        <5>3. QED
          BY <5>1, <5>2
      <4>2. QED
        BY <4>1
    <3>3. QED
      BY <2>1, <3>1, <3>2
  <2>4. QED
    BY <2>2, <2>3
<1>8. len \notin T
  <2> SUFFICES ASSUME T # {} PROVE FALSE
    OBVIOUS
  <2>1. T \subseteq Nat /\ T \subseteq 0 .. len
    BY <1>1
  <2> HIDE DEF T
  <2>2. PICK first \in T : \A k \in T : first <= k
    BY <2>1, LeastNumber
  <2>3. first \in 1 .. len
    BY <1>1, <1>6, <2>1
  <2>4. first - 1 \notin T
    BY <2>2, <2>3
  <2>5. QED
    BY <1>7, <2>3, <2>4
<1>9. PICK k \in 0 .. n : f[len] = g[k] /\ Upto(len, k)
  BY <1>1, <1>8
<1>10. k = n
  <2>1. n # 0 => n \in 1 .. n /\ rank[n] <= len
    BY <1>1, <1>3
  <2>2. n # 0 => n <= k
    BY <1>9, <2>1
  <2>3. QED
    BY <1>1, <1>9, <2>2
<1>11. QED
  BY <1>4, <1>5, <1>9, <1>10

-----------------------------------------------------------------------------
\* Two tables beside each other.
LEMMA Beside ==
  ASSUME NEW f, NEW g
  PROVE  /\ DOMAIN (f ++ g) = DOMAIN f \cup DOMAIN g
         /\ \A x \in DOMAIN f : (f ++ g)[x] = f[x]
         /\ \A x \in DOMAIN g : x \notin DOMAIN f => (f ++ g)[x] = g[x]
BY DEF ++

\* Every statistic that the tables name is of a point of the racks.
PointTable(table) == \A t \in DOMAIN table : table[t] \in RackNames

\* Two tables of points side by side are a table of points.
LEMMA TablesBeside ==
  ASSUME NEW f, NEW g, PointTable(f), PointTable(g)
  PROVE  PointTable(f ++ g)
BY DEF PointTable, ++

\* The tables of the statistics name points of the racks.
LEMMA PointTables ==
  /\ PointTable(SummedPowers ++ SummedCurrents ++ SummedBus ++ SummedEnergies ++ SummedCapacities)
  /\ PointTable(GreatestOf ++ GreatestPole) /\ PointTable(LeastOf ++ LeastPole)
  /\ PointTable(LeastIso) /\ PointTable(GreatestBus)
  /\ {"DCBusV", "A_HighAccu", "CellVAvg", "ModTmpAvg", "BMSMaxFltLevel"} \subseteq RackNames
<1>1. PointTable(SummedPowers)
  BY DEF PointTable, SummedPowers, RackNames
<1>2. PointTable(SummedCurrents)
  BY DEF PointTable, SummedCurrents, RackNames
<1>3. PointTable(SummedBus)
  BY DEF PointTable, SummedBus, RackNames
<1>4. PointTable(SummedEnergies)
  BY DEF PointTable, SummedEnergies, RackNames
<1>5. PointTable(SummedCapacities)
  BY DEF PointTable, SummedCapacities, RackNames
<1>6. PointTable(GreatestOf) /\ PointTable(GreatestPole)
  BY DEF PointTable, GreatestOf, GreatestPole, RackNames
<1>7. PointTable(LeastOf) /\ PointTable(LeastPole)
  BY DEF PointTable, LeastOf, LeastPole, RackNames
<1>8. PointTable(LeastIso) /\ PointTable(GreatestBus)
  BY DEF PointTable, LeastIso, GreatestBus, RackNames
<1>9. {"DCBusV", "A_HighAccu", "CellVAvg", "ModTmpAvg", "BMSMaxFltLevel"} \subseteq RackNames
  BY DEF RackNames
<1>10. QED
  BY <1>1, <1>2, <1>3, <1>4, <1>5, <1>6, <1>7, <1>8, <1>9, TablesBeside

-----------------------------------------------------------------------------
\* Every statistic of one point is the same without the racks that are offline.
LEMMA OneStatistic ==
  ASSUME NEW racks, RackList(racks, RackNames), NEW p \in RackNames
  PROVE  LET there == OnlyOnline(racks) IN
         /\ OnlineValues(p, there) = OnlineValues(p, racks)
         /\ Sum(p, there) = Sum(p, racks)
         /\ IsFiniteSet(OnlineValues(p, racks)) /\ OnlineValues(p, racks) \subseteq Int
<1> DEFINE on == get_rbms_online(racks)
           rank == Rank(racks)
           there == OnlyOnline(racks)
           n == Cardinality(on)
           len == Len(racks)
           v == [i \in DOMAIN racks |-> IF racks[i].online THEN racks[i].at[p] ELSE 0]
           w == [i \in DOMAIN there |-> IF there[i].online THEN there[i].at[p] ELSE 0]
<1>1. /\ n \in Nat /\ len \in Nat /\ on \subseteq 1 .. len /\ IsFiniteSet(on)
      /\ DOMAIN racks = 1 .. len /\ DOMAIN there = 1 .. n /\ Len(there) = n
      /\ \A i \in on : \E k \in 1 .. n : rank[k] = i
      /\ \A k \in 1 .. n : rank[k] \in on
      /\ \A k \in 1 .. n : there[k] = racks[rank[k]]
      /\ get_rbms_online(there) = 1 .. n
  BY OnlineInOrder
<1>2. on = {i \in 1 .. len : racks[i].online}
  BY DEF get_rbms_online, get_rbms_num
<1>3. \A i \in 1 .. len : racks[i].online \in BOOLEAN /\ racks[i].at[p] \in Int
  BY <1>1 DEF RackList
<1>4. OnlineValues(p, racks) = {racks[i].at[p] : i \in on}
  BY DEF OnlineValues
<1>5. OnlineValues(p, there) = {there[k].at[p] : k \in 1 .. n}
  BY <1>1 DEF OnlineValues
<1>6. Sum(p, racks) = SumOf(v) /\ Sum(p, there) = SumOf(w)
  BY DEF Sum
<1> HIDE DEF on, rank, there, n, len
<1>7. OnlineValues(p, there) = OnlineValues(p, racks)
  <2>1. \A k \in 1 .. n : \E i \in on : there[k].at[p] = racks[i].at[p]
    BY <1>1
  <2>2. \A i \in on : \E k \in 1 .. n : racks[i].at[p] = there[k].at[p]
    BY <1>1
  <2>3. QED
    BY <1>4, <1>5, <2>1, <2>2
<1>8. OnlineValues(p, racks) \subseteq Int
  BY <1>1, <1>3, <1>4
<1>9. IsFiniteSet(OnlineValues(p, racks))
  <2> DEFINE f == [i \in on |-> racks[i].at[p]]
  <2>1. f \in Surjection(on, OnlineValues(p, racks))
    BY <1>4 DEF Surjection
  <2>2. QED
    BY <1>1, <2>1, FS_Surjection
<1>10. SumOf(v) = SumOf(w)
  <2>1. v = [i \in 1 .. len |-> IF racks[i].online THEN racks[i].at[p] ELSE 0] /\ Len(v) = len
    BY <1>1
  <2>2. w = [k \in 1 .. n |-> IF there[k].online THEN there[k].at[p] ELSE 0] /\ Len(w) = n
    BY <1>1
  <2>3. \A i \in 1 .. len : v[i] \in Int /\ (i \notin on => v[i] = 0) /\ (i \in on => v[i] = racks[i].at[p])
    BY <1>2, <1>3, <2>1
  <2>4. \A k \in 1 .. n : w[k] = v[rank[k]]
    <3> SUFFICES ASSUME NEW k \in 1 .. n PROVE w[k] = v[rank[k]]
      OBVIOUS
    <3>1. rank[k] \in on /\ there[k] = racks[rank[k]] /\ racks[rank[k]].online
      BY <1>1, <1>2
    <3>2. w[k] = racks[rank[k]].at[p]
      BY <2>2, <3>1
    <3>3. QED
      BY <1>1, <2>3, <3>1, <3>2
  <2> HIDE DEF v, w
  <2>5. /\ Len(v) = Len(racks) /\ Len(w) = Cardinality(get_rbms_online(racks))
        /\ \A i \in 1 .. Len(racks) : v[i] \in Int
        /\ \A i \in 1 .. Len(racks) : i \notin get_rbms_online(racks) => v[i] = 0
        /\ \A k \in 1 .. Cardinality(get_rbms_online(racks)) : w[k] = v[Rank(racks)[k]]
    BY <2>1, <2>2, <2>3, <2>4 DEF on, rank, n, len
  <2>6. QED
    BY <2>5, OnlineSums
<1>11. QED
  BY <1>6, <1>7, <1>8, <1>9, <1>10 DEF there

\* The tables of sums, of greatest and of least values.
LEMMA TableStatistics ==
  ASSUME NEW racks, RackList(racks, RackNames), NEW table, PointTable(table)
  PROVE  LET there == OnlyOnline(racks) IN
         /\ Statistic(Sum, table, there) = Statistic(Sum, table, racks)
         /\ Statistic(Greatest, table, there) = Statistic(Greatest, table, racks)
         /\ Statistic(Least, table, there) = Statistic(Least, table, racks)
<1> DEFINE there == OnlyOnline(racks)
<1>1. \A t \in DOMAIN table :
        /\ OnlineValues(table[t], there) = OnlineValues(table[t], racks)
        /\ Sum(table[t], there) = Sum(table[t], racks)
  BY OneStatistic DEF PointTable
<1> HIDE DEF there
<1>2. Statistic(Sum, table, there) = Statistic(Sum, table, racks)
  BY <1>1 DEF Statistic
<1>3. \A t \in DOMAIN table : /\ Greatest(table[t], there) = Greatest(table[t], racks)
                              /\ Least(table[t], there) = Least(table[t], racks)
  BY <1>1 DEF Greatest, Least
<1>4. /\ Statistic(Greatest, table, there) = Statistic(Greatest, table, racks)
      /\ Statistic(Least, table, there) = Statistic(Least, table, racks)
  BY <1>3 DEF Statistic
<1>5. QED
  BY <1>2, <1>4 DEF there

\* The first and the last of some racks that are online keep their places among them.
LEMMA ExtremesInOrder ==
  ASSUME NEW racks, RackList(racks, RackNames), NEW D \in SUBSET get_rbms_online(racks)
  PROVE  LET E == {k \in 1 .. Cardinality(get_rbms_online(racks)) : Rank(racks)[k] \in D} IN
         /\ D = {} <=> E = {}
         /\ D # {} => /\ Min(D) = Rank(racks)[Min(E)] /\ Max(D) = Rank(racks)[Max(E)]
                      /\ Min(E) \in E /\ Max(E) \in E
<1> DEFINE on == get_rbms_online(racks)
           rank == Rank(racks)
           n == Cardinality(on)
           E == {k \in 1 .. n : rank[k] \in D}
<1>1. /\ n \in Nat /\ IsFiniteSet(on) /\ on \subseteq 1 .. Len(racks)
      /\ \A i, j \in 1 .. n : i < j => rank[i] < rank[j]
      /\ \A i \in on : \E k \in 1 .. n : rank[k] = i
      /\ \A k \in 1 .. n : rank[k] \in on
  BY OnlineInOrder
<1> HIDE DEF on, rank, n
<1>2. D \subseteq on
  BY DEF on
<1>3. D \subseteq Int /\ IsFiniteSet(D)
  <2>1. IsFiniteSet(D)
    BY <1>1, <1>2, FS_Subset
  <2>2. QED
    BY <1>1, <1>2, <2>1
<1>4. E \subseteq Int /\ IsFiniteSet(E)
  <2>1. IsFiniteSet(1 .. n) /\ E \in SUBSET (1 .. n)
    BY <1>1, FS_Interval
  <2>2. IsFiniteSet(E)
    BY <2>1, FS_Subset
  <2>3. QED
    BY <2>1, <2>2
<1>5. D = {} <=> E = {}
  BY <1>1, <1>2
<1>6. ASSUME D # {}
      PROVE  Min(D) = rank[Min(E)] /\ Max(D) = rank[Max(E)] /\ Min(E) \in E /\ Max(E) \in E
  <2>1. /\ Min(D) \in D /\ \A k \in D : Min(D) <= k
        /\ Max(D) \in D /\ \A k \in D : Max(D) >= k
    BY <1>3, <1>6, FiniteExtremes
  <2>2. /\ Min(E) \in E /\ \A k \in E : Min(E) <= k
        /\ Max(E) \in E /\ \A k \in E : Max(E) >= k
    <3> HIDE DEF E
    <3>1. QED
      BY <1>4, <1>5, <1>6, FiniteExtremes
  <2>3. PICK a \in 1 .. n : rank[a] = Min(D)
    BY <1>1, <1>2, <2>1
  <2>4. PICK b \in 1 .. n : rank[b] = Max(D)
    BY <1>1, <1>2, <2>1
  <2>5. a \in E /\ b \in E
    BY <2>1, <2>3, <2>4
  <2> DEFINE least == Min(E)
             most == Max(E)
             low == Min(D)
             high == Max(D)
  <2> HIDE DEF least, most, low, high
  <2>6. least \in 1 .. n /\ most \in 1 .. n /\ rank[least] \in D /\ rank[most] \in D
    BY <2>2 DEF least, most
  <2>7. low \in Int /\ high \in Int /\ rank[least] \in Int /\ rank[most] \in Int
    BY <1>3, <2>1, <2>6 DEF low, high
  <2>8. rank[least] = low
    <3>1. low <= rank[least] /\ least <= a
      BY <2>1, <2>2, <2>5, <2>6 DEF low, least
    <3>2. least < a => rank[least] < rank[a]
      BY <1>1, <2>6
    <3>3. rank[a] = low
      BY <2>3 DEF low
    <3>4. QED
      BY <2>6, <2>7, <3>1, <3>2, <3>3
  <2>9. rank[most] = high
    <3>1. high >= rank[most] /\ most >= b
      BY <2>1, <2>2, <2>5, <2>6 DEF high, most
    <3>2. b < most => rank[b] < rank[most]
      BY <1>1, <2>6
    <3>3. rank[b] = high
      BY <2>4 DEF high
    <3>4. QED
      BY <2>6, <2>7, <3>1, <3>2, <3>3
  <2>10. QED
    BY <2>2, <2>8, <2>9 DEF least, most, low, high
<1>7. QED
  BY <1>5, <1>6 DEF on, rank, n

\* Which racks there are with some property is known without the offline ones.
LEMMA SameThere ==
  ASSUME NEW racks, RackList(racks, RackNames)
  PROVE  LET there == OnlyOnline(racks)
             n == Cardinality(get_rbms_online(racks))
         IN  /\ get_rbms_online(there) = 1 .. n
             /\ Cardinality(get_rbms_online(there)) = n
             /\ \A k \in 1 .. n : Rank(racks)[k] \in get_rbms_online(racks)
             /\ \A k \in 1 .. n : there[k] = racks[Rank(racks)[k]]
<1>1. LET n == Cardinality(get_rbms_online(racks)) IN
      /\ n \in Nat /\ get_rbms_online(OnlyOnline(racks)) = 1 .. n
      /\ \A k \in 1 .. n : Rank(racks)[k] \in get_rbms_online(racks)
      /\ \A k \in 1 .. n : OnlyOnline(racks)[k] = racks[Rank(racks)[k]]
  BY OnlineInOrder
<1> DEFINE n == Cardinality(get_rbms_online(racks))
<1> HIDE DEF n
<1>2. n \in Nat
  BY <1>1 DEF n
<1>3. Cardinality(1 .. n) = n
  BY <1>2, FS_Interval
<1>4. QED
  BY <1>1, <1>3 DEF n

\* The state of the stack.
LEMMA StatusThere ==
  ASSUME NEW racks, RackList(racks, RackNames)
  PROVE  bms_bank_status_update(OnlyOnline(racks)) = bms_bank_status_update(racks)
<1> DEFINE on == get_rbms_online(racks)
           rank == Rank(racks)
           there == OnlyOnline(racks)
           n == Cardinality(on)
           D == {i \in on : racks[i].status \in Decide}
           E == {k \in 1 .. n : rank[k] \in D}
           F == {k \in get_rbms_online(there) : there[k].status \in Decide}
<1>1. /\ get_rbms_online(there) = 1 .. n
      /\ \A k \in 1 .. n : rank[k] \in on
      /\ \A k \in 1 .. n : there[k] = racks[rank[k]]
  BY SameThere
<1>2. \A i \in on : \E k \in 1 .. n : rank[k] = i
  BY OnlineInOrder
<1>3. D \in SUBSET get_rbms_online(racks)
  OBVIOUS
<1>4. /\ D = {} <=> E = {}
      /\ D # {} => Min(D) = rank[Min(E)] /\ Min(E) \in E
  <2> HIDE DEF D
  <2>1. LET P == {k \in 1 .. n : rank[k] \in D} IN
         /\ D = {} <=> P = {}
         /\ D # {} => /\ Min(D) = rank[Min(P)] /\ Max(D) = rank[Max(P)]
                      /\ Min(P) \in P /\ Max(P) \in P
    BY <1>3, ExtremesInOrder DEF on, rank, n
  <2>2. QED
    BY <2>1
<1>5. bms_bank_status_update(racks) =
        IF D # {} THEN racks[Min(D)].status
        ELSE IF \E i \in on : racks[i].status = "Connected" THEN "Connected" ELSE "Allocation"
  BY DEF bms_bank_status_update
<1>6. bms_bank_status_update(there) =
        IF F # {} THEN there[Min(F)].status
        ELSE IF \E k \in get_rbms_online(there) : there[k].status = "Connected" THEN "Connected"
             ELSE "Allocation"
  BY DEF bms_bank_status_update
<1> HIDE DEF on, rank, there, n
<1>7. E = F
  BY <1>1
<1>8. (\E i \in on : racks[i].status = "Connected") <=>
        \E k \in get_rbms_online(there) : there[k].status = "Connected"
  BY <1>1, <1>2
<1>9. D # {} => there[Min(E)] = racks[Min(D)]
  <2> HIDE DEF D
  <2>1. QED
    BY <1>1, <1>4
<1> HIDE DEF D, E, F
<1>10. QED
  BY <1>4, <1>5, <1>6, <1>7, <1>8, <1>9 DEF there

\* Whether it charges.
LEMMA ChargingThere ==
  ASSUME NEW racks, RackList(racks, RackNames)
  PROVE  bms_bank_charge_status_update(OnlyOnline(racks)) = bms_bank_charge_status_update(racks)
<1> DEFINE on == get_rbms_online(racks)
           rank == Rank(racks)
           there == OnlyOnline(racks)
           n == Cardinality(on)
           Those(states) == {i \in on : racks[i].charging \in states}
           Ranks(states) == {k \in 1 .. n : rank[k] \in Those(states)}
           There(states) == {k \in get_rbms_online(there) : there[k].charging \in states}
           Move == {"Discharge", "Charge"}
           Full == {"FullDischarge", "FullCharge"}
<1>1. /\ get_rbms_online(there) = 1 .. n
      /\ \A k \in 1 .. n : rank[k] \in on
      /\ \A k \in 1 .. n : there[k] = racks[rank[k]]
  BY SameThere
<1>2. ASSUME NEW states
      PROVE  /\ Those(states) = {} <=> Ranks(states) = {}
             /\ Those(states) # {} =>
                  /\ Min(Those(states)) = rank[Min(Ranks(states))] /\ Min(Ranks(states)) \in Ranks(states)
                  /\ Max(Those(states)) = rank[Max(Ranks(states))] /\ Max(Ranks(states)) \in Ranks(states)
  <2> DEFINE D == Those(states)
  <2>1. D \in SUBSET get_rbms_online(racks)
    OBVIOUS
  <2> HIDE DEF D
  <2>2. LET E == {k \in 1 .. n : rank[k] \in D} IN
         /\ D = {} <=> E = {}
         /\ D # {} => /\ Min(D) = rank[Min(E)] /\ Max(D) = rank[Max(E)]
                      /\ Min(E) \in E /\ Max(E) \in E
    BY <2>1, ExtremesInOrder DEF on, rank, n
  <2>3. QED
    BY <2>2 DEF D
<1>3. bms_bank_charge_status_update(racks) =
        IF Those(Move) # {} THEN racks[Min(Those(Move))].charging
        ELSE IF Those(Full) # {} THEN racks[Max(Those(Full))].charging ELSE "NotConnected"
  BY DEF bms_bank_charge_status_update
<1>4. bms_bank_charge_status_update(there) =
        IF There(Move) # {} THEN there[Min(There(Move))].charging
        ELSE IF There(Full) # {} THEN there[Max(There(Full))].charging ELSE "NotConnected"
  BY DEF bms_bank_charge_status_update
<1> HIDE DEF on, rank, there, n
<1>5. \A states : There(states) = Ranks(states)
  BY <1>1
<1>6. \A states : \A k \in Ranks(states) : there[k] = racks[rank[k]]
  BY <1>1
<1> HIDE DEF Those, Ranks, There, Move, Full
<1>7. Those(Move) # {} => there[Min(There(Move))] = racks[Min(Those(Move))]
  BY <1>2, <1>5, <1>6
<1>8. Those(Full) # {} => there[Max(There(Full))] = racks[Max(Those(Full))]
  BY <1>2, <1>5, <1>6
<1>9. \A states : Those(states) = {} <=> There(states) = {}
  BY <1>2, <1>5
<1>10. QED
  BY <1>3, <1>4, <1>7, <1>8, <1>9 DEF there

\* What else of its racks the stack counts and collects.
LEMMA RestThere ==
  ASSUME NEW racks, RackList(racks, RackNames)
  PROVE  LET there == OnlyOnline(racks) IN
         /\ bms_bank_total_power_update(there) = bms_bank_total_power_update(racks)
         /\ bms_bank_rack_enaNbr_update(there) = bms_bank_rack_enaNbr_update(racks)
         /\ bms_bank_con_fail_update(there) = bms_bank_con_fail_update(racks)
<1> DEFINE on == get_rbms_online(racks)
           rank == Rank(racks)
           there == OnlyOnline(racks)
           n == Cardinality(on)
           len == Len(racks)
           power(r) == r.at["DCBusV"] * r.at["A_HighAccu"]
           v == [i \in DOMAIN racks |-> IF racks[i].online THEN power(racks[i]) ELSE 0]
           w == [i \in DOMAIN there |-> IF there[i].online THEN power(there[i]) ELSE 0]
<1>1. /\ n \in Nat /\ len \in Nat /\ on \subseteq 1 .. len /\ IsFiniteSet(on)
      /\ DOMAIN racks = 1 .. len /\ DOMAIN there = 1 .. n /\ Len(there) = n
      /\ \A i, j \in 1 .. n : i < j => rank[i] < rank[j]
      /\ \A i \in on : \E k \in 1 .. n : rank[k] = i
      /\ \A k \in 1 .. n : rank[k] \in on
      /\ \A k \in 1 .. n : there[k] = racks[rank[k]]
      /\ get_rbms_online(there) = 1 .. n
  BY OnlineInOrder
<1>2. on = {i \in 1 .. len : racks[i].online}
  BY DEF get_rbms_online, get_rbms_num
<1>3. \A i \in 1 .. len : racks[i].online \in BOOLEAN /\ power(racks[i]) \in Int
  <2>1. \A i \in 1 .. len : /\ racks[i].online \in BOOLEAN
                            /\ racks[i].at["DCBusV"] \in Int /\ racks[i].at["A_HighAccu"] \in Int
    BY <1>1, PointTables DEF RackList
  <2>2. QED
    BY <2>1
<1>4. /\ bms_bank_total_power_update(racks) = SumOf(v) \div 1000
      /\ bms_bank_total_power_update(there) = SumOf(w) \div 1000
  BY DEF bms_bank_total_power_update
<1>5. /\ bms_bank_rack_enaNbr_update(racks) = Cardinality({i \in on : "BatStrDis" \in racks[i].confail})
      /\ bms_bank_rack_enaNbr_update(there) = Cardinality({k \in 1 .. n : "BatStrDis" \in there[k].confail})
  BY <1>1 DEF bms_bank_rack_enaNbr_update
<1>6. /\ bms_bank_con_fail_update(racks) = UNION {racks[i].confail : i \in on}
      /\ bms_bank_con_fail_update(there) = UNION {there[k].confail : k \in 1 .. n}
  BY <1>1 DEF bms_bank_con_fail_update
<1> HIDE DEF on, rank, there, n, len, power
<1>7. SumOf(v) = SumOf(w)
  <2>1. v = [i \in 1 .. len |-> IF racks[i].online THEN power(racks[i]) ELSE 0] /\ Len(v) = len
    BY <1>1
  <2>2. w = [k \in 1 .. n |-> IF there[k].online THEN power(there[k]) ELSE 0] /\ Len(w) = n
    BY <1>1
  <2>3. \A i \in 1 .. len : v[i] \in Int /\ (i \notin on => v[i] = 0) /\ (i \in on => v[i] = power(racks[i]))
    BY <1>2, <1>3, <2>1
  <2>4. \A k \in 1 .. n : w[k] = v[rank[k]]
    <3> SUFFICES ASSUME NEW k \in 1 .. n PROVE w[k] = v[rank[k]]
      OBVIOUS
    <3>1. rank[k] \in on /\ there[k] = racks[rank[k]] /\ racks[rank[k]].online
      BY <1>1, <1>2
    <3>2. w[k] = power(racks[rank[k]])
      BY <2>2, <3>1
    <3>3. QED
      BY <1>1, <2>3, <3>1, <3>2
  <2> HIDE DEF v, w
  <2>5. /\ Len(v) = Len(racks) /\ Len(w) = Cardinality(get_rbms_online(racks))
        /\ \A i \in 1 .. Len(racks) : v[i] \in Int
        /\ \A i \in 1 .. Len(racks) : i \notin get_rbms_online(racks) => v[i] = 0
        /\ \A k \in 1 .. Cardinality(get_rbms_online(racks)) : w[k] = v[Rank(racks)[k]]
    BY <2>1, <2>2, <2>3, <2>4 DEF on, rank, n, len
  <2>6. QED
    BY <2>5, OnlineSums
<1>8. Cardinality({i \in on : "BatStrDis" \in racks[i].confail})
        = Cardinality({k \in 1 .. n : "BatStrDis" \in there[k].confail})
  <2> DEFINE S == {k \in 1 .. n : "BatStrDis" \in there[k].confail}
             T == {i \in on : "BatStrDis" \in racks[i].confail}
             f == [k \in S |-> rank[k]]
  <2>1. IsFiniteSet(S)
    <3>1. IsFiniteSet(1 .. n) /\ S \in SUBSET (1 .. n)
      BY <1>1, FS_Interval
    <3>2. QED
      BY <3>1, FS_Subset
  <2>2. \A k \in S : rank[k] \in T
    BY <1>1
  <2>3. \A i \in T : \E k \in S : rank[k] = i
    BY <1>1
  <2>4. \A j, k \in S : rank[j] = rank[k] => j = k
    <3>1. \A j, k \in 1 .. n : rank[j] = rank[k] => j = k
      <4>1. \A j \in 1 .. n : rank[j] \in Int
        <5>1. on \subseteq 1 .. len /\ len \in Nat /\ \A j \in 1 .. n : rank[j] \in on
          BY <1>1
        <5>2. \A i \in 1 .. len : i \in Int
          BY <5>1
        <5>3. QED
          BY <5>1, <5>2
      <4>2. QED
        BY <1>1, <4>1
    <3>2. QED
      BY <3>1
  <2> HIDE DEF S, T
  <2>5. f \in Bijection(S, T)
    BY <2>2, <2>3, <2>4 DEF Bijection, Injection, Surjection, IsInjective
  <2>6. Cardinality(T) = Cardinality(S)
    BY <2>1, <2>5, FS_Bijection DEF ExistsBijection
  <2>7. QED
    BY <2>6 DEF S, T
<1>9. UNION {racks[i].confail : i \in on} = UNION {there[k].confail : k \in 1 .. n}
  <2>1. \A k \in 1 .. n : \E i \in on : there[k].confail = racks[i].confail
    BY <1>1
  <2>2. \A i \in on : \E k \in 1 .. n : racks[i].confail = there[k].confail
    BY <1>1
  <2>3. {racks[i].confail : i \in on} = {there[k].confail : k \in 1 .. n}
    BY <2>1, <2>2
  <2>4. QED
    BY <2>3
<1> HIDE DEF v, w
<1>10. /\ bms_bank_total_power_update(there) = bms_bank_total_power_update(racks)
       /\ bms_bank_rack_enaNbr_update(there) = bms_bank_rack_enaNbr_update(racks)
       /\ bms_bank_con_fail_update(there) = bms_bank_con_fail_update(racks)
  BY <1>4, <1>5, <1>6, <1>7, <1>8, <1>9
<1>11. QED
  BY <1>10 DEF there

\* A rack that is offline leaves no trace in the statistics of the stack.
LEMMA NoTraceOfOffline ==
  ASSUME NEW racks, RackList(racks, RackNames), NEW given
  PROVE  OfflineLeaveNoTrace(racks, given)
<1> DEFINE there == OnlyOnline(racks)
<1>1. UpdateSums(there) = UpdateSums(racks)
  BY TableStatistics, PointTables DEF UpdateSums
<1>2. UpdateBus(there, given) = UpdateBus(racks, given)
  <2>1. /\ bms_bank_total_power_update(there) = bms_bank_total_power_update(racks)
        /\ Statistic(Greatest, GreatestBus, there) = Statistic(Greatest, GreatestBus, racks)
    BY RestThere, TableStatistics, PointTables
  <2> HIDE DEF there
  <2>2. QED
    BY <2>1 DEF UpdateBus
<1>3. Cardinality(get_rbms_online(there)) = Cardinality(get_rbms_online(racks))
  BY SameThere
<1>4. \A p \in {"DCBusV", "A_HighAccu", "CellVAvg", "ModTmpAvg", "BMSMaxFltLevel"} :
        Sum(p, there) = Sum(p, racks) /\ OnlineValues(p, there) = OnlineValues(p, racks)
  BY OneStatistic, PointTables
<1>5. UpdateFaults(there, given) = UpdateFaults(racks, given)
  <2>1. /\ Sum("A_HighAccu", there) = Sum("A_HighAccu", racks)
        /\ bms_get_total_fault_level(there, given.lqdLevel, given.bankLevel)
             = bms_get_total_fault_level(racks, given.lqdLevel, given.bankLevel)
    BY <1>4 DEF bms_get_total_fault_level
  <2>2. /\ bms_bank_rack_enaNbr_update(there) = bms_bank_rack_enaNbr_update(racks)
        /\ bms_bank_con_fail_update(there) = bms_bank_con_fail_update(racks)
        /\ Statistic(Least, LeastIso, there) = Statistic(Least, LeastIso, racks)
    BY RestThere, TableStatistics, PointTables
  <2> HIDE DEF there
  <2>3. QED
    BY <1>3, <2>1, <2>2 DEF UpdateFaults
<1>6. UpdateTemperatures(there) = UpdateTemperatures(racks)
  <2>1. /\ Statistic(Greatest, GreatestOf ++ GreatestPole, there)
             = Statistic(Greatest, GreatestOf ++ GreatestPole, racks)
        /\ Statistic(Least, LeastOf ++ LeastPole, there) = Statistic(Least, LeastOf ++ LeastPole, racks)
    BY TableStatistics, PointTables
  <2>2. Sum("ModTmpAvg", there) = Sum("ModTmpAvg", racks)
    BY <1>4
  <2>3. bms_bank_avg_cell_t_deg_c_update(there) = bms_bank_avg_cell_t_deg_c_update(racks)
    BY <1>3, <2>2 DEF bms_bank_avg_cell_t_deg_c_update
  <2> HIDE DEF there
  <2>4. QED
    BY <2>1, <2>3 DEF UpdateTemperatures
<1>7. OnlineStatistics(racks, given) = OnlineStatistics(there, given)
  <2> HIDE DEF there
  <2>1. QED
    BY <1>1, <1>2, <1>5, <1>6 DEF OnlineStatistics
<1>8. QED
  BY <1>7, StatusThere, ChargingThere DEF OfflineLeaveNoTrace

-----------------------------------------------------------------------------
\* Where the points of the stack come from: the later tables write none of those
\* of an earlier one.
LEMMA BankShows ==
  ASSUME NEW racks, NEW given
  PROVE  LET bank == bms_bank_statistics_update(racks, given) IN
         /\ bank.BatSt = bms_bank_status_update(racks)
         /\ bank.BMSMaxFltLevel = bms_get_total_fault_level(racks, given.lqdLevel, given.bankLevel)
         /\ \A t \in DOMAIN LeastOf : bank[t] = Least(LeastOf[t], racks)
         /\ \A t \in DOMAIN GreatestOf : bank[t] = Greatest(GreatestOf[t], racks)
         /\ \A t \in DOMAIN LeastIso : bank[t] = Least(LeastIso[t], racks)
<1> DEFINE bank == bms_bank_statistics_update(racks, given)
           State == UpdateState(racks, given)
           Online == OnlineStatistics(racks, given)
           Totals == UpdateSums(racks)
           Bus == UpdateBus(racks, given)
           Faults == UpdateFaults(racks, given)
           Temps == UpdateTemperatures(racks)
           Shown == {"BMSMaxFltLevel", "MinHvBoxTDegC", "MinCellT", "MaxHvBoxTDegC", "MaxCellT",
                     "IsoRPos", "IsoRNeg"}
<1>1. DOMAIN State = {"BatSt", "ChSt", "SysOperSt", "PmtRkFltNum", "SetInverterSt", "RackFltLvl1Nbr",
                      "CntrSt", "SOC", "SOH", "WtrSt"}
      /\ State["BatSt"] = bms_bank_status_update(racks)
  BY DEF UpdateState
<1>2. DOMAIN Totals \cap Shown = {}
  <2>1. DOMAIN Totals = DOMAIN (SummedPowers ++ SummedCurrents ++ SummedBus ++ SummedEnergies
                               ++ SummedCapacities)
    BY DEF UpdateSums, Statistic
  <2>2. DOMAIN Totals = DOMAIN SummedPowers \cup DOMAIN SummedCurrents \cup DOMAIN SummedBus
                       \cup DOMAIN SummedEnergies \cup DOMAIN SummedCapacities
    BY <2>1 DEF ++
  <2>3. /\ DOMAIN SummedPowers \cap Shown = {} /\ DOMAIN SummedCurrents \cap Shown = {}
        /\ DOMAIN SummedBus \cap Shown = {} /\ DOMAIN SummedEnergies \cap Shown = {}
        /\ DOMAIN SummedCapacities \cap Shown = {}
    BY DEF SummedPowers, SummedCurrents, SummedBus, SummedEnergies, SummedCapacities
  <2>4. QED
    BY <2>2, <2>3
<1>3. DOMAIN Bus \cap Shown = {}
  <2> DEFINE sensors == [HumSensorRH |-> bms_bank_hum_sensor_rh_update(given.dehumidifiers),
                         TmpSensorRH |-> bms_bank_tmp_sensor_rh_update(given.dehumidifiers),
                         StrCtrlHb |-> given.heart, TotalPower |-> bms_bank_total_power_update(racks)]
  <2>1. Bus = sensors ++ Statistic(Greatest, GreatestBus, racks)
    BY DEF UpdateBus
  <2>2. DOMAIN sensors \cap Shown = {}
    OBVIOUS
  <2>3. DOMAIN Statistic(Greatest, GreatestBus, racks) \cap Shown = {}
    BY DEF Statistic, GreatestBus
  <2> HIDE DEF sensors, Bus
  <2>4. QED
    BY <2>1, <2>2, <2>3, Beside
<1>4. /\ {"BMSMaxFltLevel", "IsoRPos", "IsoRNeg"} \subseteq DOMAIN Faults
      /\ DOMAIN Faults \cap {"MinHvBoxTDegC", "MinCellT", "MaxHvBoxTDegC", "MaxCellT"} = {}
      /\ Faults["BMSMaxFltLevel"] = bms_get_total_fault_level(racks, given.lqdLevel, given.bankLevel)
      /\ Faults["IsoRPos"] = Least(LeastIso["IsoRPos"], racks)
      /\ Faults["IsoRNeg"] = Least(LeastIso["IsoRNeg"], racks)
  <2> DEFINE counts ==
               [ProhUpgradeFlg |-> bms_bank_proh_upgrade_flg_update(Sum("A_HighAccu", racks)),
                BMSMaxFltLevel |-> bms_get_total_fault_level(racks, given.lqdLevel, given.bankLevel),
                IDLearnSt |-> 0, IDLearnFaiLocationNbr |-> 0,
                RackEnaNbr |-> bms_bank_rack_enaNbr_update(racks),
                RackOnlineNbr |-> Cardinality(get_rbms_online(racks)),
                ConFail |-> bms_bank_con_fail_update(racks)]
             isolation == Statistic(Least, LeastIso, racks)
  <2>1. Faults = counts ++ isolation
    BY DEF UpdateFaults
  <2>2. /\ DOMAIN counts = {"ProhUpgradeFlg", "BMSMaxFltLevel", "IDLearnSt", "IDLearnFaiLocationNbr",
                            "RackEnaNbr", "RackOnlineNbr", "ConFail"}
        /\ counts["BMSMaxFltLevel"] = bms_get_total_fault_level(racks, given.lqdLevel, given.bankLevel)
    OBVIOUS
  <2>3. /\ DOMAIN isolation = {"IsoRPos", "IsoRNeg"}
        /\ \A t \in {"IsoRPos", "IsoRNeg"} : isolation[t] = Least(LeastIso[t], racks)
    <3>1. DOMAIN LeastIso = {"IsoRPos", "IsoRNeg"}
      BY DEF LeastIso
    <3>2. QED
      BY <3>1 DEF Statistic
  <2> HIDE DEF counts, isolation, Faults
  <2>4. QED
    BY <2>1, <2>2, <2>3 DEF ++
<1>5. /\ {"MinHvBoxTDegC", "MinCellT", "MaxHvBoxTDegC", "MaxCellT"} \subseteq DOMAIN Temps
      /\ \A t \in {"MinHvBoxTDegC", "MinCellT"} : Temps[t] = Least(LeastOf[t], racks)
      /\ \A t \in {"MaxHvBoxTDegC", "MaxCellT"} : Temps[t] = Greatest(GreatestOf[t], racks)
  <2> DEFINE most == Statistic(Greatest, GreatestOf ++ GreatestPole, racks)
             fewest == Statistic(Least, LeastOf ++ LeastPole, racks)
             average == [AvgCellT |-> bms_bank_avg_cell_t_deg_c_update(racks)]
  <2>1. Temps = (most ++ fewest) ++ average
    BY DEF UpdateTemperatures
  <2>2. /\ DOMAIN GreatestOf = {"MaxHvBoxTDegC", "MaxCellT"} /\ DOMAIN GreatestPole = {"MaxPoleT"}
        /\ DOMAIN LeastOf = {"MinHvBoxTDegC", "MinCellT"} /\ DOMAIN LeastPole = {"MinPoleT"}
    BY DEF GreatestOf, GreatestPole, LeastOf, LeastPole
  <2>3. /\ DOMAIN most = {"MaxHvBoxTDegC", "MaxCellT", "MaxPoleT"}
        /\ \A t \in {"MaxHvBoxTDegC", "MaxCellT"} : most[t] = Greatest(GreatestOf[t], racks)
    <3>1. /\ DOMAIN (GreatestOf ++ GreatestPole) = {"MaxHvBoxTDegC", "MaxCellT", "MaxPoleT"}
          /\ \A t \in {"MaxHvBoxTDegC", "MaxCellT"} : (GreatestOf ++ GreatestPole)[t] = GreatestOf[t]
      BY <2>2 DEF ++
    <3>2. QED
      BY <3>1 DEF Statistic
  <2>4. /\ DOMAIN fewest = {"MinHvBoxTDegC", "MinCellT", "MinPoleT"}
        /\ \A t \in {"MinHvBoxTDegC", "MinCellT"} : fewest[t] = Least(LeastOf[t], racks)
    <3>1. /\ DOMAIN (LeastOf ++ LeastPole) = {"MinHvBoxTDegC", "MinCellT", "MinPoleT"}
          /\ \A t \in {"MinHvBoxTDegC", "MinCellT"} : (LeastOf ++ LeastPole)[t] = LeastOf[t]
      BY <2>2 DEF ++
    <3>2. QED
      BY <3>1 DEF Statistic
  <2> HIDE DEF most, fewest, average, Temps
  <2>5. /\ DOMAIN (most ++ fewest) = DOMAIN most \cup DOMAIN fewest
        /\ \A t \in {"MaxHvBoxTDegC", "MaxCellT"} : (most ++ fewest)[t] = most[t]
        /\ \A t \in {"MinHvBoxTDegC", "MinCellT"} : (most ++ fewest)[t] = fewest[t]
    BY <2>3, <2>4 DEF ++
  <2>6. /\ {"MinHvBoxTDegC", "MinCellT", "MaxHvBoxTDegC", "MaxCellT"} \subseteq DOMAIN Temps
        /\ \A t \in {"MinHvBoxTDegC", "MinCellT", "MaxHvBoxTDegC", "MaxCellT"} :
             Temps[t] = (most ++ fewest)[t]
    BY <2>1, <2>3, <2>4, <2>5 DEF ++
  <2>7. QED
    BY <2>3, <2>4, <2>5, <2>6
<1>6. Online = ((Totals ++ Bus) ++ Faults) ++ Temps
  BY DEF OnlineStatistics
<1>7. PICK Cells, Poles, ByRack : bank = (((State ++ Online) ++ Cells) ++ Poles) ++ ByRack
  BY DEF bms_bank_statistics_update
<1> HIDE DEF bank, State, Online, Totals, Bus, Faults, Temps
<1>8. /\ Shown \subseteq DOMAIN Online
      /\ \A t \in {"BMSMaxFltLevel", "IsoRPos", "IsoRNeg"} : Online[t] = Faults[t]
      /\ \A t \in {"MinHvBoxTDegC", "MinCellT", "MaxHvBoxTDegC", "MaxCellT"} : Online[t] = Temps[t]
  <2> DEFINE two == Totals ++ Bus
             three == two ++ Faults
  <2>1. DOMAIN two \cap Shown = {}
    BY <1>2, <1>3, Beside
  <2> HIDE DEF two
  <2>2. /\ {"BMSMaxFltLevel", "IsoRPos", "IsoRNeg"} \subseteq DOMAIN three
        /\ \A t \in {"BMSMaxFltLevel", "IsoRPos", "IsoRNeg"} : three[t] = Faults[t]
        /\ DOMAIN three \cap {"MinHvBoxTDegC", "MinCellT", "MaxHvBoxTDegC", "MaxCellT"} = {}
    BY <1>4, <2>1 DEF ++
  <2>3. Online = three ++ Temps
    BY <1>6 DEF two
  <2> HIDE DEF three
  <2>4. QED
    BY <1>5, <2>2, <2>3 DEF ++
<1>9. \A t \in Shown : bank[t] = Online[t]
  <2> HIDE DEF Shown
  <2>1. \A t \in Shown : t \in DOMAIN (State ++ Online) /\ (State ++ Online)[t] = Online[t]
    <3>1. DOMAIN State \cap Shown = {}
      BY <1>1 DEF Shown
    <3>2. QED
      BY <1>8, <3>1 DEF ++
  <2>2. QED
    BY <1>7, <2>1 DEF ++
<1>10. bank["BatSt"] = State["BatSt"]
  <2>1. "BatSt" \in DOMAIN (State ++ Online) /\ (State ++ Online)["BatSt"] = State["BatSt"]
    BY <1>1 DEF ++
  <2>2. QED
    BY <1>7, <2>1 DEF ++
<1>11. /\ DOMAIN LeastOf = {"MinHvBoxTDegC", "MinCellT"} /\ DOMAIN LeastIso = {"IsoRPos", "IsoRNeg"}
       /\ DOMAIN GreatestOf = {"MaxHvBoxTDegC", "MaxCellT"}
  BY DEF GreatestOf, LeastOf, LeastIso
<1>12. /\ bank.BatSt = bms_bank_status_update(racks)
       /\ bank.BMSMaxFltLevel = bms_get_total_fault_level(racks, given.lqdLevel, given.bankLevel)
  BY <1>1, <1>4, <1>8, <1>9, <1>10
<1>13. /\ \A t \in DOMAIN LeastOf : bank[t] = Least(LeastOf[t], racks)
       /\ \A t \in DOMAIN GreatestOf : bank[t] = Greatest(GreatestOf[t], racks)
       /\ \A t \in DOMAIN LeastIso : bank[t] = Least(LeastIso[t], racks)
  BY <1>4, <1>5, <1>8, <1>9, <1>11
<1>14. QED
  BY <1>12, <1>13 DEF bank

\* The worst rack shows.
LEMMA TheWorstShows ==
  ASSUME NEW racks, RackList(racks, RackNames), NEW given,
         given.lqdLevel \in Int, given.bankLevel \in Int
  PROVE  WorstRackShows(racks, given)
<1> DEFINE bank == bms_bank_statistics_update(racks, given)
           on == get_rbms_online(racks)
<1>1. ASSUME NEW p \in RackNames, NEW more, IsFiniteSet(more), more \subseteq Int
      PROVE  \A i \in on : /\ Min(more \cup OnlineValues(p, racks)) <= racks[i].at[p]
                           /\ Max(more \cup OnlineValues(p, racks)) >= racks[i].at[p]
  <2> SUFFICES ASSUME NEW i \in on
               PROVE  /\ Min(more \cup OnlineValues(p, racks)) <= racks[i].at[p]
                      /\ Max(more \cup OnlineValues(p, racks)) >= racks[i].at[p]
    OBVIOUS
  <2> DEFINE S == more \cup OnlineValues(p, racks)
  <2>1. IsFiniteSet(OnlineValues(p, racks)) /\ OnlineValues(p, racks) \subseteq Int
    BY OneStatistic
  <2>2. IsFiniteSet(S) /\ S \subseteq Int
    BY <1>1, <2>1, FS_Union
  <2>3. racks[i].at[p] \in S
    BY DEF OnlineValues
  <2> HIDE DEF S
  <2>4. Min(S) <= racks[i].at[p] /\ Max(S) >= racks[i].at[p]
    BY <2>2, <2>3, FiniteExtremes
  <2>5. QED
    BY <2>4 DEF S
<1>2. /\ IsFiniteSet({0}) /\ IsFiniteSet({65535})
      /\ IsFiniteSet({7, given.lqdLevel, given.bankLevel})
  <2>1. IsFiniteSet({0}) /\ IsFiniteSet({65535}) /\ IsFiniteSet({7})
    <3>1. \A x : IsFiniteSet({x})
      BY FS_Singleton
    <3>2. QED
      BY ONLY <3>1
  <2>2. IsFiniteSet({7} \cup {given.lqdLevel})
    BY <2>1, FS_AddElement
  <2>3. IsFiniteSet(({7} \cup {given.lqdLevel}) \cup {given.bankLevel})
    BY <2>2, FS_AddElement
  <2>4. {7, given.lqdLevel, given.bankLevel} = ({7} \cup {given.lqdLevel}) \cup {given.bankLevel}
    OBVIOUS
  <2>5. QED
    BY <2>1, <2>3, <2>4
<1>3. \A p \in RackNames : \A i \in on :
        Least(p, racks) <= racks[i].at[p] /\ Greatest(p, racks) >= racks[i].at[p]
  <2>1. {0} \subseteq Int /\ {65535} \subseteq Int
    OBVIOUS
  <2>2. \A p \in RackNames : \A i \in on : Min({65535} \cup OnlineValues(p, racks)) <= racks[i].at[p]
    BY <1>1, <1>2, <2>1
  <2>3. \A p \in RackNames : \A i \in on : Max({0} \cup OnlineValues(p, racks)) >= racks[i].at[p]
    <3> SUFFICES ASSUME NEW p \in RackNames
                 PROVE  \A i \in on : Max({0} \cup OnlineValues(p, racks)) >= racks[i].at[p]
      OBVIOUS
    <3> DEFINE more == {0}
    <3>1. IsFiniteSet(more) /\ more \subseteq Int
      BY <1>2, <2>1
    <3> HIDE DEF more
    <3>2. \A i \in on : Max(more \cup OnlineValues(p, racks)) >= racks[i].at[p]
      BY <1>1, <3>1
    <3>3. QED
      BY <3>2 DEF more
  <2>4. QED
    BY <2>2, <2>3 DEF Least, Greatest
<1>4. \A i \in on : bms_get_total_fault_level(racks, given.lqdLevel, given.bankLevel)
                      <= racks[i].at["BMSMaxFltLevel"]
  BY <1>1, <1>2, PointTables DEF bms_get_total_fault_level
<1>5. ASSUME NEW i \in on, racks[i].status \in Decide
      PROVE  bms_bank_status_update(racks) \in Decide
  <2> DEFINE D == {j \in on : racks[j].status \in Decide}
  <2>1. on \subseteq Int /\ IsFiniteSet(on)
    <3>1. on \subseteq 1 .. Len(racks) /\ IsFiniteSet(on)
      BY OnlineInOrder
    <3>2. QED
      BY <3>1
  <2>2. D # {} /\ D \subseteq Int /\ IsFiniteSet(D)
    <3>1. D \in SUBSET on /\ D # {}
      BY <1>5
    <3> HIDE DEF D, on
    <3>2. QED
      BY <2>1, <3>1, FS_Subset
  <2>3. Min(D) \in D
    <3> HIDE DEF D
    <3>1. QED
      BY <2>2, FiniteExtremes
  <2>4. bms_bank_status_update(racks) = racks[Min(D)].status
    BY <2>2 DEF bms_bank_status_update
  <2>5. QED
    BY <2>3, <2>4
<1>6. /\ \A t \in DOMAIN LeastOf : LeastOf[t] \in RackNames
      /\ \A t \in DOMAIN GreatestOf : GreatestOf[t] \in RackNames
      /\ \A t \in DOMAIN LeastIso : LeastIso[t] \in RackNames
  <2>1. PointTable(LeastOf) /\ PointTable(GreatestOf) /\ PointTable(LeastIso)
    BY DEF PointTable, GreatestOf, LeastOf, LeastIso, RackNames
  <2>2. QED
    BY <2>1 DEF PointTable
<1>7. /\ bank.BatSt = bms_bank_status_update(racks)
      /\ bank.BMSMaxFltLevel = bms_get_total_fault_level(racks, given.lqdLevel, given.bankLevel)
      /\ \A t \in DOMAIN LeastOf : bank[t] = Least(LeastOf[t], racks)
      /\ \A t \in DOMAIN GreatestOf : bank[t] = Greatest(GreatestOf[t], racks)
      /\ \A t \in DOMAIN LeastIso : bank[t] = Least(LeastIso[t], racks)
  BY BankShows
<1> HIDE DEF bank
<1>8. ASSUME NEW i \in on
      PROVE  /\ racks[i].status \in Decide => bank.BatSt \in Decide
             /\ bank.BMSMaxFltLevel <= racks[i].at["BMSMaxFltLevel"]
             /\ \A t \in DOMAIN LeastOf : bank[t] <= racks[i].at[LeastOf[t]]
             /\ \A t \in DOMAIN GreatestOf : bank[t] >= racks[i].at[GreatestOf[t]]
             /\ \A t \in DOMAIN LeastIso : bank[t] <= racks[i].at[LeastIso[t]]
  BY <1>3, <1>4, <1>5, <1>6, <1>7
<1>9. QED
  BY <1>8 DEF bank, WorstRackShows

-----------------------------------------------------------------------------
(* The points of a Modbus master.                                            *)

Points == [func : BitFuncs \cup RegFuncs, addr : Nat, type : {"u8", "u16", "u32", "f64"},
           bits : {"none", "alarm", "half"}]

\* A point has at least one register, which is two bytes of the answer unless it is
\* a single byte.
LEMMA PointSize ==
  ASSUME NEW p \in Points
  PROVE  /\ p.addr \in Nat /\ calcRegister(p.type) \in 1 .. 4 /\ Bytes(p.type) \in 1 .. 8
         /\ End(p) \in Nat /\ End(p) = p.addr + calcRegister(p.type) - 1 /\ p.addr <= End(p)
         /\ p.type # "u8" => Bytes(p.type) = 2 * calcRegister(p.type)
<1>1. p.addr \in Nat /\ p.type \in {"u8", "u16", "u32", "f64"}
  BY DEF Points
<1>2. calcRegister(p.type) \in 1 .. 4 /\ Bytes(p.type) \in 1 .. 8
  BY <1>1 DEF calcRegister, Bytes
<1>3. p.type # "u8" => Bytes(p.type) = 2 * calcRegister(p.type)
  BY <1>1 DEF calcRegister, Bytes
<1>4. End(p) = p.addr + calcRegister(p.type) - 1
  BY DEF End
<1>5. QED
  BY <1>1, <1>2, <1>3, <1>4

\* The pts of a function code, as its groups are made of: no register is shared,
\* the addresses ascend.
Spaced(pts) ==
  /\ pts \in Seq(Points)
  /\ \A i, j \in 1 .. Len(pts) : i < j => End(pts[i]) < pts[j].addr

\* initPointModbus returns it for a readable configuration.
LEMMA ListFacts ==
  ASSUME NEW points \in Configuration, Readable(points), NEW func
  PROVE  LET pts == initPointModbus(points, func) IN
         /\ Spaced(pts)
         /\ func \in BitFuncs => \A i \in 1 .. Len(pts) : calcRegister(pts[i].type) = 1
         /\ func \in RegFuncs => \A i \in 1 .. Len(pts) : pts[i].type # "u8"
<1> DEFINE L == Configured(points, func, "none")
           R == {p \in L \X L : <<p[1], p[2]>> \in modbusSort(points)}
           order == Ranked(L, R)
           pts == initPointModbus(points, func)
<1>1. points \in Seq(Points) /\ Len(points) \in Nat /\ DOMAIN points = 1 .. Len(points)
      /\ \A i \in 1 .. Len(points) : points[i] \in Points
  <2>1. points \in Seq(Points)
    BY DEF Configuration, Points
  <2>2. QED
    BY <2>1
<1>2. pts = [k \in DOMAIN order |-> points[order[k]]]
  BY DEF initPointModbus, InOrder
<1>3. L \subseteq 1 .. Len(points)
      /\ \A i \in L : points[i].func = func /\ points[i].bits = "none"
  BY <1>1 DEF Configured
<1>4. \A a, b \in L : <<a, b>> \in R <=>
        points[a].addr < points[b].addr \/ (points[a].addr = points[b].addr /\ a < b)
  BY <1>1, <1>3 DEF modbusSort
<1> HIDE DEF L, R, pts
<1>5. \A i \in L : points[i].addr \in Nat /\ i \in Int
  BY <1>1, <1>3, PointSize
<1>6. Orders(R, L)
  <2>1. \A a \in L : <<a, a>> \notin R
    BY <1>4, <1>5
  <2>2. \A a, b, c \in L : <<a, b>> \in R /\ <<b, c>> \in R => <<a, c>> \in R
    BY <1>4, <1>5
  <2>3. \A a, b \in L : a # b => <<a, b>> \in R \/ <<b, a>> \in R
    BY <1>4, <1>5
  <2>4. QED
    BY <2>1, <2>2, <2>3 DEF Orders
<1>7. IsFiniteSet(L)
  <2>1. IsFiniteSet(1 .. Len(points))
    BY <1>1, FS_Interval
  <2>2. QED
    BY <1>3, <2>1, FS_Subset
<1>8. /\ order \in Seq(L) /\ Len(order) \in Nat
      /\ \A i, j \in 1 .. Len(order) : i < j => <<order[i], order[j]>> \in R
  BY <1>6, <1>7, RankedFacts
<1> HIDE DEF order
<1>9. DOMAIN order = 1 .. Len(order) /\ \A k \in 1 .. Len(order) : order[k] \in L
  BY <1>8
<1>10. \A k \in 1 .. Len(order) : pts[k] = points[order[k]] /\ pts[k] \in Points
  BY <1>1, <1>2, <1>3, <1>9
<1>11. pts \in Seq(Points) /\ Len(pts) = Len(order)
  <2>1. pts \in [1 .. Len(order) -> Points]
    BY <1>2, <1>9, <1>10
  <2>2. QED
    BY <1>8, <2>1
<1>12. ASSUME NEW i \in 1 .. Len(pts), NEW j \in 1 .. Len(pts), i < j
       PROVE  End(pts[i]) < pts[j].addr
  <2> DEFINE a == order[i]
             b == order[j]
  <2>1. a \in L /\ b \in L /\ <<a, b>> \in R /\ pts[i] = points[a] /\ pts[j] = points[b]
    BY <1>8, <1>9, <1>10, <1>11, <1>12
  <2> HIDE DEF a, b
  <2>2. a # b /\ points[a].addr <= points[b].addr
    BY <1>4, <1>5, <2>1
  <2>3. points[a].addr > End(points[b]) \/ points[b].addr > End(points[a])
    <3>1. /\ a \in DOMAIN points /\ b \in DOMAIN points
          /\ points[a].func = func /\ points[b].func = func
          /\ points[a].bits = "none" /\ points[b].bits = "none"
      BY <1>1, <1>3, <2>1
    <3>2. QED
      BY <2>2, <3>1 DEF Readable
  <2>4. /\ points[a].addr \in Nat /\ points[b].addr \in Nat
        /\ End(points[a]) \in Nat /\ End(points[b]) \in Nat
        /\ points[b].addr <= End(points[b])
    BY <1>1, <1>3, <2>1, PointSize
  <2>5. QED
    BY <2>1, <2>2, <2>3, <2>4
<1>13. ASSUME NEW i \in 1 .. Len(pts)
       PROVE  /\ func \in BitFuncs => calcRegister(pts[i].type) = 1
              /\ func \in RegFuncs => pts[i].type # "u8"
  <2>1. order[i] \in L /\ pts[i] = points[order[i]]
    BY <1>9, <1>10, <1>11
  <2>2. order[i] \in DOMAIN points /\ points[order[i]].bits = "none" /\ points[order[i]].func = func
    BY <1>1, <1>3, <2>1
  <2>3. QED
    BY <2>1, <2>2 DEF Readable
<1>14. QED
  BY <1>11, <1>12, <1>13 DEF pts, Spaced

-----------------------------------------------------------------------------
\* A group of a pts: consecutive points that follow each other without a gap.
Segment(pts, g, c, d) ==
  /\ c \in 1 .. Len(pts) /\ d \in c .. Len(pts)
  /\ g = [start |-> pts[c].addr, end |-> End(pts[d])]
  /\ \A j \in 1 .. Len(pts) : c < j /\ j <= d => End(pts[j - 1]) + 1 = pts[j].addr

\* What modbusMergeAddr has after point i, from what it had before.
Merging(pts, f, i) ==
  IF i = 1 THEN [groups |-> <<>>, start |-> pts[1].addr, newLen |-> 0]
  ELSE IF Joined(pts[i - 1], pts[i], f[i - 1].newLen)
  THEN [f[i - 1] EXCEPT !.newLen = @ + calcRegister(pts[i - 1].type)]
  ELSE [groups |-> Append(f[i - 1].groups, Close(f[i - 1].start, pts[i - 1])),
        start |-> pts[i].addr, newLen |-> 0]
Merges(pts, f, m) == f = [i \in 1 .. m |-> Merging(pts, f, i)]

\* It is defined for every pts.
LEMMA MergesExist ==
  ASSUME NEW pts, NEW m \in Nat
  PROVE  \E f : Merges(pts, f, m)
<1> DEFINE T == {k \in Nat : ~ \E f : Merges(pts, f, k)}
<1>1. 0 \notin T
  <2> DEFINE f == [i \in 1 .. 0 |-> 0]
  <2>1. f = [i \in 1 .. 0 |-> Merging(pts, f, i)]
    OBVIOUS
  <2>2. QED
    BY <2>1 DEF Merges
<1>2. ASSUME NEW k \in Nat, k \notin T
      PROVE  k + 1 \notin T
  <2>1. PICK f : Merges(pts, f, k)
    BY <1>2
  <2> DEFINE g == [i \in 1 .. k + 1 |-> IF i = k + 1 THEN Merging(pts, f, i) ELSE f[i]]
  <2>2. ASSUME NEW i \in 1 .. k + 1
        PROVE  g[i] = Merging(pts, g, i)
    <3>1. g[i] = Merging(pts, f, i)
      BY <2>1 DEF Merges
    <3>2. i # 1 => g[i - 1] = f[i - 1]
      OBVIOUS
    <3> HIDE DEF g
    <3>3. Merging(pts, g, i) = Merging(pts, f, i)
      BY <3>2 DEF Merging
    <3>4. QED
      BY <3>1, <3>3
  <2>3. g = [i \in 1 .. k + 1 |-> Merging(pts, g, i)]
    BY <2>2
  <2> HIDE DEF g
  <2>4. Merges(pts, g, k + 1)
    BY <2>3 DEF Merges
  <2>5. QED
    BY <2>4
<1> HIDE DEF T
<1>3. T = {}
  <2>1. T \subseteq Nat
    BY DEF T
  <2>2. QED
    BY <1>1, <1>2, <2>1, NoException
<1>4. QED
  BY <1>3 DEF T

\* What modbusMergeAddr has after point i: the points before the group that is open
\* are in groups, and the points of the open group follow each other.
Groups(pts) == {g \in [start : Nat, end : Nat] : \E c, d \in 1 .. Len(pts) : Segment(pts, g, c, d)}
Covers(pts, groups, j) ==
  \E k \in 1 .. Len(groups) : \E c, d \in 1 .. Len(pts) :
    Segment(pts, groups[k], c, d) /\ c <= j /\ j <= d
Cut(pts, m, i) ==
  /\ m \in [groups : Seq(Groups(pts)), start : Nat, newLen : Nat]
  /\ \E b \in 1 .. i :
       /\ m.start = pts[b].addr
       /\ \A j \in 1 .. Len(pts) : b < j /\ j <= i => End(pts[j - 1]) + 1 = pts[j].addr
       /\ \A j \in 1 .. Len(pts) : j < b => Covers(pts, m.groups, j)

\* Closing the group that is open.
LEMMA GroupClosed ==
  ASSUME NEW pts, Spaced(pts), NEW m, NEW i \in 1 .. Len(pts), Cut(pts, m, i)
  PROVE  LET groups == Append(m.groups, Close(m.start, pts[i])) IN
         /\ groups \in Seq(Groups(pts))
         /\ \A j \in 1 .. Len(pts) : j <= i => Covers(pts, groups, j)
<1> DEFINE g == Close(m.start, pts[i])
           groups == Append(m.groups, g)
           n == Len(pts)
<1>1. n \in Nat /\ \A j \in 1 .. n : pts[j] \in Points
  BY DEF Spaced
<1>2. m.groups \in Seq(Groups(pts)) /\ m.start \in Nat
  BY DEF Cut
<1>3. PICK b \in 1 .. i :
        /\ m.start = pts[b].addr
        /\ \A j \in 1 .. n : b < j /\ j <= i => End(pts[j - 1]) + 1 = pts[j].addr
        /\ \A j \in 1 .. n : j < b => Covers(pts, m.groups, j)
  BY DEF Cut
<1>4. g = [start |-> m.start, end |-> End(pts[i])]
  BY DEF Close
<1>5. Segment(pts, g, b, i) /\ b \in 1 .. n
  <2>1. b \in 1 .. n /\ i \in b .. n
    BY <1>1
  <2>2. QED
    BY <1>3, <1>4, <2>1 DEF Segment
<1>6. g \in Groups(pts)
  <2>1. End(pts[i]) \in Nat
    BY <1>1, PointSize
  <2>2. QED
    BY <1>2, <1>4, <1>5, <2>1 DEF Groups
<1> HIDE DEF g
<1>7. groups \in Seq(Groups(pts))
  BY <1>2, <1>6
<1> DEFINE k0 == Len(m.groups)
<1>8. /\ k0 \in Nat /\ Len(groups) = k0 + 1 /\ groups[k0 + 1] = g
      /\ \A k \in 1 .. k0 : groups[k] = m.groups[k]
  BY <1>2
<1> HIDE DEF groups, k0, n
<1>9. \A j \in 1 .. n : j < b => Covers(pts, groups, j)
  <2> SUFFICES ASSUME NEW j \in 1 .. n, j < b PROVE Covers(pts, groups, j)
    OBVIOUS
  <2>1. PICK k \in 1 .. k0 : \E c, d \in 1 .. n : Segment(pts, m.groups[k], c, d) /\ c <= j /\ j <= d
    BY <1>3 DEF Covers, k0, n
  <2>2. k \in 1 .. Len(groups) /\ groups[k] = m.groups[k]
    BY <1>8
  <2>3. QED
    BY <2>1, <2>2 DEF Covers, n
<1>10. \A j \in 1 .. n : b <= j /\ j <= i => Covers(pts, groups, j)
  <2> SUFFICES ASSUME NEW j \in 1 .. n, b <= j, j <= i PROVE Covers(pts, groups, j)
    OBVIOUS
  <2>1. k0 + 1 \in 1 .. Len(groups) /\ groups[k0 + 1] = g
    BY <1>8
  <2>2. QED
    BY <1>5, <2>1 DEF Covers, n
<1>11. \A j \in 1 .. n : j <= i => Covers(pts, groups, j)
  BY <1>1, <1>9, <1>10
<1>12. QED
  BY <1>7, <1>11 DEF groups, g, n

\* Every group that modbusMergeAddr returns is a group of the pts, and every point
\* is in one.
LEMMA MergeFacts ==
  ASSUME NEW pts, Spaced(pts)
  PROVE  LET groups == modbusMergeAddr(pts) IN
         /\ groups \in Seq(Groups(pts))
         /\ \A j \in 1 .. Len(pts) : Covers(pts, groups, j)
<1> DEFINE n == Len(pts)
           f == CHOOSE f : f =
                  [i \in 1 .. n |->
                     IF i = 1 THEN [groups |-> <<>>, start |-> pts[1].addr, newLen |-> 0]
                     ELSE IF Joined(pts[i - 1], pts[i], f[i - 1].newLen)
                     THEN [f[i - 1] EXCEPT !.newLen = @ + calcRegister(pts[i - 1].type)]
                     ELSE [groups |-> Append(f[i - 1].groups, Close(f[i - 1].start, pts[i - 1])),
                           start |-> pts[i].addr, newLen |-> 0]]
<1>1. n \in Nat /\ (n = 0 <=> pts = <<>>) /\ \A j \in 1 .. n : pts[j] \in Points
  BY DEF Spaced
<1>2. modbusMergeAddr(pts) =
        IF pts = <<>> THEN <<>> ELSE Append(f[n].groups, Close(f[n].start, pts[n]))
  BY DEF modbusMergeAddr
<1>3. Merges(pts, f, n)
  <2>1. \E g : Merges(pts, g, n)
    BY <1>1, MergesExist
  <2>2. f = CHOOSE g : Merges(pts, g, n)
    BY DEF Merges, Merging
  <2> HIDE DEF f
  <2>3. QED
    BY <2>1, <2>2
<1> HIDE DEF f
<1>4. \A i \in 1 .. n : f[i] = Merging(pts, f, i)
  BY <1>3 DEF Merges
<1>5. 1 \in 1 .. n => Cut(pts, f[1], 1)
  <2> SUFFICES ASSUME 1 \in 1 .. n PROVE Cut(pts, f[1], 1)
    OBVIOUS
  <2>1. f[1] = [groups |-> <<>>, start |-> pts[1].addr, newLen |-> 0]
    BY <1>4 DEF Merging
  <2>2. pts[1].addr \in Nat
    BY <1>1, PointSize
  <2> DEFINE m == f[1]
  <2>3. m \in [groups : Seq(Groups(pts)), start : Nat, newLen : Nat] /\ m.start = pts[1].addr
    BY <2>1, <2>2
  <2> HIDE DEF m
  <2>4. Cut(pts, m, 1)
    BY <1>1, <2>3 DEF Cut
  <2>5. QED
    BY <2>4 DEF m
<1>6. ASSUME NEW i \in 1 .. n, i # 1, Cut(pts, f[i - 1], i - 1)
      PROVE  Cut(pts, f[i], i)
  <2> DEFINE m == f[i - 1]
             h == f[i]
  <2>1. i - 1 \in 1 .. n /\ pts[i - 1] \in Points /\ pts[i] \in Points
    BY <1>1, <1>6
  <2>2. m \in [groups : Seq(Groups(pts)), start : Nat, newLen : Nat]
    BY <1>6 DEF Cut
  <2>3. PICK b \in 1 .. i - 1 :
          /\ m.start = pts[b].addr
          /\ \A j \in 1 .. n : b < j /\ j <= i - 1 => End(pts[j - 1]) + 1 = pts[j].addr
          /\ \A j \in 1 .. n : j < b => Covers(pts, m.groups, j)
    BY <1>6 DEF Cut
  <2>4. h = IF Joined(pts[i - 1], pts[i], m.newLen)
            THEN [m EXCEPT !.newLen = @ + calcRegister(pts[i - 1].type)]
            ELSE [groups |-> Append(m.groups, Close(m.start, pts[i - 1])),
                  start |-> pts[i].addr, newLen |-> 0]
    BY <1>4, <1>6 DEF Merging
  <2> HIDE DEF m, h
  <2>5. CASE Joined(pts[i - 1], pts[i], m.newLen)
    <3>1. h = [m EXCEPT !.newLen = m.newLen + calcRegister(pts[i - 1].type)]
      BY <2>4, <2>5
    <3>2. calcRegister(pts[i - 1].type) \in Nat
      BY <2>1, PointSize
    <3>3. /\ h \in [groups : Seq(Groups(pts)), start : Nat, newLen : Nat]
          /\ h.groups = m.groups /\ h.start = m.start
      BY <2>2, <3>1, <3>2
    <3>4. End(pts[i - 1]) + 1 = pts[i].addr
      <4>1. pts[i].addr - pts[i - 1].addr = 1 \/ End(pts[i - 1]) + 1 = pts[i].addr
        BY <2>5 DEF Joined
      <4>2. End(pts[i - 1]) < pts[i].addr
        BY <2>1 DEF Spaced
      <4>3. /\ pts[i].addr \in Nat /\ pts[i - 1].addr \in Nat /\ End(pts[i - 1]) \in Nat
            /\ pts[i - 1].addr <= End(pts[i - 1])
        BY <2>1, PointSize
      <4>4. QED
        BY <4>1, <4>2, <4>3
    <3>5. b \in 1 .. i /\ \A j \in 1 .. n : b < j /\ j <= i => End(pts[j - 1]) + 1 = pts[j].addr
      <4>1. \A j \in 1 .. n : j <= i => j <= i - 1 \/ j = i
        OBVIOUS
      <4>2. QED
        BY <2>3, <3>4, <4>1
    <3>6. QED
      BY <2>3, <3>3, <3>5 DEF Cut, h
  <2>6. CASE ~ Joined(pts[i - 1], pts[i], m.newLen)
    <3> DEFINE groups == Append(m.groups, Close(m.start, pts[i - 1]))
    <3>1. h = [groups |-> groups, start |-> pts[i].addr, newLen |-> 0]
      BY <2>4, <2>6
    <3>2. groups \in Seq(Groups(pts)) /\ \A j \in 1 .. n : j <= i - 1 => Covers(pts, groups, j)
      BY <1>6, <2>1, GroupClosed DEF m
    <3> HIDE DEF groups
    <3>3. pts[i].addr \in Nat
      BY <2>1, PointSize
    <3>4. h \in [groups : Seq(Groups(pts)), start : Nat, newLen : Nat]
          /\ h.groups = groups /\ h.start = pts[i].addr
      BY <3>1, <3>2, <3>3
    <3>5. i \in 1 .. i /\ (\A j \in 1 .. n : ~ (i < j /\ j <= i)) /\ \A j \in 1 .. n : j < i => j <= i - 1
      OBVIOUS
    <3>6. QED
      BY <3>2, <3>4, <3>5 DEF Cut, h
  <2>7. QED
    BY <2>5, <2>6
<1>7. \A i \in 1 .. n : Cut(pts, f[i], i)
  <2> DEFINE T == {i \in Nat : i \in 1 .. n /\ ~ Cut(pts, f[i], i)}
  <2>1. 0 \notin T
    OBVIOUS
  <2>2. \A k \in Nat : k \notin T => k + 1 \notin T
    <3> SUFFICES ASSUME NEW k \in Nat, k \notin T, k + 1 \in 1 .. n PROVE Cut(pts, f[k + 1], k + 1)
      OBVIOUS
    <3>1. CASE k = 0
      BY <1>5, <3>1
    <3>2. CASE k # 0
      <4>1. k \in 1 .. n /\ (k + 1) - 1 = k /\ k + 1 # 1
        BY <1>1, <3>2
      <4>2. Cut(pts, f[(k + 1) - 1], (k + 1) - 1)
        BY <4>1
      <4>3. QED
        BY <1>6, <4>1, <4>2
    <3>3. QED
      BY <3>1, <3>2
  <2>3. T \subseteq Nat
    OBVIOUS
  <2> HIDE DEF T
  <2>4. T = {}
    BY <2>1, <2>2, <2>3, NoException
  <2>5. QED
    BY <2>4 DEF T
<1>8. QED
  <2>1. CASE n = 0
    BY <1>1, <1>2, <2>1
  <2>2. CASE n # 0
    <3>1. n \in 1 .. n /\ Cut(pts, f[n], n) /\ pts # <<>>
      BY <1>1, <1>7, <2>2
    <3>2. modbusMergeAddr(pts) = Append(f[n].groups, Close(f[n].start, pts[n]))
      BY <1>2, <3>1
    <3>3. QED
      BY <3>1, <3>2, GroupClosed
  <2>3. QED
    BY <2>1, <2>2

-----------------------------------------------------------------------------
\* The first point with an address, which is the only one.
LEMMA FirstFacts ==
  ASSUME NEW pts, Spaced(pts)
  PROVE  /\ \A c \in 1 .. Len(pts) : First(pts, pts[c].addr) = c
         /\ \A x : First(pts, x) # 0 =>
                     First(pts, x) \in 1 .. Len(pts) /\ pts[First(pts, x)].addr = x
<1>1. \A i \in 1 .. Len(pts) : pts[i] \in Points
  BY DEF Spaced
<1>2. ASSUME NEW x
      PROVE  LET I == {i \in 1 .. Len(pts) : pts[i].addr = x} IN
             /\ First(pts, x) = IF I # {} THEN Min(I) ELSE 0
             /\ I # {} => Min(I) \in I
  <2> DEFINE I == {i \in 1 .. Len(pts) : pts[i].addr = x}
  <2>1. First(pts, x) = IF I # {} THEN Min(I) ELSE 0
    BY DEF First, SelectInSeq
  <2>2. I \subseteq Nat
    OBVIOUS
  <2> HIDE DEF I
  <2>3. I # {} => Min(I) \in I
    BY <2>2, LeastNumber
  <2>4. QED
    BY <2>1, <2>3 DEF I
<1>3. ASSUME NEW c \in 1 .. Len(pts)
      PROVE  First(pts, pts[c].addr) = c
  <2> DEFINE x == pts[c].addr
             I == {i \in 1 .. Len(pts) : pts[i].addr = x}
  <2>1. I = {c}
    <3> SUFFICES ASSUME NEW i \in 1 .. Len(pts), pts[i].addr = pts[c].addr PROVE i = c
      OBVIOUS
    <3>1. i < c => pts[i].addr < pts[c].addr
      <4>1. pts[i].addr \in Nat /\ pts[c].addr \in Nat /\ End(pts[i]) \in Nat
            /\ pts[i].addr <= End(pts[i])
        BY <1>1, PointSize
      <4>2. i < c => End(pts[i]) < pts[c].addr
        BY DEF Spaced
      <4>3. QED
        BY <4>1, <4>2
    <3>2. c < i => pts[c].addr < pts[i].addr
      <4>1. pts[i].addr \in Nat /\ pts[c].addr \in Nat /\ End(pts[c]) \in Nat
            /\ pts[c].addr <= End(pts[c])
        BY <1>1, PointSize
      <4>2. c < i => End(pts[c]) < pts[i].addr
        BY DEF Spaced
      <4>3. QED
        BY <4>1, <4>2
    <3>3. pts[i].addr \in Nat /\ pts[c].addr \in Nat
      BY <1>1, PointSize
    <3>4. QED
      BY <3>1, <3>2, <3>3
  <2> HIDE DEF x
  <2>2. First(pts, x) = Min(I) /\ Min(I) \in I
    BY <1>2, <2>1
  <2>3. QED
    BY <2>1, <2>2 DEF x
<1>4. ASSUME NEW x, First(pts, x) # 0
      PROVE  First(pts, x) \in 1 .. Len(pts) /\ pts[First(pts, x)].addr = x
  <2> DEFINE I == {i \in 1 .. Len(pts) : pts[i].addr = x}
  <2>1. First(pts, x) \in I
    BY <1>2, <1>4
  <2>2. QED
    BY <2>1
<1>5. QED
  BY <1>3, <1>4

\* Where the bytes of a point begin in the answer, from where those of the one
\* before it do.
Placing(pts, f, c, i) == IF i = c THEN 0 ELSE f[i - 1] + Consumed(pts[i - 1].type)
Places(pts, f, c, m) == f = [i \in c .. m |-> Placing(pts, f, c, i)]

\* The places of the points of a group exist, however many there are.
LEMMA PlacesExist ==
  ASSUME NEW pts, NEW c \in Nat, NEW m \in Nat
  PROVE  \E f : Places(pts, f, c, m)
<1> DEFINE T == {k \in Nat : ~ \E f : Places(pts, f, c, k)}
<1>1. ASSUME NEW k \in Nat, k < c
      PROVE  \E f : Places(pts, f, c, k)
  <2> DEFINE f == [i \in c .. k |-> 0]
  <2>1. f = [i \in c .. k |-> Placing(pts, f, c, i)]
    BY <1>1
  <2>2. QED
    BY <2>1 DEF Places
<1>2. c = 0 => \E f : Places(pts, f, c, 0)
  <2> DEFINE f == [i \in 0 .. 0 |-> 0]
  <2>1. c = 0 => f = [i \in c .. 0 |-> Placing(pts, f, c, i)]
    BY DEF Placing
  <2>2. QED
    BY <2>1 DEF Places
<1>3. 0 \notin T
  BY <1>1, <1>2
<1>4. ASSUME NEW k \in Nat, k \notin T
      PROVE  k + 1 \notin T
  <2>1. PICK f : Places(pts, f, c, k)
    BY <1>4
  <2> DEFINE g == [i \in c .. k + 1 |-> IF i = k + 1 THEN Placing(pts, f, c, i) ELSE f[i]]
  <2>2. ASSUME NEW i \in c .. k + 1
        PROVE  g[i] = Placing(pts, g, c, i)
    <3>1. g[i] = Placing(pts, f, c, i)
      BY <2>1 DEF Places
    <3>2. i # c => g[i - 1] = f[i - 1]
      OBVIOUS
    <3> HIDE DEF g
    <3>3. Placing(pts, g, c, i) = Placing(pts, f, c, i)
      BY <3>2 DEF Placing
    <3>4. QED
      BY <3>1, <3>3
  <2>3. g = [i \in c .. k + 1 |-> Placing(pts, g, c, i)]
    BY <2>2
  <2> HIDE DEF g
  <2>4. Places(pts, g, c, k + 1)
    BY <2>3 DEF Places
  <2>5. QED
    BY <2>4
<1>5. T = {}
  <2>1. T \subseteq Nat
    OBVIOUS
  <2> HIDE DEF T
  <2>2. QED
    BY <1>3, <1>4, <2>1, NoException
<1>6. QED
  BY <1>5

\* The value that shows the registers of a point.
Own(p) == [b \in 1 .. Bytes(p.type) |-> 2 * p.addr + b - 1]

\* The answer to the poll of a group of registers goes to the points of the group,
\* to each its own registers.
LEMMA RegistersAnswered ==
  ASSUME NEW pts, Spaced(pts), \A i \in 1 .. Len(pts) : pts[i].type # "u8",
         NEW g, NEW c, NEW d, Segment(pts, g, c, d),
         NEW value, DOMAIN value = 1 .. Len(pts)
  PROVE  LET r == mbParseFunc03Fun04Respond(pts, g, value) IN
         /\ DOMAIN r = 1 .. Len(pts)
         /\ \A i \in 1 .. Len(pts) : r[i] = IF c <= i /\ i <= d THEN Own(pts[i]) ELSE value[i]
<1>next. \A x, y, m \in Int : 2 * (x - y) + 2 * m = 2 * ((x + m) - y)
  OBVIOUS
<1>behind. \A x, y, m \in Int : 2 * (x - y) + 2 * m = 2 * (((x + m) - 1) - y + 1)
  OBVIOUS
<1>inside. \A x, y, m, b, z \in Int :
             b <= 2 * m /\ (x + m) - 1 <= z => 2 * (x - y) + b <= 2 * (z - y + 1)
  OBVIOUS
<1> DEFINE n == Len(pts)
           first == First(pts, g.start)
           len == 2 * (g.end - g.start + 1)
           r == mbParseFunc03Fun04Respond(pts, g, value)
           pos == CHOOSE pos : pos = [i \in first .. n |->
                    IF i = first THEN 0 ELSE pos[i - 1] + Consumed(pts[i - 1].type)]
           a(i) == pts[i].addr
           e(i) == End(pts[i])
           size(i) == calcRegister(pts[i].type)
<1>1. n \in Nat /\ \A i \in 1 .. n : pts[i] \in Points
  BY DEF Spaced
<1>2. /\ c \in 1 .. n /\ d \in c .. n /\ g.start = a(c) /\ g.end = e(d)
      /\ \A j \in 1 .. n : c < j /\ j <= d => e(j - 1) + 1 = a(j)
  BY DEF Segment
<1>3. first = c
  BY <1>2, FirstFacts
<1>4. r = [i \in 1 .. n |->
             IF i >= first /\ pos[i] < len
             THEN [b \in 1 .. Bytes(pts[i].type) |->
                     IF pos[i] + b <= len THEN 2 * g.start + pos[i] + b - 1 ELSE Stale]
             ELSE value[i]]
  BY DEF mbParseFunc03Fun04Respond
<1>5. Places(pts, pos, first, n)
  <2> HIDE DEF first, n
  <2>1. \E f : Places(pts, f, first, n)
    <3>1. c \in Nat
      BY <1>2
    <3>2. QED
      BY <1>1, <1>3, <3>1, PlacesExist
  <2>2. pos = CHOOSE f : Places(pts, f, first, n)
    BY DEF Places, Placing
  <2> HIDE DEF pos
  <2>3. QED
    BY <2>1, <2>2
<1>6. \A i \in 1 .. n : /\ a(i) \in Nat /\ e(i) \in Nat /\ size(i) \in 1 .. 4
                        /\ e(i) = a(i) + size(i) - 1 /\ Bytes(pts[i].type) = 2 * size(i)
  BY <1>1, PointSize
<1>7. \A i, j \in 1 .. n : i < j => e(i) < a(j)
  BY DEF Spaced
<1> HIDE DEF n, first, r, pos, a, e, size
<1>8. /\ pos[c] = 0
      /\ \A i \in 1 .. n : c < i => pos[i] = pos[i - 1] + 2 * size(i - 1)
  <2>1. \A i \in c .. n : pos[i] = IF i = c THEN 0 ELSE pos[i - 1] + Consumed(pts[i - 1].type)
    BY <1>3, <1>5 DEF Places, Placing
  <2>2. \A i \in 1 .. n : Consumed(pts[i].type) = 2 * size(i)
    BY <1>6 DEF Consumed
  <2>3. c \in c .. n
    BY <1>1, <1>2
  <2>4. \A i \in 1 .. n : c < i => i \in c .. n /\ i # c /\ i - 1 \in 1 .. n
    BY <1>1, <1>2
  <2>5. QED
    BY <2>1, <2>2, <2>3, <2>4
<1> DEFINE Placed(i) == /\ pos[i] \in Int
                        /\ i <= d => pos[i] = 2 * (a(i) - a(c))
                        /\ d < i => pos[i] >= len
<1>9. len = 2 * (e(d) - a(c) + 1) /\ len \in Int
  BY <1>2, <1>6
<1> HIDE DEF len
<1>10. ASSUME NEW i \in 1 .. n, c < i, Placed(i - 1)
       PROVE  Placed(i)
  <2>1. i - 1 \in 1 .. n /\ d \in 1 .. n
    BY <1>1, <1>2, <1>10
  <2>2. pos[i] = pos[i - 1] + 2 * size(i - 1) /\ size(i - 1) \in 1 .. 4
    BY <1>6, <1>8, <1>10, <2>1
  <2>3. CASE i <= d
    <3>1. pos[i - 1] = 2 * (a(i - 1) - a(c)) /\ e(i - 1) + 1 = a(i)
      BY <1>2, <1>10, <2>3
    <3>2. e(i - 1) = a(i - 1) + size(i - 1) - 1
      BY <1>6, <2>1
    <3>3. a(i) \in Nat /\ a(i - 1) \in Nat /\ a(c) \in Nat
      BY <1>2, <1>6, <2>1
    <3> HIDE DEF Placed
    <3>4. pos[i] = 2 * (a(i) - a(c))
      <4>1. a(i) = a(i - 1) + size(i - 1)
        BY <2>2, <3>1, <3>2, <3>3
      <4>2. pos[i] = 2 * (a(i - 1) - a(c)) + 2 * size(i - 1)
        BY <2>2, <3>1
      <4>3. 2 * (a(i - 1) - a(c)) + 2 * size(i - 1) = 2 * ((a(i - 1) + size(i - 1)) - a(c))
        BY <1>next, <2>2, <3>3
      <4>4. QED
        BY <4>1, <4>2, <4>3
    <3>5. pos[i] \in Int /\ ~ (d < i)
      BY <2>1, <2>3, <3>3, <3>4
    <3>6. QED
      BY <3>4, <3>5 DEF Placed
  <2>4. CASE d = i - 1
    <3>1. pos[i - 1] = 2 * (a(d) - a(c)) /\ e(d) = a(d) + size(d) - 1
      BY <1>6, <1>10, <2>1, <2>4
    <3>2. a(d) \in Nat /\ a(c) \in Nat /\ e(d) \in Nat
      BY <1>2, <1>6, <2>1
    <3>3. pos[i] = 2 * (a(d) - a(c)) + 2 * size(d) /\ size(d) \in 1 .. 4
      BY <2>2, <2>4, <3>1
    <3> HIDE DEF Placed
    <3>4. pos[i] = len
      <4>1. pos[i] = 2 * (((a(d) + size(d)) - 1) - a(c) + 1)
        <5>1. 2 * (a(d) - a(c)) + 2 * size(d) = 2 * (((a(d) + size(d)) - 1) - a(c) + 1)
          <6>1. a(d) \in Int /\ a(c) \in Int /\ size(d) \in Int
            BY <3>2, <3>3
          <6>2. QED
            BY ONLY <1>behind, <6>1
        <5>2. QED
          BY <3>3, <5>1
      <4>2. pos[i] = 2 * (e(d) - a(c) + 1)
        BY <3>1, <3>2, <3>3, <4>1
      <4>3. QED
        BY <1>9, <4>2
    <3>5. pos[i] \in Int /\ ~ (i <= d) /\ pos[i] >= len
      BY <1>9, <2>1, <2>4, <3>4
    <3>6. QED
      BY <3>5 DEF Placed
  <2>5. CASE d < i - 1
    BY <1>9, <1>10, <2>1, <2>2, <2>5
  <2>6. QED
    BY <2>1, <2>3, <2>4, <2>5
<1>11. Placed(c)
  <2>1. pos[c] = 2 * (a(c) - a(c)) /\ pos[c] = 0
    BY <1>2, <1>6, <1>8
  <2>2. QED
    BY <1>2, <2>1
<1>12. \A i \in 1 .. n : c <= i => Placed(i)
  <2> DEFINE T == {i \in Nat : i \in 1 .. n /\ c <= i /\ ~ Placed(i)}
  <2>1. 0 \notin T /\ T \subseteq Nat
    OBVIOUS
  <2>2. \A k \in Nat : k \notin T => k + 1 \notin T
    <3> SUFFICES ASSUME NEW k \in Nat, k \notin T, k + 1 \in 1 .. n, c <= k + 1 PROVE Placed(k + 1)
      OBVIOUS
    <3> HIDE DEF Placed
    <3>1. CASE k + 1 = c
      BY <1>11, <3>1
    <3>2. CASE k + 1 # c
      <4>1. k \in 1 .. n /\ c <= k /\ (k + 1) - 1 = k /\ c < k + 1
        <5>1. c \in 1 .. n
          BY <1>2
        <5>2. QED
          BY <1>1, <3>2, <5>1
      <4>2. Placed((k + 1) - 1)
        BY <4>1
      <4>3. QED
        BY <1>10, <4>1, <4>2
    <3>3. QED
      BY <3>1, <3>2
  <2> HIDE DEF T
  <2>3. T = {}
    BY <2>1, <2>2, NoException
  <2>4. QED
    BY <2>3 DEF T
<1>13. \A i \in 1 .. n : i <= d => e(i) <= e(d)
  <2> SUFFICES ASSUME NEW i \in 1 .. n, i <= d PROVE e(i) <= e(d)
    OBVIOUS
  <2>1. d \in 1 .. n
    BY <1>1, <1>2
  <2>2. i = d \/ (i < d /\ e(i) < a(d))
    BY <1>7, <2>1
  <2>3. e(i) \in Nat /\ e(d) \in Nat /\ a(d) \in Nat /\ a(d) <= e(d)
    BY <1>6, <2>1
  <2>4. QED
    BY <2>2, <2>3
<1>14. DOMAIN r = 1 .. n
  BY <1>4
<1>15. ASSUME NEW i \in 1 .. n, c <= i, i <= d
       PROVE  r[i] = Own(pts[i])
  <2>1. pos[i] = 2 * (a(i) - a(c))
    BY <1>12, <1>15
  <2>2. /\ a(i) \in Nat /\ a(c) \in Nat /\ e(i) \in Nat /\ e(d) \in Nat /\ size(i) \in 1 .. 4
        /\ e(i) = a(i) + size(i) - 1 /\ e(i) <= e(d) /\ Bytes(pts[i].type) = 2 * size(i)
    BY <1>1, <1>2, <1>6, <1>13, <1>15
  <2>3. i >= first /\ pos[i] < len
    <3>1. a(i) <= e(d)
      BY <2>2
    <3>2. pos[i] < len
      BY <1>9, <2>1, <2>2, <3>1
    <3>3. QED
      BY <1>3, <1>15, <3>2
  <2>4. r[i] = [b \in 1 .. Bytes(pts[i].type) |->
                  IF pos[i] + b <= len THEN 2 * g.start + pos[i] + b - 1 ELSE Stale]
    BY <1>4, <2>3
  <2>5. \A b \in 1 .. Bytes(pts[i].type) :
          pos[i] + b <= len /\ 2 * g.start + pos[i] + b - 1 = 2 * a(i) + b - 1
    <3> SUFFICES ASSUME NEW b \in 1 .. Bytes(pts[i].type)
                 PROVE  pos[i] + b <= len /\ 2 * g.start + pos[i] + b - 1 = 2 * a(i) + b - 1
      OBVIOUS
    <3>1. b \in Int /\ b <= 2 * size(i) /\ g.start = a(c)
      BY <1>2, <2>2
    <3>2. pos[i] + b <= len
      <4>1. (a(i) + size(i)) - 1 <= e(d) /\ size(i) \in Int
        BY <2>2
      <4>2. 2 * (a(i) - a(c)) + b <= 2 * (e(d) - a(c) + 1)
        <5>1. a(i) \in Int /\ a(c) \in Int /\ e(d) \in Int
          BY <2>2
        <5>2. QED
          BY <1>inside, <3>1, <4>1, <5>1
      <4>3. QED
        BY <1>9, <2>1, <4>2
    <3>3. 2 * g.start + pos[i] + b - 1 = 2 * a(i) + b - 1
      BY <2>1, <2>2, <3>1
    <3>4. QED
      BY <3>2, <3>3
  <2>6. r[i] = [b \in 1 .. Bytes(pts[i].type) |-> 2 * a(i) + b - 1]
    BY <2>4, <2>5
  <2>7. QED
    BY <2>6 DEF Own, a
<1>16. ASSUME NEW i \in 1 .. n, ~ (c <= i /\ i <= d)
       PROVE  r[i] = value[i]
  <2>1. ~ (i >= first /\ pos[i] < len)
    BY <1>2, <1>3, <1>9, <1>12, <1>16
  <2>2. QED
    BY <1>4, <2>1
<1>17. QED
  BY <1>14, <1>15, <1>16 DEF n, r

\* The answer to the poll of a group of coils likewise.
LEMMA CoilsAnswered ==
  ASSUME NEW pts, Spaced(pts), \A i \in 1 .. Len(pts) : calcRegister(pts[i].type) = 1,
         NEW g, NEW c, NEW d, Segment(pts, g, c, d),
         NEW value, DOMAIN value = 1 .. Len(pts)
  PROVE  LET r == mbParseFunc01Fun02Respond(pts, g, value) IN
         /\ DOMAIN r = 1 .. Len(pts)
         /\ \A i \in 1 .. Len(pts) : r[i] = IF c <= i /\ i <= d THEN <<pts[i].addr>> ELSE value[i]
<1> DEFINE n == Len(pts)
           first == First(pts, g.start)
           r == mbParseFunc01Fun02Respond(pts, g, value)
           a(i) == pts[i].addr
<1>1. n \in Nat /\ \A i \in 1 .. n : pts[i] \in Points
  BY DEF Spaced
<1>2. \A i \in 1 .. n : a(i) \in Nat /\ End(pts[i]) = a(i)
  BY <1>1, PointSize
<1>3. c \in 1 .. n /\ d \in c .. n /\ d \in 1 .. n /\ g.start = a(c) /\ g.end = End(pts[d])
  BY <1>1 DEF Segment
<1>4. \A j \in 1 .. n : c < j /\ j <= d => a(j - 1) + 1 = a(j)
  <2> SUFFICES ASSUME NEW j \in 1 .. n, c < j, j <= d PROVE a(j - 1) + 1 = a(j)
    OBVIOUS
  <2>1. End(pts[j - 1]) + 1 = a(j)
    BY DEF Segment
  <2>2. j - 1 \in 1 .. n
    BY <1>1, <1>3
  <2>3. QED
    BY <1>2, <2>1, <2>2
<1>5. first = c
  BY <1>3, FirstFacts
<1>6. r = [i \in 1 .. n |->
             IF i - first \in 0 .. g.end - g.start THEN <<g.start + (i - first)>> ELSE value[i]]
  BY DEF mbParseFunc01Fun02Respond
<1> HIDE DEF n, first, r, a
<1>7. \A i \in 1 .. n : c <= i /\ i <= d => a(i) = a(c) + (i - c)
  <2> DEFINE Apart(i) == c <= i /\ i <= d => a(i) = a(c) + (i - c)
             T == {i \in Nat : i \in 1 .. n /\ ~ Apart(i)}
  <2>1. 0 \notin T /\ T \subseteq Nat
    OBVIOUS
  <2>2. ASSUME NEW k \in Nat, k + 1 \in 1 .. n, k \in 1 .. n => Apart(k)
        PROVE  Apart(k + 1)
    <3> SUFFICES ASSUME c <= k + 1, k + 1 <= d
                 PROVE  a(k + 1) = a(c) + ((k + 1) - c)
      OBVIOUS
    <3>1. CASE k + 1 = c
      BY <1>2, <1>3, <3>1
    <3>2. CASE k + 1 # c
      <4>1. k \in 1 .. n /\ c <= k /\ k <= d /\ (k + 1) - 1 = k /\ c < k + 1
        BY <1>1, <1>3, <2>2, <3>2
      <4>2. a(k) = a(c) + (k - c)
        BY <2>2, <4>1
      <4>3. a(k) + 1 = a(k + 1)
        BY <1>4, <2>2, <4>1
      <4>4. a(k) \in Nat /\ a(c) \in Nat /\ c \in Int
        BY <1>2, <1>3, <4>1
      <4>5. QED
        BY <4>2, <4>3, <4>4
    <3>3. QED
      BY <3>1, <3>2
  <2> HIDE DEF Apart
  <2>3. \A k \in Nat : k \notin T => k + 1 \notin T
    BY <2>2
  <2> HIDE DEF T
  <2>4. T = {}
    BY <2>1, <2>3, NoException
  <2>5. QED
    BY <2>4 DEF T, Apart
<1>8. g.end - g.start = d - c
  <2>1. g.end = a(d) /\ a(d) = a(c) + (d - c) /\ a(c) \in Nat
    BY <1>2, <1>3, <1>7
  <2>2. QED
    BY <1>3, <2>1
<1>9. ASSUME NEW i \in 1 .. n
      PROVE  r[i] = IF c <= i /\ i <= d THEN <<a(i)>> ELSE value[i]
  <2>1. i - first \in 0 .. g.end - g.start <=> c <= i /\ i <= d
    BY <1>3, <1>5, <1>8
  <2>2. c <= i /\ i <= d => g.start + (i - first) = a(i)
    BY <1>3, <1>5, <1>7
  <2>3. r[i] = IF i - first \in 0 .. g.end - g.start THEN <<g.start + (i - first)>> ELSE value[i]
    BY <1>6
  <2>4. QED
    BY <2>1, <2>2, <2>3
<1>10. DOMAIN r = 1 .. n
  BY <1>6
<1>11. QED
  BY <1>9, <1>10 DEF n, r, a

\* What a point shows once its group has been answered.
Shown(func, p) == IF func \in BitFuncs THEN <<p.addr>> ELSE Own(p)

\* An answer to a group gives each of its points the registers the point asks
\* for, and leaves the others as they were.
LEMMA GroupAnswered ==
  ASSUME NEW points \in Configuration, Readable(points), NEW func \in BitFuncs \cup RegFuncs,
         NEW g, NEW c, NEW d, Segment(initPointModbus(points, func), g, c, d),
         NEW value, DOMAIN value = 1 .. Len(initPointModbus(points, func))
  PROVE  LET pts == initPointModbus(points, func)
             r == Answered(pts, func, g, value)
         IN  /\ DOMAIN r = 1 .. Len(pts)
             /\ \A i \in 1 .. Len(pts) :
                  r[i] = IF c <= i /\ i <= d THEN Shown(func, pts[i]) ELSE value[i]
<1> DEFINE pts == initPointModbus(points, func)
<1>1. /\ Spaced(pts)
      /\ func \in BitFuncs => \A i \in 1 .. Len(pts) : calcRegister(pts[i].type) = 1
      /\ func \in RegFuncs => \A i \in 1 .. Len(pts) : pts[i].type # "u8"
  BY ListFacts
<1> HIDE DEF pts
<1>2. Segment(pts, g, c, d) /\ DOMAIN value = 1 .. Len(pts)
  BY DEF pts
<1>3. CASE func \in BitFuncs
  <2>1. Answered(pts, func, g, value) = mbParseFunc01Fun02Respond(pts, g, value)
    BY <1>3 DEF Answered
  <2>2. \A p : Shown(func, p) = <<p.addr>>
    BY <1>3 DEF Shown
  <2>3. LET r == mbParseFunc01Fun02Respond(pts, g, value) IN
        /\ DOMAIN r = 1 .. Len(pts)
        /\ \A i \in 1 .. Len(pts) : r[i] = IF c <= i /\ i <= d THEN <<pts[i].addr>> ELSE value[i]
    BY <1>1, <1>2, <1>3, CoilsAnswered
  <2>4. QED
    BY <2>1, <2>2, <2>3 DEF pts
<1>4. CASE func \notin BitFuncs
  <2>1. Answered(pts, func, g, value) = mbParseFunc03Fun04Respond(pts, g, value)
    BY <1>4 DEF Answered
  <2>2. \A p : Shown(func, p) = Own(p)
    BY <1>4 DEF Shown
  <2>3. LET r == mbParseFunc03Fun04Respond(pts, g, value) IN
        /\ DOMAIN r = 1 .. Len(pts)
        /\ \A i \in 1 .. Len(pts) : r[i] = IF c <= i /\ i <= d THEN Own(pts[i]) ELSE value[i]
    BY <1>1, <1>2, <1>4, RegistersAnswered
  <2>4. QED
    BY <2>1, <2>2, <2>3 DEF pts
<1>5. QED
  BY <1>3, <1>4

\* The values after each of the groups has been polled, one group more at a time.
Polling(pts, func, groups, f, k) ==
  IF k = 0 THEN [i \in DOMAIN pts |-> <<>>] ELSE Answered(pts, func, groups[k], f[k - 1])
Polls(pts, func, groups, f, m) == f = [k \in 0 .. m |-> Polling(pts, func, groups, f, k)]

\* The values after each poll exist, however many groups there are.
LEMMA PollsExist ==
  ASSUME NEW pts, NEW func, NEW groups, NEW m \in Nat
  PROVE  \E f : Polls(pts, func, groups, f, m)
<1> DEFINE T == {k \in Nat : ~ \E f : Polls(pts, func, groups, f, k)}
<1>1. 0 \notin T
  <2> DEFINE f == [k \in 0 .. 0 |-> [i \in DOMAIN pts |-> <<>>]]
  <2>1. f = [k \in 0 .. 0 |-> Polling(pts, func, groups, f, k)]
    BY DEF Polling
  <2>2. QED
    BY <2>1 DEF Polls
<1>2. ASSUME NEW k \in Nat, k \notin T
      PROVE  k + 1 \notin T
  <2>1. PICK f : Polls(pts, func, groups, f, k)
    BY <1>2
  <2> DEFINE g == [i \in 0 .. k + 1 |-> IF i = k + 1 THEN Polling(pts, func, groups, f, i) ELSE f[i]]
  <2>2. ASSUME NEW i \in 0 .. k + 1
        PROVE  g[i] = Polling(pts, func, groups, g, i)
    <3>1. g[i] = Polling(pts, func, groups, f, i)
      BY <2>1 DEF Polls
    <3>2. i # 0 => g[i - 1] = f[i - 1]
      OBVIOUS
    <3> HIDE DEF g
    <3>3. Polling(pts, func, groups, g, i) = Polling(pts, func, groups, f, i)
      BY <3>2 DEF Polling
    <3>4. QED
      BY <3>1, <3>3
  <2>3. g = [i \in 0 .. k + 1 |-> Polling(pts, func, groups, g, i)]
    BY <2>2
  <2> HIDE DEF g
  <2>4. Polls(pts, func, groups, g, k + 1)
    BY <2>3 DEF Polls
  <2>5. QED
    BY <2>4
<1>3. T = {}
  <2>1. T \subseteq Nat
    OBVIOUS
  <2> HIDE DEF T
  <2>2. QED
    BY <1>1, <1>2, <2>1, NoException
<1>4. QED
  BY <1>3

\* After the round every point shows its own registers or coil.
LEMMA PolledFacts ==
  ASSUME NEW points \in Configuration, Readable(points), NEW func \in BitFuncs \cup RegFuncs
  PROVE  LET pts == initPointModbus(points, func) IN
         \A i \in 1 .. Len(pts) : Polled(points, func)[i] = Shown(func, pts[i])
<1> DEFINE pts == initPointModbus(points, func)
           n == Len(pts)
           groups == modbusMergeAddr(pts)
           m == Len(groups)
           f == CHOOSE f : f = [k \in 0 .. m |->
                  IF k = 0 THEN [i \in DOMAIN pts |-> <<>>] ELSE Answered(pts, func, groups[k], f[k - 1])]
<1>1. Spaced(pts) /\ n \in Nat /\ DOMAIN pts = 1 .. n
  <2>1. Spaced(pts)
    BY ListFacts
  <2> HIDE DEF pts
  <2>2. QED
    BY <2>1 DEF Spaced
<1>2. Polled(points, func) = f[m]
  BY DEF Polled
<1>3. groups \in Seq(Groups(pts)) /\ \A j \in 1 .. n : Covers(pts, groups, j)
  <2> HIDE DEF pts
  <2>1. QED
    BY <1>1, MergeFacts
<1>4. \A value, c, d : \A k \in 1 .. m :
        Segment(pts, groups[k], c, d) /\ DOMAIN value = 1 .. n =>
          LET r == Answered(pts, func, groups[k], value) IN
          /\ DOMAIN r = 1 .. n
          /\ \A i \in 1 .. n : r[i] = IF c <= i /\ i <= d THEN Shown(func, pts[i]) ELSE value[i]
  BY GroupAnswered
<1> HIDE DEF pts, n, groups, f
<1>5. m \in Nat /\ \A k \in 1 .. m : groups[k] \in Groups(pts)
  BY <1>3
<1> HIDE DEF m
<1>6. Polls(pts, func, groups, f, m)
  <2>1. \E g : Polls(pts, func, groups, g, m)
    BY <1>5, PollsExist
  <2>2. f = CHOOSE g : Polls(pts, func, groups, g, m)
    BY DEF f, Polls, Polling
  <2>3. QED
    BY <2>1, <2>2
<1>7. /\ f[0] = [i \in 1 .. n |-> <<>>]
      /\ \A k \in 1 .. m : f[k] = Answered(pts, func, groups[k], f[k - 1])
  <2>1. \A k \in 0 .. m : f[k] = Polling(pts, func, groups, f, k)
    BY <1>6 DEF Polls
  <2>2. 0 \in 0 .. m /\ \A k \in 1 .. m : k \in 0 .. m /\ k # 0
    BY <1>5
  <2>3. QED
    BY <1>1, <2>1, <2>2 DEF Polling
<1> DEFINE In(k, i) == \E c, d \in 1 .. n : Segment(pts, groups[k], c, d) /\ c <= i /\ i <= d
           AllShown(k) == /\ DOMAIN f[k] = 1 .. n
                      /\ \A i \in 1 .. n : \A h \in 1 .. k : In(h, i) => f[k][i] = Shown(func, pts[i])
<1>8. AllShown(0)
  BY <1>7
<1>9. ASSUME NEW k \in 1 .. m, AllShown(k - 1)
      PROVE  AllShown(k)
  <2> DEFINE value == f[k - 1]
             r == f[k]
  <2>1. r = Answered(pts, func, groups[k], value) /\ DOMAIN value = 1 .. n
    BY <1>7, <1>9
  <2>2. \A i \in 1 .. n : \A h \in 1 .. k - 1 : In(h, i) => value[i] = Shown(func, pts[i])
    BY <1>9
  <2>3. PICK c, d \in 1 .. n : Segment(pts, groups[k], c, d)
    <3>1. groups[k] \in Groups(pts)
      BY <1>5
    <3>2. QED
      BY <3>1 DEF Groups, n
  <2> HIDE DEF value, r, In
  <2>4. /\ DOMAIN r = 1 .. n
        /\ \A i \in 1 .. n : r[i] = IF c <= i /\ i <= d THEN Shown(func, pts[i]) ELSE value[i]
    <3>1. LET q == Answered(pts, func, groups[k], value) IN
          /\ DOMAIN q = 1 .. n
          /\ \A i \in 1 .. n : q[i] = IF c <= i /\ i <= d THEN Shown(func, pts[i]) ELSE value[i]
      BY <1>4, <2>1, <2>3
    <3>2. QED
      BY <2>1, <3>1
  <2>5. \A i \in 1 .. n : In(k, i) => r[i] = Shown(func, pts[i])
    <3> SUFFICES ASSUME NEW i \in 1 .. n, In(k, i) PROVE r[i] = Shown(func, pts[i])
      OBVIOUS
    <3>1. PICK b, e \in 1 .. n : Segment(pts, groups[k], b, e) /\ b <= i /\ i <= e
      BY DEF In
    <3>2. r[i] = IF b <= i /\ i <= e THEN Shown(func, pts[i]) ELSE value[i]
      BY <1>4, <2>1, <3>1
    <3>3. QED
      BY <3>1, <3>2
  <2>6. \A i \in 1 .. n : \A h \in 1 .. k - 1 : In(h, i) => r[i] = Shown(func, pts[i])
    BY <2>2, <2>4
  <2>7. \A h \in 1 .. k : h = k \/ h \in 1 .. k - 1
    OBVIOUS
  <2>8. QED
    BY <2>4, <2>5, <2>6, <2>7 DEF r
<1> HIDE DEF AllShown
<1>10. AllShown(m)
  <2> DEFINE T == {k \in Nat : k <= m /\ ~ AllShown(k)}
  <2>1. 0 \notin T /\ T \subseteq Nat
    BY <1>8
  <2>2. \A k \in Nat : k \notin T => k + 1 \notin T
    <3> SUFFICES ASSUME NEW k \in Nat, k \notin T, k + 1 <= m PROVE AllShown(k + 1)
      OBVIOUS
    <3>1. k + 1 \in 1 .. m /\ (k + 1) - 1 = k /\ AllShown(k)
      BY <1>5
    <3>2. QED
      BY <1>9, <3>1
  <2> HIDE DEF T
  <2>3. T = {}
    BY <2>1, <2>2, NoException
  <2>4. QED
    BY <1>5, <2>3 DEF T
<1>11. ASSUME NEW i \in 1 .. n
       PROVE  f[m][i] = Shown(func, pts[i])
  <2>1. PICK h \in 1 .. m : In(h, i)
    BY <1>3 DEF Covers, n, m
  <2>2. QED
    BY <1>10, <2>1 DEF AllShown
<1>12. QED
  BY <1>2, <1>11 DEF n, pts

\* Whatever points are configured, and wherever their groups are cut, every point
\* shows its own registers, and an alarm those it names (bsp_modbus.c).
LEMMA PointsAreShown ==
  ASSUME NEW points \in Configuration
  PROVE  PointsShowTheirRegisters(points)
<1> SUFFICES ASSUME Readable(points)
             PROVE  PointsShowTheirRegisters(points)
  BY DEF PointsShowTheirRegisters
<1>1. \A func : /\ initPointModbus(points, func) \in Seq(Points)
                /\ Spaced(initPointModbus(points, func))
                /\ DOMAIN initPointModbus(points, func) = 1 .. Len(initPointModbus(points, func))
  <2> SUFFICES ASSUME NEW func
               PROVE  /\ initPointModbus(points, func) \in Seq(Points)
                      /\ Spaced(initPointModbus(points, func))
                      /\ DOMAIN initPointModbus(points, func) = 1 .. Len(initPointModbus(points, func))
    OBVIOUS
  <2>1. Spaced(initPointModbus(points, func))
    BY ListFacts
  <2>2. QED
    BY <2>1 DEF Spaced
<1>2. ASSUME NEW func \in RegFuncs, NEW i \in DOMAIN initPointModbus(points, func)
      PROVE  Polled(points, func)[i] = Own(initPointModbus(points, func)[i])
  <2>1. func \in BitFuncs \cup RegFuncs /\ func \notin BitFuncs
    BY DEF BitFuncs, RegFuncs
  <2>2. Polled(points, func)[i] = Shown(func, initPointModbus(points, func)[i])
    BY <1>1, <2>1, PolledFacts
  <2>3. QED
    BY <2>1, <2>2 DEF Shown
<1>3. ASSUME NEW func \in BitFuncs, NEW i \in DOMAIN initPointModbus(points, func)
      PROVE  Polled(points, func)[i] = <<initPointModbus(points, func)[i].addr>>
  <2>1. Polled(points, func)[i] = Shown(func, initPointModbus(points, func)[i])
    BY <1>1, PolledFacts
  <2>2. QED
    BY <2>1 DEF Shown
<1>4. ASSUME NEW func \in RegFuncs, NEW i \in DOMAIN Alarms(points, func),
             initParseAlarmThread(points, func)[i] # 0
      PROVE  calcAlarmCall(points, func)[i][1] = 2 * Alarms(points, func)[i].addr
  <2> DEFINE pts == initPointModbus(points, func)
             q == First(pts, Alarms(points, func)[i].addr)
  <2>1. initParseAlarmThread(points, func)[i] = q
    BY DEF initParseAlarmThread
  <2>2. calcAlarmCall(points, func)[i] = Polled(points, func)[q]
    BY <2>1 DEF calcAlarmCall
  <2>3. q \in 1 .. Len(pts) /\ pts[q].addr = Alarms(points, func)[i].addr
    <3>1. Spaced(pts) /\ q # 0
      BY <1>1, <1>4, <2>1
    <3> HIDE DEF pts
    <3>2. QED
      BY <3>1, FirstFacts
  <2>4. Polled(points, func)[q] = Own(pts[q])
    <3>1. q \in DOMAIN pts
      BY <1>1, <2>3
    <3>2. QED
      BY <1>2, <3>1
  <2>5. pts[q] \in Points
    <3>1. pts \in Seq(Points)
      BY <1>1
    <3>2. QED
      BY <2>3, <3>1
  <2> HIDE DEF q, pts
  <2>6. Own(pts[q])[1] = 2 * pts[q].addr
    <3>1. Bytes(pts[q].type) \in 1 .. 8 /\ pts[q].addr \in Nat
      BY <2>5, PointSize
    <3>2. Own(pts[q])[1] = 2 * pts[q].addr + 1 - 1
      BY <3>1 DEF Own
    <3>3. QED
      BY <3>1, <3>2
  <2>7. QED
    BY <2>2, <2>3, <2>4, <2>6
<1>5. QED
  BY <1>2, <1>3, <1>4 DEF PointsShowTheirRegisters, Own

-----------------------------------------------------------------------------
(* The specification of the algorithms.                                      *)

\* The inputs are those of the algorithm that was chosen.
InputsChosen ==
  /\ in.of = "stack" => in.racks \in RackLists /\ in.stack \in StackInputs
  /\ in.of = "choice" => in.clusters \in ClusterTables
  /\ in.of = "control" => in.state \in Modes /\ in.given \in ControlInputs
  /\ in.of = "read" => in.range \in Ranges
  /\ in.of = "db" => in.db \in Databases
  /\ in.of = "clock" => in.dates \in Datings
  /\ in.of = "points" => in.points \in PointLists
  /\ in.of = "frame" => in.frame \in Frames

\* They stay those of the algorithm, as only the first step chooses.
LEMMA InputsAreChosen == Spec => []InputsChosen
<1>1. Init => InputsChosen
  BY DEF Init, InputsChosen
<1>2. InputsChosen /\ [Next]_in => InputsChosen'
  <2> SUFFICES ASSUME InputsChosen, [Next]_in PROVE InputsChosen'
    OBVIOUS
  <2>1. CASE ChooseRacks
    BY <2>1 DEF ChooseRacks, InputsChosen
  <2>2. CASE ChooseClusters
    BY <2>2 DEF ChooseClusters, InputsChosen
  <2>3. CASE ChooseControl
    BY <2>3 DEF ChooseControl, InputsChosen
  <2>4. CASE ChooseRange
    BY <2>4 DEF ChooseRange, InputsChosen
  <2>5. CASE ChooseFaults
    BY <2>5 DEF ChooseFaults, InputsChosen
  <2>6. CASE ChooseDates
    BY <2>6 DEF ChooseDates, InputsChosen
  <2>7. CASE ChoosePoints
    BY <2>7 DEF ChoosePoints, InputsChosen
  <2>8. CASE ChooseFrame
    BY <2>8 DEF ChooseFrame, InputsChosen
  <2>9. CASE UNCHANGED in
    BY <2>9 DEF InputsChosen
  <2>10. QED
    BY <2>1, <2>2, <2>3, <2>4, <2>5, <2>6, <2>7, <2>8, <2>9 DEF Next
<1>3. QED
  BY <1>1, <1>2, PTL DEF Spec

\* For any number of clusters and any voltages the largest set that may be connected
\* is chosen (buildValidClusterSet).
THEOREM ClusterChoiceIsLargest == Spec => []ChosenSetIsLargest
<1>1. InputsChosen => ChosenSetIsLargest
  BY LargestSetIsChosen, AlgorithmsAssumption DEF InputsChosen, ChosenSetIsLargest
<1>2. QED
  BY <1>1, InputsAreChosen, PTL

\* With any thresholds, any temperatures and from any state the temperature control
\* settles at once (tms_strategy_step).
THEOREM ControlSettlesAtOnce == Spec => []ControlSettles
<1>1. InputsChosen => ControlSettles
  BY TmsControlSettles, AlgorithmsAssumption DEF InputsChosen, ControlSettles
<1>2. QED
  BY <1>1, InputsAreChosen, PTL

\* For up to 20 racks, any range that a request can carry, any faults and any dates the
\* EMS sees one stack (protocol_ems_modbus_map.c).
THEOREM EmsSeesTheStack == Spec => []EmsSeesOneStack
<1>1. InputsChosen /\ in.of = "read" => EmsReadsAgree(in.range.start, in.range.n, in.range.present)
  BY EmsReadsOneMap, AlgorithmsAssumption DEF InputsChosen
<1>2. InputsChosen /\ in.of = "db" => EmsTablesAgree(in.db)
  BY EmsTablesTellTheSame, AlgorithmsAssumption DEF InputsChosen
<1>3. InputsChosen /\ in.of = "clock" => EmsClockSet(in.dates.clock, in.dates.new)
  BY EmsSetsTheClock, AlgorithmsAssumption DEF InputsChosen
<1>4. InputsChosen => EmsSeesOneStack
  BY <1>1, <1>2, <1>3 DEF EmsSeesOneStack
<1>5. QED
  BY <1>4, InputsAreChosen, PTL

\* For any number of racks with any points the statistics of the stack show them: an
\* offline rack leaves no trace, the worst of the others shows (app_bms_statistics.c).
THEOREM StackShowsTheRacks == Spec => []StackShowsItsRacks
<1>1. InputsChosen => StackShowsItsRacks
  BY NoTraceOfOffline, TheWorstShows, AlgorithmsAssumption DEF InputsChosen, StackShowsItsRacks
<1>2. QED
  BY <1>1, InputsAreChosen, PTL

\* For any points of a device, any addresses and wherever their groups are cut, every
\* point shows the registers it is configured for (bsp_modbus.c).
THEOREM PointsShowWhatTheyRead == Spec => []PointsReadRight
<1>1. InputsChosen => PointsReadRight
  BY PointsAreShown, AlgorithmsAssumption DEF InputsChosen, PointsReadRight
<1>2. QED
  BY <1>1, InputsAreChosen, PTL
================================================================================
