---------------------------- MODULE ModbusMaster ----------------------------
(***************************************************************************)
(* bsp/bsp_modbus.c: the thread that polls one Modbus device and writes to *)
(* it, over TCP (mbMasterOnlineCall) or over a serial line                 *)
(* (creatUartModbusThread).  Every pass looks for control points of the    *)
(* real-time database that changed, puts a write into the ring mbCmdList,  *)
(* sends the oldest write or else the next poll, and waits a second for    *)
(* the answer.  A write stays in the ring until it is answered.            *)
(*                                                                         *)
(* A control point takes the values 1, 2, ... one after the other, so that *)
(* a greater value is a later one.                                         *)
(***************************************************************************)
EXTENDS Integers, Sequences, FiniteSets

CONSTANTS
  PointNum,    \* number of control points of the device
  PollNum,     \* number of requests in mbReqList
  Size,        \* mbCmdList.size, 1000 in the code
  Retries,     \* failures in a row after which a TCP device is offline, 30
  Modulus,     \* modulus of the transaction number, 65535
  Serial,      \* TRUE: the serial loop; FALSE: the TCP loop
  MaxChanges,  \* bound: changes of each control point
  MaxPending,  \* bound: writes pending while a control point changes
  MaxFaults    \* bound: late, lost and refused answers, broken connections

Points == 1 .. PointNum
Polls == 0 .. PollNum - 1

NoFrame == <<"none">>
Write(p, v) == <<"write", p, v>>
Poll(b) == <<"poll", b>>
Frames == {NoFrame} \cup {Poll(b) : b \in Polls}
            \cup {Write(p, v) : p \in Points, v \in 1 .. MaxChanges}
Kind(frame) == frame[1]
Slots == 0 .. Size - 1

ASSUME NumberAssumption ==
  /\ PointNum \in Nat /\ PointNum <= Size
  /\ {PollNum, Size, Modulus} \subseteq Nat \ {0}
  /\ {Retries, MaxChanges, MaxPending, MaxFaults} \subseteq Nat
  /\ Serial \in BOOLEAN

VARIABLES
  wanted,      \* value of each control point in the real-time database
  scanned,     \* point_t.value: the value last put into the ring
  slots,       \* mbCmdList.listArray
  cur,         \* mbCmdList.cur
  rear,        \* mbCmdList.rear
  listNum,     \* mbCmdList.listNum
  reqIdx,      \* mbReqIdx
  transaction, \* transaction number of the next or the pending request
  sent,        \* sendFrame: the request the thread waits for
  pc,          \* where the thread is
  count,       \* failures since the last success
  isOnline,
  up,          \* the connection carries frames
  toDevice,    \* requests on their way
  fromDevice,  \* answers on their way
  register,    \* the control points' values in the device
  executed,    \* history: the writes the device executed
  source,      \* history: the poll whose answer was stored last for each poll
  faults       \* number of faults so far

rtdbVars == <<wanted, scanned>>
listVars == <<slots, cur, rear, listNum>>
masterVars == <<reqIdx, transaction, sent, pc, count, isOnline>>
deviceVars == <<register, executed>>
vars == <<rtdbVars, listVars, masterVars, up, toDevice, fromDevice, deviceVars, source, faults>>

Init ==
  /\ wanted = [p \in Points |-> 0]
  /\ scanned = [p \in Points |-> 0]
  /\ slots = [s \in Slots |-> NoFrame]
  /\ cur = 0 /\ rear = 0 /\ listNum = 0
  /\ reqIdx = 0
  /\ transaction = 0
  /\ sent = NoFrame
  /\ pc = "start"
  /\ count = 0
  /\ isOnline = FALSE
  /\ up = FALSE
  /\ toDevice = <<>>
  /\ fromDevice = <<>>
  /\ register = [p \in Points |-> 0]
  /\ executed = {}
  /\ source = [b \in Polls |-> b]
  /\ faults = 0

-----------------------------------------------------------------------------
(* Other threads change the control points.                                *)

\* The points whose value is not the one last put into the ring.
Changed == {p \in Points : wanted[p] # scanned[p]}

Change(p) ==
  /\ wanted[p] < MaxChanges
  /\ listNum + Cardinality({p} \cup Changed) <= MaxPending
  /\ wanted' = [wanted EXCEPT ![p] = @ + 1]
  /\ UNCHANGED <<scanned, listVars, masterVars, up, toDevice, fromDevice, deviceVars, source, faults>>

-----------------------------------------------------------------------------
(* The ring of pending writes.                                             *)

\* The writes of this scan, in the order of the points.
NewWrites ==
  LET changed == CHOOSE s \in [1 .. Cardinality(Changed) -> Changed] :
                   \A i, j \in DOMAIN s : i < j => s[i] < s[j]
  IN  [i \in DOMAIN changed |-> Write(changed[i], wanted[changed[i]])]

\* mutant of Filled: a write is stored behind the rear
FilledPast(new) ==
  [s \in Slots |-> LET i == (s - rear) % Size IN IF i \in DOMAIN new THEN new[i] ELSE slots[s]]

\* addItemToList for every new write; a full ring is not noticed.
Filled(new) ==
  [s \in Slots |-> LET i == ((s - rear) % Size) + 1 IN IF i \in DOMAIN new THEN new[i] ELSE slots[s]]

\* mutant of Pop: the write is not taken out
PopKept ==
  /\ cur' = (cur + 1) % Size
  /\ UNCHANGED <<slots, rear, listNum>>

\* The answered write leaves the ring (mbParseFunc05Fun06Respond).
Pop ==
  /\ slots' = [slots EXCEPT ![cur] = NoFrame]
  /\ cur' = (cur + 1) % Size
  /\ listNum' = IF listNum # 0 THEN listNum - 1 ELSE 0
  /\ UNCHANGED rear

-----------------------------------------------------------------------------
(* The thread: open, scan and send, wait, close.                           *)

Open ==
  /\ pc = "start"
  /\ pc' = "top"
  /\ up' = TRUE
  /\ UNCHANGED <<rtdbVars, listVars, reqIdx, transaction, sent, count, isOnline, toDevice,
                 fromDevice, deviceVars, source, faults>>

\* mutant of NextPoll: the index is not reset after the last request
NextPollPast == reqIdx + 1

NextPoll == (reqIdx + 1) % PollNum

\* Pending writes go before polls.  A frame sent on a broken connection is gone,
\* or the failure is noticed.
Transmit ==
  /\ pc = "top"
  /\ scanned' = wanted
  /\ slots' = Filled(NewWrites)
  /\ rear' = (rear + Len(NewWrites)) % Size
  /\ listNum' = listNum + Len(NewWrites)
  /\ sent' = IF listNum' > 0 THEN slots'[cur] ELSE Poll(reqIdx)
  /\ reqIdx' = IF listNum' > 0 THEN reqIdx ELSE NextPoll
  /\ \/ pc' = "wait"
     \/ ~up /\ pc' = "offline"
  /\ toDevice' = IF ~up \/ sent' = NoFrame THEN toDevice
                 ELSE Append(toDevice, [number |-> transaction, frame |-> sent'])
  /\ UNCHANGED <<wanted, cur, transaction, count, isOnline, up, fromDevice, deviceVars, source,
                 faults>>

NextTransaction == transaction' = (transaction + 1) % Modulus

\* mutant of Fail: a failure is not counted
FailUncounted(silent) ==
  /\ NextTransaction
  /\ pc' = "top"
  /\ UNCHANGED <<reqIdx, sent, count, isOnline>>

\* No answer, or not the right one.  The TCP loop leaves and closes the connection
\* after too many; the serial loop only reports the device offline, and only when
\* the line was silent.  A wrong answer that ends the connection keeps the number.
Fail(silent) ==
  /\ count' = IF count > Retries THEN count ELSE count + 1
  /\ pc' = IF ~Serial /\ count' > Retries THEN "offline" ELSE "top"
  /\ isOnline' = (isOnline /\ ~(Serial /\ silent /\ count' > Retries))
  /\ IF silent \/ pc' = "top" THEN NextTransaction ELSE UNCHANGED transaction
  /\ UNCHANGED <<reqIdx, sent>>

\* A second without an answer: nothing is coming, or it comes too late.
Timeout ==
  /\ pc = "wait"
  /\ \/ toDevice = <<>> /\ fromDevice = <<>> /\ UNCHANGED faults
     \/ faults < MaxFaults /\ faults' = faults + 1
  /\ Fail(TRUE)
  /\ UNCHANGED <<rtdbVars, listVars, up, toDevice, fromDevice, deviceVars, source>>

\* mutant of Accepted: the transaction number is not compared
AcceptedAny(answer) == answer.ok /\ Kind(answer.frame) = Kind(sent)

\* mutant of Accepted: an exception passes for an answer
AcceptedRefusal(answer) == answer.number = transaction

\* Over TCP the transaction number and the written value have to be those of the
\* request; a serial frame has no number, and only its length tells the kinds apart.
Accepted(answer) ==
  /\ answer.ok
  /\ IF Serial THEN Kind(answer.frame) = Kind(sent)
     ELSE /\ answer.number = transaction
          /\ Kind(answer.frame) = "write" =>
               Kind(sent) = "write" /\ answer.frame[3] = sent[3]

\* One recv takes all that has arrived and looks at the first frame only.
Receive(arrived) ==
  /\ pc = "wait"
  /\ arrived \in DOMAIN fromDevice
  /\ fromDevice' = SubSeq(fromDevice, arrived + 1, Len(fromDevice))
  /\ LET answer == Head(fromDevice) IN
       IF Accepted(answer)
         THEN /\ NextTransaction
              /\ pc' = "top"
              /\ count' = 0
              /\ isOnline' = TRUE
              /\ IF Kind(sent) = "write"
                   THEN Pop /\ UNCHANGED source
                   ELSE source' = [source EXCEPT ![sent[2]] = answer.frame[2]]
                        /\ UNCHANGED listVars
              /\ UNCHANGED <<reqIdx, sent>>
         ELSE Fail(FALSE) /\ UNCHANGED <<listVars, source>>
  /\ UNCHANGED <<rtdbVars, up, toDevice, deviceVars, faults>>

\* mbMasterOfflineCall and mbMasterStartCall: the ring survives
Offline ==
  /\ pc = "offline"
  /\ pc' = "start"
  /\ count' = 0
  /\ isOnline' = FALSE
  /\ up' = FALSE
  /\ toDevice' = <<>>
  /\ fromDevice' = <<>>
  /\ UNCHANGED <<rtdbVars, listVars, reqIdx, transaction, sent, deviceVars, source, faults>>

-----------------------------------------------------------------------------
(* The device and the line.                                                *)

Execute(frame) ==
  IF Kind(frame) = "write"
    THEN /\ register' = [register EXCEPT ![frame[2]] = frame[3]]
         /\ executed' = executed \cup {frame}
    ELSE UNCHANGED deviceVars

DeviceAnswer ==
  /\ toDevice # <<>>
  /\ toDevice' = Tail(toDevice)
  /\ Execute(Head(toDevice).frame)
  /\ fromDevice' = Append(fromDevice, [number |-> Head(toDevice).number,
                                       frame |-> Head(toDevice).frame, ok |-> TRUE])
  /\ UNCHANGED <<rtdbVars, listVars, masterVars, up, source, faults>>

\* The device answers with an exception.
DeviceRefuse ==
  /\ toDevice # <<>>
  /\ faults < MaxFaults
  /\ faults' = faults + 1
  /\ toDevice' = Tail(toDevice)
  /\ fromDevice' = Append(fromDevice, [number |-> Head(toDevice).number,
                                       frame |-> Head(toDevice).frame, ok |-> FALSE])
  /\ UNCHANGED <<rtdbVars, listVars, masterVars, up, deviceVars, source>>

\* The request or its answer is lost.
Lose ==
  /\ toDevice # <<>>
  /\ faults < MaxFaults
  /\ faults' = faults + 1
  /\ toDevice' = Tail(toDevice)
  /\ Execute(Head(toDevice).frame) \/ UNCHANGED deviceVars
  /\ UNCHANGED <<rtdbVars, listVars, masterVars, up, fromDevice, source>>

\* A TCP connection breaks; some answers may have arrived before.
Break ==
  /\ up /\ ~Serial
  /\ faults < MaxFaults
  /\ faults' = faults + 1
  /\ up' = FALSE
  /\ toDevice' = <<>>
  /\ \E arrived \in 0 .. Len(fromDevice) : fromDevice' = SubSeq(fromDevice, 1, arrived)
  /\ UNCHANGED <<rtdbVars, listVars, masterVars, deviceVars, source>>

-----------------------------------------------------------------------------
Master ==
  \/ Open
  \/ Transmit
  \/ Timeout
  \/ \E arrived \in 1 .. MaxFaults + 1 : Receive(arrived)
  \/ Offline

Environment ==
  \/ \E p \in Points : Change(p)
  \/ DeviceRefuse
  \/ Lose
  \/ Break

Next == Master \/ DeviceAnswer \/ Environment

Spec == Init /\ [][Next]_vars

\* The thread runs, and the device answers the requests it gets.
FairSpec == Spec /\ WF_vars(Master) /\ WF_vars(DeviceAnswer)

-----------------------------------------------------------------------------
(* Properties.                                                             *)

TypeOK ==
  /\ wanted \in [Points -> 0 .. MaxChanges] /\ scanned \in [Points -> 0 .. MaxChanges]
  /\ slots \in [Slots -> Frames]
  /\ cur \in Slots /\ rear \in Slots /\ listNum \in Nat
  /\ reqIdx \in Polls
  /\ transaction \in 0 .. Modulus - 1
  /\ sent \in Frames
  /\ pc \in {"start", "top", "wait", "offline"}
  /\ count \in 0 .. Retries + 1
  /\ isOnline \in BOOLEAN /\ up \in BOOLEAN
  /\ toDevice \in Seq([number : 0 .. Modulus - 1, frame : Frames])
  /\ fromDevice \in Seq([number : 0 .. Modulus - 1, frame : Frames, ok : BOOLEAN])
  /\ register \in [Points -> 0 .. MaxChanges]
  /\ executed \subseteq Frames
  /\ source \in [Polls -> Polls]
  /\ faults \in 0 .. MaxFaults

\* What is stored for a poll is the answer to this poll, however late the answers
\* to other polls arrive (bsp_modbus.c:738-742, 905-1015).
StoredFromItsPoll == \A b \in Polls : source[b] = b

\* The comment at bsp_modbus.c:1113 says that a write leaves the ring when it was
\* sent successfully: no write is forgotten that the device has not executed.
NoWriteForgotten == [][cur' # cur => slots[cur] \in executed]_vars

\* Retries and reconnections never bring an older value of a point back into the
\* device (bsp_modbus.c:1107-1119, 1496-1501).
NoOlderValue == [][\A p \in Points : register'[p] >= register[p]]_vars

\* When no write is pending, the device has the values that were last put into
\* the ring (bsp_modbus.c:1092-1120, 1398-1478).
Settled == listNum = 0 => register = scanned

\* Every value that was wanted reaches the device, or a later one does.
WritesArrive ==
  \A p \in Points, v \in 1 .. MaxChanges : wanted[p] = v ~> register[p] >= v

\* The device is polled again and again, whatever writes and faults come between,
\* and it is back online after the last of them.
PollsGoOn ==
  /\ \A b \in Polls : []<>(pc = "wait" /\ sent = Poll(b))
  /\ <>[]isOnline
=============================================================================
