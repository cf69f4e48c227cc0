---------------------------- MODULE ModbusShared ----------------------------
(***************************************************************************)
(* bsp/bsp_modbus.c: one thread and one TCP connection for several Modbus  *)
(* devices behind a gateway (creatNetModbusMultTaskEntry).  The thread     *)
(* polls the devices in turn; transaction numbers and the time of the last *)
(* answer belong to the connection, misses to the device.                  *)
(*                                                                         *)
(* The ring of writes of these devices is never allocated (initModbusSigle *)
(* is not called for them), so addItemToList drops every write and the     *)
(* thread only polls.                                                      *)
(***************************************************************************)
EXTENDS Integers, Sequences, FiniteSets

CONSTANTS
  DevNum,          \* devices on the connection, devNum
  Requests,        \* requests in mbReqList of each device
  Transactions,    \* modulus of the transaction number, 65535 in the code
  LostAfter,       \* receive timeouts of a second after which a device is offline, 3
  MaxDeviceFaults  \* bound: late, lost and refused answers

\* Fewer answers are late at a time than there are transaction numbers.
ASSUME SharedAssumption ==
  /\ DevNum \in Nat \ {0} /\ Requests \in Nat \ {0} /\ LostAfter \in Nat
  /\ Transactions \in Nat /\ MaxDeviceFaults \in 0 .. Transactions - 1

VARIABLES
  sharedPc,      \* "open", "send", "wait", "judge" or "close"
  turn,          \* the device polled
  request,       \* mbReqIdx of each device
  number,        \* itemAll->itemTcp.transaction
  asked,         \* the request the thread waits for
  online,        \* devices with isOnline = 1
  misses,        \* itemTcp.count of each device
  silent,        \* receive timeouts since the last answer of each device
  quietLine,     \* receive timeouts since the connection brought anything
  onWire,        \* requests and answers on the connection, oldest first
  answeredBy,    \* history: the request whose answer was stored last, and the one asked then
  deviceFaults   \* faults so far

sharedVars == <<sharedPc, turn, request, number, asked, online, misses, silent, quietLine,
                onWire, answeredBy, deviceFaults>>

Devs == 1 .. DevNum
Asked(dev, req, nr) == [dev |-> dev, req |-> req, nr |-> nr]
NoRequest == Asked(0, 0, 0)

SharedInit ==
  /\ sharedPc = "open" /\ turn = 1
  /\ request = [d \in Devs |-> 0] /\ number = 0 /\ asked = NoRequest
  /\ online = {} /\ misses = [d \in Devs |-> 0]
  /\ silent = [d \in Devs |-> LostAfter + 1] /\ quietLine = LostAfter + 1
  /\ onWire = <<>> /\ answeredBy = <<NoRequest, NoRequest>> /\ deviceFaults = 0

-----------------------------------------------------------------------------

\* mbMasterMultStartCall; the devices keep their misses.
mbMasterMultStartCall ==
  /\ sharedPc = "open"
  /\ sharedPc' = "send" /\ turn' = 1
  /\ online' = {}
  /\ UNCHANGED <<request, number, asked, misses, silent, quietLine, onWire, answeredBy, deviceFaults>>

\* mbTcpMultSendFrame with the next request of the device.
SendRequest ==
  /\ sharedPc = "send"
  /\ asked' = Asked(turn, request[turn], number)
  /\ onWire' = Append(onWire, asked')
  /\ request' = [request EXCEPT ![turn] = (@ + 1) % Requests]
  /\ sharedPc' = "wait"
  /\ UNCHANGED <<turn, number, online, misses, silent, quietLine, answeredBy, deviceFaults>>

\* The connection is gone: only the first device is marked at once, the
\* others by mbMasterMultOfflineCall.
SendBroken ==
  /\ sharedPc = "send" /\ deviceFaults < MaxDeviceFaults
  /\ deviceFaults' = deviceFaults + 1
  /\ online' = online \ {1}
  /\ sharedPc' = "close"
  /\ UNCHANGED <<turn, request, number, asked, misses, silent, quietLine, onWire, answeredBy>>

\* mutant of NextNumber: the number is kept for a request without an answer
NextNumberKept == number

NextNumber == (number + 1) % Transactions

\* The third failure in a row takes the device offline.
Failed(d) ==
  /\ misses' = [misses EXCEPT ![d] = @ + 1]
  /\ online' = IF misses[d] + 1 > 2 THEN online \ {d} ELSE online

Least(n) == IF n > LostAfter THEN LostAfter + 1 ELSE n

\* drvTcpRecv gives up after a second; the request or its answer is lost, or
\* still on its way.
NoAnswer ==
  /\ sharedPc = "wait" /\ deviceFaults < MaxDeviceFaults
  /\ deviceFaults' = deviceFaults + 1
  /\ \/ onWire' = onWire
     \/ onWire # <<>> /\ onWire' = SubSeq(onWire, 1, Len(onWire) - 1)
  /\ number' = NextNumber
  /\ Failed(turn)
  /\ silent' = [d \in Devs |-> Least(silent[d] + 1)]
  /\ quietLine' = Least(quietLine + 1)
  /\ sharedPc' = "judge"
  /\ UNCHANGED <<turn, request, asked, answeredBy>>

\* modbusTcpCmdAnalize: the transaction number and the unit are compared.
Matches(answer) == answer.nr = number /\ answer.dev = turn

\* The oldest answer on the connection is received and stored or dropped; an
\* exception answer is dropped too, and so is whatever lay behind the answer in
\* the receive buffer.
AnswerArrives ==
  /\ sharedPc = "wait" /\ onWire # <<>>
  /\ LET answer == Head(onWire) IN
       \/ /\ Matches(answer)
          /\ answeredBy' = <<answer, asked>>
          /\ online' = online \cup {turn}
          /\ misses' = [misses EXCEPT ![turn] = 0]
          /\ silent' = [silent EXCEPT ![turn] = 0]
          /\ UNCHANGED deviceFaults
       \/ /\ deviceFaults < MaxDeviceFaults \/ ~Matches(answer)
          /\ deviceFaults' = IF Matches(answer) THEN deviceFaults + 1 ELSE deviceFaults
          /\ Failed(turn)
          /\ UNCHANGED <<silent, answeredBy>>
  /\ \E received \in 1 .. Len(onWire) : onWire' = SubSeq(onWire, received + 1, Len(onWire))
  /\ quietLine' = 0
  /\ number' = (number + 1) % Transactions
  /\ sharedPc' = "judge"
  /\ UNCHANGED <<turn, request, asked>>

\* Devices silent for too long go offline; with no device online or nothing
\* received for too long, the connection is given up.  The clock is read in
\* milliseconds: LostAfter timeouts are more than LostAfter seconds or not.
Judge ==
  /\ sharedPc = "judge"
  /\ \E lost \in SUBSET online :
       /\ {d \in online : silent[d] > LostAfter} \subseteq lost
       /\ lost \subseteq {d \in online : silent[d] >= LostAfter}
       /\ IF online \ lost = {} \/ quietLine > LostAfter
          THEN /\ sharedPc' = "close" /\ online' = (online \ lost) \ {1}
               /\ UNCHANGED turn
          ELSE /\ sharedPc' = "send" /\ online' = online \ lost
               /\ turn' = (turn % DevNum) + 1
  /\ UNCHANGED <<request, number, asked, misses, silent, quietLine, onWire, answeredBy, deviceFaults>>

\* mbMasterMultOfflineCall: the connection is closed with what is on it.
mbMasterMultOfflineCall ==
  /\ sharedPc = "close"
  /\ sharedPc' = "open"
  /\ online' = {}
  /\ onWire' = <<>>
  /\ UNCHANGED <<turn, request, number, asked, misses, silent, quietLine, answeredBy, deviceFaults>>

SharedNext ==
  \/ mbMasterMultStartCall \/ SendRequest \/ SendBroken \/ NoAnswer \/ AnswerArrives
  \/ Judge \/ mbMasterMultOfflineCall

SharedSpec == SharedInit /\ [][SharedNext]_sharedVars

-----------------------------------------------------------------------------

\* Types of the state.
SharedTypeOK ==
  /\ sharedPc \in {"open", "send", "wait", "judge", "close"} /\ turn \in Devs
  /\ request \in [Devs -> 0 .. Requests - 1] /\ number \in 0 .. Transactions - 1
  /\ online \subseteq Devs /\ misses \in [Devs -> Nat]
  /\ silent \in [Devs -> 0 .. LostAfter + 1] /\ quietLine \in 0 .. LostAfter + 1
  /\ deviceFaults \in 0 .. MaxDeviceFaults

\* Late answers of one device are never stored for another device or another
\* request of the shared connection (mbMasterMultOnlineCall, modbusTcpCmdAnalize).
StoredForItsDevice == answeredBy[1] = answeredBy[2]
=============================================================================
