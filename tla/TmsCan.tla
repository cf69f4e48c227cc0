------------------------------- MODULE TmsCan -------------------------------
(* Reception from the thermal management system (TMS) over CAN: the receive   *)
(* thread of bsp_can_sched.c puts frames into a queue, the CAN timer takes    *)
(* one per pass, protocol_can_tms.c keeps the last content of each of the     *)
(* five frames and publishes all of it.  creatCanTimerTask passes base_time 0 *)
(* to every callback, so neither the second of protocol_can_tms_send nor the  *)
(* five of tms_check_online ever elapse: nothing is sent, online stays 0.     *)
EXTENDS Naturals, Sequences

CONSTANTS
  Ids,            \* identifiers of the frames of the TMS
  Foreign,        \* any other identifier
  CanQueueSize,   \* CAN_MAX_QUEUE_ITEM_SIZE
  MaxFrames,      \* bound: frames of the TMS
  MaxTimeouts     \* bound: seconds without a frame

ASSUME TmsAssumption == CanQueueSize \in Nat /\ MaxFrames \in Nat /\ MaxTimeouts \in Nat

VARIABLES
  opened,         \* what drvCanOpen has done: "not yet", "open" or "failed"
  bus,            \* frames in the receive buffer of the socket
  msg,            \* the local msg of canClientThreadFunc
  canQueue,       \* can_recv_queue
  tms_status,     \* per frame: the number of the frame its content is from
  shown,          \* the same for the points in the RTDB
  tms_heart,      \* tms_heart
  frames, timeouts

tmsVars == <<opened, bus, msg, canQueue, tms_status, shown, tms_heart, frames, timeouts>>

\* The local msg is not initialised: until a frame has been read it may hold
\* any identifier, with content of no frame (number 0).
TmsInit ==
  /\ opened = "not yet"
  /\ bus = <<>>
  /\ msg \in [id : Ids \cup {Foreign}, nr : {0}]
  /\ canQueue = <<>>
  /\ tms_status = [id \in Ids |-> 0]
  /\ shown = [id \in Ids |-> 0]
  /\ tms_heart = 0
  /\ frames = 0 /\ timeouts = 0

\* The TMS sends a frame, which may be lost.
TmsSends ==
  /\ frames < MaxFrames
  /\ frames' = frames + 1
  /\ \E id \in Ids : bus' \in {bus, Append(bus, [id |-> id, nr |-> frames + 1])}
  /\ UNCHANGED <<opened, msg, canQueue, tms_status, shown, tms_heart, timeouts>>

\* When it fails, the receive thread ends.
drvCanOpen ==
  /\ opened = "not yet"
  /\ opened' \in {"open", "failed"}
  /\ UNCHANGED <<bus, msg, canQueue, tms_status, shown, tms_heart, frames, timeouts>>

\* A full queue refuses the message.
Enqueue(m) == canQueue' = IF Len(canQueue) < CanQueueSize THEN Append(canQueue, m) ELSE canQueue

Receive ==
  /\ opened = "open"
  /\ bus # <<>>
  /\ msg' = Head(bus)
  /\ bus' = Tail(bus)
  /\ Enqueue(msg')
  /\ UNCHANGED <<opened, tms_status, shown, tms_heart, frames, timeouts>>

\* drvCanNewRecv times out and leaves msg alone; what it returns is ignored.
ReceiveTimeout ==
  /\ opened = "open"
  /\ bus = <<>>
  /\ timeouts < MaxTimeouts
  /\ timeouts' = timeouts + 1
  /\ Enqueue(msg)
  /\ UNCHANGED <<opened, bus, msg, tms_status, shown, tms_heart, frames>>

\* mutant of Dequeued: the newest message is taken.
DequeuedNewest(q) == [msg |-> q[Len(q)], rest |-> SubSeq(q, 1, Len(q) - 1)]
Dequeued(q) == [msg |-> Head(q), rest |-> Tail(q)]

\* The heart counts every message, and a frame of another identifier is no
\* more than that.
protocol_can_tms_recv(m) ==
  /\ tms_heart' = tms_heart + 1
  /\ tms_status' = [id \in Ids |-> IF id = m.id THEN m.nr ELSE tms_status[id]]

\* protocol_can_poll: a message if there is one, then app_tms_sync_rtdb.
protocol_can_poll ==
  /\ \/ /\ canQueue # <<>>
        /\ protocol_can_tms_recv(Dequeued(canQueue).msg)
        /\ canQueue' = Dequeued(canQueue).rest
     \/ canQueue = <<>> /\ UNCHANGED <<canQueue, tms_status, tms_heart>>
  /\ shown' = tms_status'
  /\ UNCHANGED <<opened, bus, msg, frames, timeouts>>

TmsNext == TmsSends \/ drvCanOpen \/ Receive \/ ReceiveTimeout \/ protocol_can_poll
TmsSpec == TmsInit /\ [][TmsNext]_tmsVars

-----------------------------------------------------------------------------
(* Properties.                                                               *)

\* Types of the state.
TmsTypeOK ==
  /\ Len(canQueue) <= CanQueueSize
  /\ \A id \in Ids : {tms_status[id], shown[id]} \subseteq 0 .. MaxFrames
  /\ tms_heart <= frames + timeouts

\* Seconds without a frame repeat the last one, a full queue drops the newest
\* and frames are lost on the bus: still no point goes back to a value that is
\* older than the one shown.
NeverOlder == [][\A id \in Ids : shown'[id] >= shown[id]]_tmsVars
=============================================================================
