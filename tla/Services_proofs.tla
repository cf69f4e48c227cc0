---------------------------- MODULE Services_proofs ----------------------------
(* What holds of the services around the hub, for every number of devices,       *)
(* clients, frames, saves and faults: the reception from the TMS over CAN        *)
(* (TmsCan), the Modbus devices that share one connection (ModbusShared), the    *)
(* clients on the port of the host computer (Uplink) and the signs of the web    *)
(* backend (WebSign), each with an inductive invariant; then of all of the       *)
(* services together (MCServices).                                               *)
EXTENDS MCServices, Stack_proofs, Storage_proofs

-----------------------------------------------------------------------------
(* Reception from the TMS.                                                 *)

\* What a frame in the buffer, in the queue or in the local msg looks like.
Frame == [id : Ids \cup {Foreign}, nr : Nat]

\* The types, and the two bounds: of the frames and of the queue.
TmsState ==
  /\ bus \in Seq(Frame) /\ canQueue \in Seq(Frame) /\ msg \in Frame
  /\ tms_status \in [Ids -> Nat] /\ shown \in [Ids -> Nat]
  /\ tms_heart \in Nat /\ frames \in Nat /\ timeouts \in Nat
  /\ frames <= MaxFrames
  /\ Len(canQueue) <= CanQueueSize

\* No frame is lost track of twice: each message counted, queued or still in
\* the buffer is a frame that was sent, or a timeout.
TmsCounted == tms_heart + Len(canQueue) + Len(bus) <= frames + timeouts

\* Numbers grow along the path of a frame: from the points shown over the
\* status, the queue and the frame read last to the buffer of the socket.
TmsOrdered ==
  /\ \A id \in Ids : shown[id] <= tms_status[id] /\ tms_status[id] <= msg.nr
  /\ \A id \in Ids, i \in 1 .. Len(canQueue) : tms_status[id] <= canQueue[i].nr
  /\ \A i, j \in 1 .. Len(canQueue) : i <= j => canQueue[i].nr <= canQueue[j].nr
  /\ \A i \in 1 .. Len(canQueue) : canQueue[i].nr <= msg.nr
  /\ \A i \in 1 .. Len(bus) : msg.nr <= bus[i].nr /\ bus[i].nr <= frames
  /\ \A i, j \in 1 .. Len(bus) : i <= j => bus[i].nr <= bus[j].nr
  /\ msg.nr <= frames

\* The inductive invariant of the reception.
TmsInv == TmsState /\ TmsCounted /\ TmsOrdered

\* The fields of a frame.
LEMMA FrameFields == \A f \in Frame : f.id \in Ids \cup {Foreign} /\ f.nr \in Nat
  BY DEF Frame

\* The numbers the invariant compares are numbers.
LEMMA TmsNumbers ==
  ASSUME TmsState
  PROVE  /\ Len(bus) \in Nat /\ Len(canQueue) \in Nat /\ msg.nr \in Nat
         /\ \A i \in 1 .. Len(bus) : bus[i] \in Frame /\ bus[i].nr \in Nat
         /\ \A i \in 1 .. Len(canQueue) : canQueue[i] \in Frame /\ canQueue[i].nr \in Nat
         /\ frames \in Nat /\ timeouts \in Nat /\ tms_heart \in Nat
         /\ \A id \in Ids : shown[id] \in Nat /\ tms_status[id] \in Nat
<1>1. bus \in Seq(Frame) /\ canQueue \in Seq(Frame) /\ msg \in Frame
  BY DEF TmsState
<1>2. /\ \A i \in 1 .. Len(bus) : bus[i] \in Frame
      /\ \A i \in 1 .. Len(canQueue) : canQueue[i] \in Frame
      /\ Len(bus) \in Nat /\ Len(canQueue) \in Nat
  BY <1>1, ElementOfSeq, LenProperties
<1>3. QED
  BY <1>1, <1>2, FrameFields DEF TmsState

\* A queue without its first element.
LEMMA TailElements ==
  ASSUME NEW s \in Seq(Frame), Len(s) > 0
  PROVE  /\ Tail(s) \in Seq(Frame) /\ Len(Tail(s)) = Len(s) - 1 /\ Len(Tail(s)) \in Nat
         /\ \A i \in 1 .. Len(Tail(s)) : i + 1 \in 1 .. Len(s) /\ Tail(s)[i] = s[i + 1]
<1>1. Len(s) \in Nat
  BY LenProperties
<1>2. Tail(s) \in Seq(Frame) /\ Len(Tail(s)) = Len(s) - 1
  BY <1>1
<1>3. \A i \in 1 .. Len(s) - 1 : Tail(s)[i] = s[i + 1]
  BY <1>1
<1>4. \A i \in 1 .. Len(s) - 1 : i + 1 \in 1 .. Len(s)
  BY <1>1
<1>5. QED
  BY <1>1, <1>2, <1>3, <1>4

\* Without its first element it is still in order.
LEMMA TailKeepsOrder ==
  ASSUME NEW s \in Seq(Frame), Len(s) > 0,
         \A i, j \in 1 .. Len(s) : i <= j => s[i].nr <= s[j].nr
  PROVE  \A i, j \in 1 .. Len(Tail(s)) : i <= j => Tail(s)[i].nr <= Tail(s)[j].nr
<1> TAKE i, j \in 1 .. Len(Tail(s))
<1>1. /\ i + 1 \in 1 .. Len(s) /\ j + 1 \in 1 .. Len(s)
      /\ Tail(s)[i] = s[i + 1] /\ Tail(s)[j] = s[j + 1]
  BY TailElements
<1>2. i <= j => i + 1 <= j + 1
  BY LenProperties, TailElements
<1>3. QED
  BY <1>1, <1>2

\* The empty buffer, queue and status satisfy the invariant.
LEMMA TmsInitInv == TmsInit => TmsInv
<1>1. SUFFICES ASSUME TmsInit PROVE TmsInv
  OBVIOUS
<1>2. msg \in Frame /\ msg.nr = 0
  <2>1. PICK i \in Ids \cup {Foreign}, n \in {0} : msg = [id |-> i, nr |-> n]
    BY <1>1 DEF TmsInit
  <2>2. QED
    BY <2>1 DEF Frame
<1>3. /\ bus = <<>> /\ canQueue = <<>> /\ tms_heart = 0 /\ frames = 0 /\ timeouts = 0
      /\ tms_status = [id \in Ids |-> 0] /\ shown = [id \in Ids |-> 0]
  BY <1>1 DEF TmsInit
<1>4. TmsState
  BY <1>2, <1>3, TmsAssumption DEF TmsState
<1>5. TmsCounted /\ TmsOrdered
  BY <1>2, <1>3 DEF TmsCounted, TmsOrdered
<1>6. QED
  BY <1>4, <1>5 DEF TmsInv

\* A message that is no older than the queue joins it without breaking the order.
LEMMA EnqueueKeepsOrder ==
  ASSUME TmsInv, NEW m \in Frame, msg.nr <= m.nr, Enqueue(m)
  PROVE  /\ canQueue' \in Seq(Frame)
         /\ Len(canQueue') <= CanQueueSize
         /\ Len(canQueue') <= Len(canQueue) + 1
         /\ \A id \in Ids, i \in 1 .. Len(canQueue') : tms_status[id] <= canQueue'[i].nr
         /\ \A i, j \in 1 .. Len(canQueue') : i <= j => canQueue'[i].nr <= canQueue'[j].nr
         /\ \A i \in 1 .. Len(canQueue') : canQueue'[i].nr <= m.nr
<1> USE TmsAssumption DEF TmsInv, TmsState, TmsOrdered
<1>1. /\ Len(canQueue) \in Nat /\ m.nr \in Nat /\ msg.nr \in Nat
      /\ \A i \in 1 .. Len(canQueue) : canQueue[i] \in Frame /\ canQueue[i].nr \in Nat
  BY TmsNumbers, FrameFields
<1>2. CASE Len(canQueue) < CanQueueSize
  <2>1. /\ canQueue' = Append(canQueue, m)
        /\ Len(canQueue') = Len(canQueue) + 1
        /\ \A i \in 1 .. Len(canQueue') : canQueue'[i] = IF i <= Len(canQueue) THEN canQueue[i] ELSE m
    BY <1>2 DEF Enqueue
  <2>2. \A id \in Ids, i \in 1 .. Len(canQueue') : tms_status[id] <= canQueue'[i].nr
    BY <1>1, <2>1
  <2>3. \A i \in 1 .. Len(canQueue') : canQueue'[i].nr <= m.nr
    BY <1>1, <2>1
  <2>4. \A i, j \in 1 .. Len(canQueue') : i <= j => canQueue'[i].nr <= canQueue'[j].nr
    BY <1>1, <2>1
  <2>5. QED
    BY <1>1, <1>2, <2>1, <2>2, <2>3, <2>4
<1>3. CASE ~(Len(canQueue) < CanQueueSize)
  BY <1>1, <1>3 DEF Enqueue
<1>4. QED
  BY <1>2, <1>3

\* Each step keeps the invariant and shows no older status.
LEMMA TmsStep == TmsInv /\ [TmsNext]_tmsVars => TmsInv' /\ \A id \in Ids : shown'[id] >= shown[id]
<1> SUFFICES ASSUME TmsInv, [TmsNext]_tmsVars
             PROVE  TmsInv' /\ \A id \in Ids : shown'[id] >= shown[id]
  OBVIOUS
<1>1. /\ Len(bus) \in Nat /\ Len(canQueue) \in Nat /\ msg.nr \in Nat
      /\ \A i \in 1 .. Len(bus) : bus[i] \in Frame /\ bus[i].nr \in Nat
      /\ \A i \in 1 .. Len(canQueue) : canQueue[i] \in Frame /\ canQueue[i].nr \in Nat
      /\ frames \in Nat /\ timeouts \in Nat /\ tms_heart \in Nat
      /\ \A id \in Ids : shown[id] \in Nat /\ tms_status[id] \in Nat
  BY TmsNumbers DEF TmsInv
<1>2. CASE TmsSends
  <2>1. PICK id \in Ids : bus' \in {bus, Append(bus, [id |-> id, nr |-> frames + 1])}
    BY <1>2 DEF TmsSends
  <2>2. /\ frames' = frames + 1 /\ frames < MaxFrames
        /\ UNCHANGED <<msg, canQueue, tms_status, shown, tms_heart, timeouts>>
    BY <1>2 DEF TmsSends
  <2>3. [id |-> id, nr |-> frames + 1] \in Frame
    BY <1>1 DEF Frame
  <2>4. /\ bus' \in Seq(Frame) /\ Len(bus') <= Len(bus) + 1 /\ Len(bus') \in Nat
        /\ \A i \in 1 .. Len(bus') : \/ i <= Len(bus) /\ bus'[i] = bus[i]
                                     \/ i = Len(bus) + 1 /\ bus'[i] = [id |-> id, nr |-> frames + 1]
    <3>1. bus \in Seq(Frame)
      BY DEF TmsInv, TmsState
    <3>2. CASE bus' = bus
      BY <1>1, <3>1, <3>2
    <3>3. CASE bus' = Append(bus, [id |-> id, nr |-> frames + 1])
      BY <1>1, <2>3, <3>1, <3>3
    <3>4. QED
      BY <2>1, <3>2, <3>3
  <2>5. TmsState'
    BY <1>1, <2>2, <2>4, TmsAssumption DEF TmsInv, TmsState
  <2>6. TmsCounted'
    BY <1>1, <2>2, <2>4 DEF TmsInv, TmsCounted
  <2>7. TmsOrdered'
    <3>1. \A i \in 1 .. Len(bus') : msg.nr <= bus'[i].nr /\ bus'[i].nr <= frames'
      <4>1. msg.nr <= frames
        BY DEF TmsInv, TmsOrdered
      <4>2. \A i \in 1 .. Len(bus) : msg.nr <= bus[i].nr /\ bus[i].nr <= frames
        BY DEF TmsInv, TmsOrdered
      <4>3. ASSUME NEW i \in 1 .. Len(bus')
            PROVE  msg.nr <= bus'[i].nr /\ bus'[i].nr <= frames + 1
        <5>1. CASE i <= Len(bus) /\ bus'[i] = bus[i]
          BY <1>1, <2>4, <4>2, <5>1
        <5>2. CASE bus'[i] = [id |-> id, nr |-> frames + 1]
          BY <1>1, <4>1, <5>2
        <5>3. QED
          BY <2>4, <5>1, <5>2
      <4>4. QED
        BY <2>2, <4>3
    <3>2. ASSUME NEW i \in 1 .. Len(bus'), NEW j \in 1 .. Len(bus'), i <= j
          PROVE  bus'[i].nr <= bus'[j].nr
      <4>1. CASE j <= Len(bus)
        BY <1>1, <2>4, <3>2, <4>1, SMTT(30) DEF TmsInv, TmsOrdered
      <4>2. CASE j = Len(bus) + 1
        <5>1. bus'[j].nr = frames + 1
          BY <1>1, <2>4, <4>2
        <5>2. QED
          BY <2>2, <3>1, <5>1
      <4>3. QED
        BY <1>1, <2>4, <4>1, <4>2
    <3>3. /\ \A i \in Ids : shown'[i] <= tms_status'[i] /\ tms_status'[i] <= msg'.nr
          /\ \A i \in Ids, j \in 1 .. Len(canQueue') : tms_status'[i] <= canQueue'[j].nr
          /\ \A i, j \in 1 .. Len(canQueue') : i <= j => canQueue'[i].nr <= canQueue'[j].nr
          /\ \A i \in 1 .. Len(canQueue') : canQueue'[i].nr <= msg'.nr
      BY <2>2 DEF TmsInv, TmsOrdered
    <3>4. msg'.nr <= frames' /\ msg' = msg
      BY <1>1, <2>2 DEF TmsInv, TmsOrdered
    <3>5. QED
      BY <3>1, <3>2, <3>3, <3>4 DEF TmsOrdered
  <2>8. QED
    BY <1>1, <2>2, <2>5, <2>6, <2>7 DEF TmsInv
<1>3. CASE drvCanOpen
  <2>1. UNCHANGED <<bus, msg, canQueue, tms_status, shown, tms_heart, frames, timeouts>>
    BY <1>3 DEF drvCanOpen
  <2>2. TmsState' /\ TmsCounted'
    BY <2>1 DEF TmsInv, TmsState, TmsCounted
  <2>3. TmsOrdered'
    BY <2>1 DEF TmsInv, TmsOrdered
  <2>4. QED
    BY <1>1, <2>1, <2>2, <2>3 DEF TmsInv
<1>4. CASE Receive
  <2>1. /\ bus # <<>> /\ msg' = bus[1] /\ bus' = Tail(bus) /\ Enqueue(bus[1])
        /\ UNCHANGED <<tms_status, shown, tms_heart, frames, timeouts>>
    BY <1>4 DEF Receive, Enqueue
  <2>2. Len(bus) > 0
    BY <1>1, <2>1 DEF TmsInv, TmsState
  <2>3. /\ msg' \in Frame /\ msg.nr <= bus[1].nr /\ bus[1].nr <= frames
    BY <1>1, <2>1, <2>2 DEF TmsInv, TmsOrdered
  <2>4. /\ bus' \in Seq(Frame) /\ Len(bus') = Len(bus) - 1
        /\ \A i \in 1 .. Len(bus') : i + 1 \in 1 .. Len(bus) /\ bus'[i] = bus[i + 1]
    BY <1>1, <2>1, <2>2, TailElements DEF TmsInv, TmsState
  <2>5. /\ canQueue' \in Seq(Frame)
        /\ Len(canQueue') <= CanQueueSize
        /\ Len(canQueue') <= Len(canQueue) + 1
        /\ \A id \in Ids, i \in 1 .. Len(canQueue') : tms_status[id] <= canQueue'[i].nr
        /\ \A i, j \in 1 .. Len(canQueue') : i <= j => canQueue'[i].nr <= canQueue'[j].nr
        /\ \A i \in 1 .. Len(canQueue') : canQueue'[i].nr <= msg'.nr
    BY <2>1, <2>3, EnqueueKeepsOrder
  <2>6. TmsState'
    BY <1>1, <2>1, <2>3, <2>4, <2>5 DEF TmsInv, TmsState
  <2>7. TmsCounted'
    BY <1>1, <2>1, <2>4, <2>5 DEF TmsInv, TmsCounted
  <2>8. \A i \in 1 .. Len(bus') : msg'.nr <= bus'[i].nr /\ bus'[i].nr <= frames'
    BY <1>1, <2>1, <2>2, <2>4 DEF TmsInv, TmsOrdered
  <2>9. \A i, j \in 1 .. Len(bus') : i <= j => bus'[i].nr <= bus'[j].nr
    BY <1>1, <2>1, <2>2, TailKeepsOrder DEF TmsInv, TmsState, TmsOrdered
  <2>10. \A id \in Ids : shown'[id] <= tms_status'[id] /\ tms_status'[id] <= msg'.nr
    BY <1>1, <2>1, <2>2, <2>3 DEF TmsInv, TmsOrdered
  <2>11. TmsOrdered'
    BY <2>1, <2>3, <2>5, <2>8, <2>9, <2>10 DEF TmsOrdered
  <2>12. QED
    BY <1>1, <2>1, <2>6, <2>7, <2>11 DEF TmsInv
<1>5. CASE ReceiveTimeout
  <2>1. /\ Enqueue(msg) /\ timeouts' = timeouts + 1
        /\ UNCHANGED <<bus, msg, tms_status, shown, tms_heart, frames>>
    BY <1>5 DEF ReceiveTimeout
  <2>2. msg \in Frame /\ msg.nr <= msg.nr
    BY <1>1 DEF TmsInv, TmsState
  <2>3. /\ canQueue' \in Seq(Frame)
        /\ Len(canQueue') <= CanQueueSize
        /\ Len(canQueue') <= Len(canQueue) + 1
        /\ \A id \in Ids, i \in 1 .. Len(canQueue') : tms_status[id] <= canQueue'[i].nr
        /\ \A i, j \in 1 .. Len(canQueue') : i <= j => canQueue'[i].nr <= canQueue'[j].nr
        /\ \A i \in 1 .. Len(canQueue') : canQueue'[i].nr <= msg.nr
    BY <2>1, <2>2, EnqueueKeepsOrder
  <2>4. TmsState' /\ TmsCounted'
    BY <1>1, <2>1, <2>3 DEF TmsInv, TmsState, TmsCounted
  <2>5. TmsOrdered'
    BY <1>1, <2>1, <2>3 DEF TmsInv, TmsOrdered
  <2>6. QED
    BY <1>1, <2>1, <2>4, <2>5 DEF TmsInv
<1>6. CASE protocol_can_poll
  <2>1. shown' = tms_status' /\ UNCHANGED <<bus, msg, frames, timeouts>>
    BY <1>6 DEF protocol_can_poll
  <2>2. CASE canQueue = <<>> /\ UNCHANGED <<canQueue, tms_status, tms_heart>>
    BY <1>1, <2>1, <2>2 DEF TmsInv, TmsState, TmsCounted, TmsOrdered
  <2>3. CASE canQueue # <<>> /\ protocol_can_tms_recv(Dequeued(canQueue).msg)
                             /\ canQueue' = Dequeued(canQueue).rest
    <3>1. /\ Len(canQueue) > 0
          /\ canQueue' = Tail(canQueue) /\ tms_heart' = tms_heart + 1
          /\ tms_status' = [id \in Ids |-> IF id = canQueue[1].id THEN canQueue[1].nr ELSE tms_status[id]]
      BY <1>1, <2>3 DEF TmsInv, TmsState, Dequeued, protocol_can_tms_recv
    <3>2. /\ canQueue' \in Seq(Frame) /\ Len(canQueue') = Len(canQueue) - 1
          /\ \A i \in 1 .. Len(canQueue') : i + 1 \in 1 .. Len(canQueue) /\ canQueue'[i] = canQueue[i + 1]
      BY <1>1, <3>1, TailElements DEF TmsInv, TmsState
    <3>3. \A id \in Ids : /\ tms_status'[id] \in Nat
                          /\ tms_status[id] <= tms_status'[id]
                          /\ tms_status'[id] <= canQueue[1].nr
      BY <1>1, <3>1 DEF TmsInv, TmsOrdered
    <3>4. tms_status' \in [Ids -> Nat]
      BY <1>1, <3>1
    <3>5. TmsState' /\ TmsCounted'
      BY <1>1, <2>1, <3>1, <3>2, <3>4, TmsAssumption DEF TmsInv, TmsState, TmsCounted
    <3>6. \A id \in Ids, i \in 1 .. Len(canQueue') : tms_status'[id] <= canQueue'[i].nr
      BY <1>1, <3>2, <3>3, <3>1 DEF TmsInv, TmsOrdered
    <3>7. \A i, j \in 1 .. Len(canQueue') : i <= j => canQueue'[i].nr <= canQueue'[j].nr
      BY <1>1, <3>1, TailKeepsOrder DEF TmsInv, TmsState, TmsOrdered
    <3>8. \A i \in 1 .. Len(canQueue') : canQueue'[i].nr <= msg'.nr
      BY <1>1, <2>1, <3>2 DEF TmsInv, TmsOrdered
    <3>9. \A id \in Ids : shown'[id] <= tms_status'[id] /\ tms_status'[id] <= msg'.nr
      <4>1. canQueue[1].nr <= msg.nr
        BY <1>1, <3>1 DEF TmsInv, TmsOrdered
      <4>2. \A id \in Ids : tms_status'[id] <= msg.nr
        BY <1>1, <3>1, <4>1 DEF TmsInv, TmsOrdered
      <4>3. QED
        BY <1>1, <2>1, <3>3, <4>2
    <3>10. TmsOrdered'
      BY <2>1, <3>6, <3>7, <3>8, <3>9 DEF TmsInv, TmsOrdered
    <3>11. \A id \in Ids : shown'[id] >= shown[id]
      BY <1>1, <2>1, <3>3 DEF TmsInv, TmsOrdered
    <3>12. QED
      BY <3>5, <3>10, <3>11 DEF TmsInv
  <2>4. QED
    BY <1>6, <2>2, <2>3 DEF protocol_can_poll
<1>7. CASE UNCHANGED tmsVars
  BY <1>1, <1>7 DEF tmsVars, TmsInv, TmsState, TmsCounted, TmsOrdered
<1>8. QED
  BY <1>2, <1>3, <1>4, <1>5, <1>6, <1>7 DEF TmsNext

\* The status and the points only ever hold numbers of frames that were sent,
\* and the queue of drv_can.c never outgrows its size.
THEOREM TmsTypeCorrect == TmsSpec => []TmsTypeOK
<1>1. TmsInv => TmsTypeOK
  <2> SUFFICES ASSUME TmsInv PROVE TmsTypeOK
    OBVIOUS
  <2>1. \A id \in Ids : tms_status[id] \in 0 .. MaxFrames /\ shown[id] \in 0 .. MaxFrames
    <3>1. msg.nr <= MaxFrames /\ MaxFrames \in Nat /\ msg.nr \in Nat
      BY TmsNumbers, TmsAssumption DEF TmsInv, TmsState, TmsOrdered
    <3>2. TAKE id \in Ids
    <3>3. /\ shown[id] \in Nat /\ tms_status[id] \in Nat
          /\ shown[id] <= tms_status[id] /\ tms_status[id] <= msg.nr
      BY TmsNumbers DEF TmsInv, TmsOrdered
    <3>4. QED
      BY <3>1, <3>3
  <2>2. QED
    BY <2>1 DEF TmsInv, TmsState, TmsCounted, TmsTypeOK
<1>2. QED
  BY <1>1, TmsInitInv, TmsStep, PTL DEF TmsSpec

\* The points of the TMS never go back to an older status (drv_can.c,
\* protocol_can_tms.c): the queue and the local msg, which a timeout stores again,
\* keep the order of the frames.
THEOREM TmsNeverOlder == TmsSpec => NeverOlder
<1>1. TmsInv /\ [TmsNext]_tmsVars => [\A id \in Ids : shown'[id] >= shown[id]]_tmsVars
  BY TmsStep
<1>2. QED
  BY <1>1, TmsInitInv, TmsStep, PTL DEF TmsSpec, NeverOlder

-----------------------------------------------------------------------------
(* Devices that share a connection.                                        *)

\* A request or answer on the connection.
Message == [dev : Devs, req : Nat, nr : 0 .. Transactions - 1]

\* The types.
SharedState ==
  /\ SharedTypeOK
  /\ onWire \in Seq(Message)

\* Transaction numbers given out since the one of the message.
Age(m, n) == IF n >= m.nr THEN n - m.nr ELSE n - m.nr + Transactions

\* A message that has waited on the connection owes it to a fault, and so does
\* each message before it.
WaitsForFaults == \A i \in 1 .. Len(onWire) : i + Age(onWire[i], number) <= deviceFaults + 1

\* Only the request the thread waits for has the number of the connection.
OneIsAsked ==
  /\ sharedPc = "wait" => asked.nr = number /\ asked.dev = turn
  /\ \A i \in 1 .. Len(onWire) : Age(onWire[i], number) = 0 => sharedPc = "wait" /\ onWire[i] = asked

\* The inductive invariant of the shared connection.
SharedInv == SharedState /\ WaitsForFaults /\ OneIsAsked /\ StoredForItsDevice

\* What the invariant calculates with are numbers.
LEMMA SharedNumbers ==
  ASSUME SharedState
  PROVE  /\ Len(onWire) \in Nat /\ number \in Nat /\ number < Transactions
         /\ \A i \in 1 .. Len(onWire) : /\ onWire[i] \in Message
                                        /\ onWire[i].nr \in Nat /\ onWire[i].nr < Transactions
                                        /\ Age(onWire[i], number) \in Nat /\ Age(onWire[i], number) < Transactions
         /\ deviceFaults \in Nat /\ deviceFaults <= MaxDeviceFaults /\ MaxDeviceFaults < Transactions
         /\ turn \in Devs
<1>1. onWire \in Seq(Message) /\ Len(onWire) \in Nat /\ number \in Nat /\ number < Transactions
  BY SharedAssumption, LenProperties DEF SharedState, SharedTypeOK
<1>2. ASSUME NEW i \in 1 .. Len(onWire)
      PROVE  /\ onWire[i] \in Message
             /\ onWire[i].nr \in Nat /\ onWire[i].nr < Transactions
             /\ Age(onWire[i], number) \in Nat /\ Age(onWire[i], number) < Transactions
  <2>1. onWire[i] \in Message
    BY <1>1, ElementOfSeq
  <2>2. onWire[i].nr \in Nat /\ onWire[i].nr < Transactions
    BY <2>1, SharedAssumption DEF Message
  <2>3. QED
    BY <1>1, <2>1, <2>2, SharedAssumption DEF Age
<1>3. QED
  BY <1>1, <1>2, SharedAssumption DEF SharedState, SharedTypeOK

\* The next number makes every message one older.
LEMMA NextAge ==
  ASSUME SharedState, number' = (number + 1) % Transactions
  PROVE  /\ number' \in 0 .. Transactions - 1
         /\ \A m : m \in Message /\ Age(m, number) + 1 < Transactions => Age(m, number') = Age(m, number) + 1
<1>1. number \in Nat /\ number < Transactions /\ Transactions \in Nat
  BY SharedNumbers, SharedAssumption
<1>2. number' = IF number = Transactions - 1 THEN 0 ELSE number + 1
  BY <1>1
<1>3. ASSUME NEW m \in Message, Age(m, number) + 1 < Transactions
      PROVE  Age(m, number') = Age(m, number) + 1
  <2>1. m.nr \in Nat /\ m.nr < Transactions
    BY SharedAssumption DEF Message
  <2>2. Age(m, number') = IF number' >= m.nr THEN number' - m.nr ELSE number' - m.nr + Transactions
    BY DEF Age
  <2>3. QED
    BY <1>1, <1>2, <1>3, <2>1, <2>2 DEF Age
<1>4. QED
  BY <1>1, <1>2, <1>3

\* The connection before it is opened satisfies the invariant.
LEMMA SharedInitInv == SharedInit => SharedInv
<1> SUFFICES ASSUME SharedInit PROVE SharedInv
  OBVIOUS
<1>1. SharedTypeOK
  BY SharedAssumption DEF SharedInit, SharedTypeOK, Devs
<1>2. onWire = <<>> /\ Len(<<>>) = 0 /\ <<>> \in Seq(Message) /\ sharedPc = "open"
  BY DEF SharedInit
<1>3. WaitsForFaults /\ OneIsAsked
  BY <1>2 DEF WaitsForFaults, OneIsAsked
<1>4. StoredForItsDevice
  BY DEF SharedInit, StoredForItsDevice
<1>5. QED
  BY <1>1, <1>2, <1>3, <1>4 DEF SharedInv, SharedState

\* The messages that stay on the connection when the next number is given out:
\* those behind the first k, which were received, or all of them after a fault.
LEMMA PollEnds ==
  ASSUME SharedInv,
         \A m : m \in Message /\ Age(m, number) + 1 < Transactions => Age(m, number') = Age(m, number) + 1,
         NEW k \in 0 .. Len(onWire),
         onWire' \in Seq(Message),
         Len(onWire') <= Len(onWire) - k,
         \A i \in 1 .. Len(onWire') : onWire'[i] = onWire[i + k],
         deviceFaults' \in {deviceFaults, deviceFaults + 1}, deviceFaults' <= MaxDeviceFaults,
         k = 0 => deviceFaults' = deviceFaults + 1,
         sharedPc' = "judge"
  PROVE  WaitsForFaults' /\ OneIsAsked'
<1>1. /\ Len(onWire) \in Nat /\ deviceFaults \in Nat /\ MaxDeviceFaults < Transactions
      /\ MaxDeviceFaults \in Nat /\ Transactions \in Nat
      /\ Len(onWire') \in Nat
  BY SharedNumbers, SharedAssumption, LenProperties DEF SharedInv
<1>2. ASSUME NEW i \in 1 .. Len(onWire')
      PROVE  /\ i + Age(onWire'[i], number') <= deviceFaults' + 1
             /\ Age(onWire'[i], number') # 0
  <2>1. i + k \in 1 .. Len(onWire) /\ onWire'[i] = onWire[i + k]
    BY <1>1
  <2>2. /\ onWire[i + k] \in Message /\ Age(onWire[i + k], number) \in Nat
        /\ (i + k) + Age(onWire[i + k], number) <= deviceFaults + 1
    BY <2>1, SharedNumbers DEF SharedInv, WaitsForFaults
  <2>3. Age(onWire[i + k], number) + 1 < Transactions
    BY <1>1, <2>2
  <2>4. Age(onWire'[i], number') = Age(onWire[i + k], number) + 1
    BY <2>1, <2>2, <2>3
  <2>5. /\ k \in Nat /\ i \in Nat /\ deviceFaults \in Nat /\ deviceFaults' \in Nat
        /\ deviceFaults' >= deviceFaults
    BY <1>1
  <2>6. CASE k = 0
    BY <2>2, <2>4, <2>5, <2>6
  <2>7. CASE k # 0
    BY <2>2, <2>4, <2>5, <2>7
  <2>8. QED
    BY <2>6, <2>7
<1>3. QED
  BY <1>2 DEF WaitsForFaults, OneIsAsked

\* Each step keeps the types.
LEMMA SharedTypeStep == SharedInv /\ [SharedNext]_sharedVars => SharedState'
<1> SUFFICES ASSUME SharedInv, [SharedNext]_sharedVars PROVE SharedState'
  OBVIOUS
<1> USE SharedAssumption DEF SharedInv, SharedState, SharedTypeOK
<1>0. turn \in Devs /\ Devs = 1 .. DevNum /\ onWire \in Seq(Message) /\ Len(onWire) \in Nat
  BY SharedNumbers DEF Devs
<1>1. CASE mbMasterMultStartCall
  BY <1>0, <1>1 DEF mbMasterMultStartCall
<1>2. CASE SendRequest
  <2>1. asked' \in Message /\ onWire' = Append(onWire, asked')
    BY <1>0, <1>2 DEF SendRequest, Asked, Message
  <2>2. onWire' \in Seq(Message)
    BY <1>0, <2>1
  <2>3. (request[turn] + 1) % Requests \in 0 .. Requests - 1
    BY <1>0, SMTT(30)
  <2>4. request' \in [Devs -> 0 .. Requests - 1]
    BY <1>0, <1>2, <2>3 DEF SendRequest
  <2>5. QED
    BY <1>2, <2>2, <2>4 DEF SendRequest
<1>3. CASE SendBroken
  BY <1>0, <1>3, SMTT(30) DEF SendBroken
<1>4. (number + 1) % Transactions \in 0 .. Transactions - 1
  BY DEF SharedInv, SharedState
<1>5. ASSUME NEW d \in Devs, Failed(d) PROVE misses' \in [Devs -> Nat] /\ online' \subseteq Devs
  BY <1>5 DEF Failed
<1>6. CASE NoAnswer
  <2>1. /\ Failed(turn) /\ number' = (number + 1) % Transactions /\ sharedPc' = "judge"
        /\ deviceFaults < MaxDeviceFaults /\ deviceFaults' = deviceFaults + 1
        /\ silent' = [d \in Devs |-> Least(silent[d] + 1)] /\ quietLine' = Least(quietLine + 1)
        /\ UNCHANGED <<turn, request>>
    BY <1>6 DEF NoAnswer, NextNumber
  <2>2. onWire' \in Seq(Message)
    <3>1. CASE onWire' = onWire
      BY <1>0, <3>1
    <3>2. CASE onWire # <<>> /\ onWire' = SubSeq(onWire, 1, Len(onWire) - 1)
      BY <1>0, <3>2, SubSeqProperties
    <3>3. QED
      BY <1>6, <3>1, <3>2 DEF NoAnswer
  <2>3. silent' \in [Devs -> 0 .. LostAfter + 1] /\ quietLine' \in 0 .. LostAfter + 1
    BY <2>1 DEF Least
  <2>4. misses' \in [Devs -> Nat] /\ online' \subseteq Devs
    BY <1>0, <1>5, <2>1
  <2>5. QED
    BY <1>4, <2>1, <2>2, <2>3, <2>4
<1>7. CASE AnswerArrives
  <2>1. /\ number' = (number + 1) % Transactions /\ sharedPc' = "judge" /\ quietLine' = 0
        /\ UNCHANGED <<turn, request>>
    BY <1>7 DEF AnswerArrives
  <2>2. onWire' \in Seq(Message)
    <3>1. PICK received \in 1 .. Len(onWire) : onWire' = SubSeq(onWire, received + 1, Len(onWire))
      BY <1>7 DEF AnswerArrives
    <3>2. QED
      BY <1>0, <3>1, SubSeqProperties
  <2>3. /\ silent' \in [Devs -> 0 .. LostAfter + 1] /\ misses' \in [Devs -> Nat]
        /\ online' \subseteq Devs /\ deviceFaults' \in 0 .. MaxDeviceFaults
    <3>1. CASE /\ online' = online \cup {turn}
               /\ misses' = [misses EXCEPT ![turn] = 0]
               /\ silent' = [silent EXCEPT ![turn] = 0]
               /\ UNCHANGED deviceFaults
      BY <1>0, <3>1
    <3>2. CASE /\ deviceFaults < MaxDeviceFaults \/ ~Matches(Head(onWire))
               /\ deviceFaults' = IF Matches(Head(onWire)) THEN deviceFaults + 1 ELSE deviceFaults
               /\ Failed(turn)
               /\ UNCHANGED silent
      <4>1. misses' \in [Devs -> Nat] /\ online' \subseteq Devs
        BY <1>0, <1>5, <3>2
      <4>2. deviceFaults' \in 0 .. MaxDeviceFaults
        BY <3>2
      <4>3. QED
        BY <3>2, <4>1, <4>2
    <3>3. QED
      BY <1>7, <3>1, <3>2 DEF AnswerArrives
  <2>4. QED
    BY <1>4, <2>1, <2>2, <2>3
<1>8. CASE Judge
  <2>1. (turn % DevNum) + 1 \in Devs
    BY <1>0
  <2>2. QED
    BY <1>0, <1>8, <2>1 DEF Judge
<1>9. CASE mbMasterMultOfflineCall
  BY <1>0, <1>9 DEF mbMasterMultOfflineCall
<1>10. CASE UNCHANGED sharedVars
  BY <1>10 DEF sharedVars
<1>11. QED
  BY <1>1, <1>2, <1>3, <1>6, <1>7, <1>8, <1>9, <1>10 DEF SharedNext

\* Each step keeps the invariant.
LEMMA SharedStep == SharedInv /\ [SharedNext]_sharedVars => SharedInv'
<1> SUFFICES ASSUME SharedInv, [SharedNext]_sharedVars
             PROVE  WaitsForFaults' /\ OneIsAsked' /\ StoredForItsDevice'
  BY SharedTypeStep DEF SharedInv
<1> DEFINE Facts == WaitsForFaults' /\ OneIsAsked' /\ StoredForItsDevice'
<1>0. /\ Len(onWire) \in Nat /\ onWire \in Seq(Message)
      /\ deviceFaults \in Nat /\ number \in Nat
      /\ \A i \in 1 .. Len(onWire) : Age(onWire[i], number) \in Nat /\ onWire[i] \in Message
      /\ MaxDeviceFaults \in Nat
  BY SharedNumbers, SharedAssumption DEF SharedInv, SharedState
<1>1. ASSUME UNCHANGED <<onWire, number, answeredBy>>,
             deviceFaults' \in {deviceFaults, deviceFaults + 1},
             sharedPc # "wait", sharedPc' # "wait"
      PROVE  Facts
  <2>1. WaitsForFaults'
    BY <1>0, <1>1 DEF SharedInv, WaitsForFaults, Age
  <2>2. OneIsAsked'
    BY <1>0, <1>1 DEF SharedInv, OneIsAsked, Age
  <2>3. QED
    BY <1>1, <2>1, <2>2 DEF SharedInv, StoredForItsDevice
<1>2. CASE mbMasterMultStartCall
  BY <1>1, <1>2 DEF mbMasterMultStartCall
<1>3. CASE SendRequest
  <2>1. /\ sharedPc # "wait" /\ sharedPc' = "wait" /\ UNCHANGED <<number, turn, deviceFaults, answeredBy>>
        /\ asked' = Asked(turn, request[turn], number)
        /\ onWire' = Append(onWire, asked')
    BY <1>3 DEF SendRequest
  <2>2. asked'.nr = number /\ asked'.dev = turn
    BY <2>1 DEF Asked
  <2>3. asked' \in Message
    BY <2>1, SharedNumbers, SharedAssumption DEF SharedInv, SharedState, SharedTypeOK, Asked, Message
  <2>4. /\ Len(onWire') = Len(onWire) + 1
        /\ onWire'[Len(onWire) + 1] = asked'
        /\ \A i \in 1 .. Len(onWire) : onWire'[i] = onWire[i]
    BY <1>0, <2>1, <2>3, AppendProperties
  <2>5. Len(onWire) + 1 <= deviceFaults + 1
    <3>1. CASE Len(onWire) = 0
      BY <1>0, <3>1
    <3>2. CASE Len(onWire) # 0
      <4>1. Len(onWire) \in 1 .. Len(onWire)
        BY <1>0, <3>2
      <4>2. Age(onWire[Len(onWire)], number) # 0 /\ Len(onWire) + Age(onWire[Len(onWire)], number) <= deviceFaults + 1
        BY <2>1, <4>1 DEF SharedInv, OneIsAsked, WaitsForFaults
      <4>3. QED
        BY <1>0, <4>1, <4>2
    <3>3. QED
      BY <3>1, <3>2
  <2>6. Age(asked', number') = 0
    BY <1>0, <2>1, <2>2 DEF Age
  <2>7. \A i \in 1 .. Len(onWire) : Age(onWire'[i], number') = Age(onWire[i], number)
    BY <2>1, <2>4 DEF Age
  <2>8. WaitsForFaults'
    <3>1. \A i \in 1 .. Len(onWire') : i + Age(onWire'[i], number') <= deviceFaults + 1
      <4> TAKE i \in 1 .. Len(onWire')
      <4>1. CASE i = Len(onWire) + 1
        BY <1>0, <2>4, <2>5, <2>6, <4>1
      <4>2. CASE i \in 1 .. Len(onWire)
        BY <2>7, <4>2 DEF SharedInv, WaitsForFaults
      <4>3. QED
        BY <1>0, <2>4, <4>1, <4>2
    <3>2. QED
      BY <2>1, <3>1 DEF WaitsForFaults
  <2>9. OneIsAsked'
    <3>1. \A i \in 1 .. Len(onWire') : Age(onWire'[i], number') = 0 => onWire'[i] = asked'
      <4> TAKE i \in 1 .. Len(onWire')
      <4>1. CASE i = Len(onWire) + 1
        BY <2>4, <4>1
      <4>2. CASE i \in 1 .. Len(onWire)
        BY <2>1, <2>7, <4>2 DEF SharedInv, OneIsAsked
      <4>3. QED
        BY <1>0, <2>4, <4>1, <4>2
    <3>2. QED
      BY <2>1, <2>2, <3>1 DEF OneIsAsked
  <2>10. QED
    BY <2>1, <2>8, <2>9 DEF SharedInv, StoredForItsDevice
<1>4. CASE SendBroken
  BY <1>1, <1>4 DEF SendBroken
<1>5. CASE NoAnswer
  <2>1. /\ number' = (number + 1) % Transactions /\ sharedPc' = "judge"
        /\ deviceFaults' = deviceFaults + 1 /\ deviceFaults < MaxDeviceFaults
        /\ UNCHANGED answeredBy
    BY <1>5 DEF NoAnswer, NextNumber
  <2>2. /\ Len(onWire') <= Len(onWire) - 0
        /\ \A i \in 1 .. Len(onWire') : onWire'[i] = onWire[i + 0]
    <3>1. CASE onWire' = onWire
      BY <1>0, <3>1
    <3>2. CASE onWire # <<>> /\ onWire' = SubSeq(onWire, 1, Len(onWire) - 1)
      BY <1>0, <3>2, SubSeqProperties
    <3>3. QED
      BY <1>5, <3>1, <3>2 DEF NoAnswer
  <2>3. onWire' \in Seq(Message) /\ deviceFaults' <= MaxDeviceFaults /\ 0 \in 0 .. Len(onWire)
    BY <1>0, <2>1, SharedTypeStep DEF SharedState
  <2>4. WaitsForFaults' /\ OneIsAsked'
    BY <2>1, <2>2, <2>3, NextAge, PollEnds DEF SharedInv
  <2>5. QED
    BY <2>1, <2>4 DEF SharedInv, StoredForItsDevice
<1>6. CASE AnswerArrives
  <2>1. /\ number' = (number + 1) % Transactions /\ sharedPc = "wait" /\ sharedPc' = "judge"
        /\ onWire # <<>>
    BY <1>6 DEF AnswerArrives
  <2>2. PICK received \in 1 .. Len(onWire) : onWire' = SubSeq(onWire, received + 1, Len(onWire))
    BY <1>6 DEF AnswerArrives
  <2>3. /\ received \in 0 .. Len(onWire) /\ received # 0
        /\ Len(onWire') <= Len(onWire) - received
        /\ \A i \in 1 .. Len(onWire') : onWire'[i] = onWire[i + received]
    BY <1>0, <2>2, SubSeqProperties
  <2>4. /\ onWire' \in Seq(Message) /\ deviceFaults' <= MaxDeviceFaults
    BY <1>0, SharedTypeStep, SharedAssumption DEF SharedState, SharedTypeOK
  <2>5. deviceFaults' \in {deviceFaults, deviceFaults + 1}
    BY <1>6 DEF AnswerArrives
  <2>6. WaitsForFaults' /\ OneIsAsked'
    BY <2>1, <2>3, <2>4, <2>5, NextAge, PollEnds DEF SharedInv
  <2>7. Matches(Head(onWire)) => Head(onWire) = asked
    <3>1. 1 \in 1 .. Len(onWire) /\ Head(onWire) = onWire[1]
      BY <1>0, <2>1
    <3>2. Head(onWire).nr = number => Age(Head(onWire), number) = 0
      BY <1>0 DEF Age
    <3>3. QED
      BY <3>1, <3>2 DEF Matches, SharedInv, OneIsAsked
  <2>8. StoredForItsDevice'
    BY <1>6, <2>7 DEF AnswerArrives, SharedInv, StoredForItsDevice
  <2>9. QED
    BY <2>6, <2>8
<1>7. CASE Judge
  BY <1>1, <1>7 DEF Judge
<1>8. CASE mbMasterMultOfflineCall
  <2>1. onWire' = <<>> /\ sharedPc' = "open" /\ Len(<<>>) = 0 /\ UNCHANGED answeredBy
    BY <1>8 DEF mbMasterMultOfflineCall
  <2>2. QED
    BY <2>1 DEF WaitsForFaults, OneIsAsked, SharedInv, StoredForItsDevice
<1>9. CASE UNCHANGED sharedVars
  <2>1. WaitsForFaults'
    BY <1>9 DEF sharedVars, SharedInv, WaitsForFaults, Age
  <2>2. OneIsAsked'
    BY <1>9 DEF sharedVars, SharedInv, OneIsAsked, Age
  <2>3. QED
    BY <1>9, <2>1, <2>2 DEF sharedVars, SharedInv, StoredForItsDevice
<1>10. QED
  BY <1>2, <1>3, <1>4, <1>5, <1>6, <1>7, <1>8, <1>9 DEF SharedNext

\* The counters of silence, the transaction number and the turn keep their
\* ranges, whatever the devices of mb_master_multi.c do.
THEOREM SharedTypeCorrect == SharedSpec => []SharedTypeOK
<1>1. SharedInv => SharedTypeOK
  BY DEF SharedInv, SharedState
<1>2. QED
  BY <1>1, SharedInitInv, SharedStep, PTL DEF SharedSpec

\* An answer that mb_master_multi.c stores for a device is the answer to the last
\* request sent to it, as long as there are fewer faults than transaction numbers:
\* a late answer on the shared connection has an older number.
THEOREM SharedStoredForItsDevice == SharedSpec => []StoredForItsDevice
<1>1. SharedInv => StoredForItsDevice
  BY DEF SharedInv
<1>2. QED
  BY <1>1, SharedInitInv, SharedStep, PTL DEF SharedSpec

-----------------------------------------------------------------------------
(* The clients of the host computer port.                                  *)

\* The entry of the table that the receiving thread is overwriting.
Hole == IF recvPc = "move" THEN recvAt ELSE 0

\* The entries of the table that hold an open descriptor.
Held == {i \in 1 .. nClient : i # Hole}

\* Whatever the receiving thread is at: the entries but the one it overwrites
\* hold the descriptors that are open, each of them once.
TableInv ==
  /\ recvPc = "move" => recvAt \in 1 .. nClient
  /\ \A i \in Held : clients[i] \in Fds /\ peer[clients[i]] # "closed"
  /\ \A i, j \in Held : clients[i] = clients[j] => i = j
  /\ \A fd \in Fds : peer[fd] # "closed" => \E i \in Held : clients[i] = fd

\* How often a descriptor got the frame: once when the sending thread has
\* passed its entry.
Passed(fd) == \E i \in 1 .. nClient : i < sendAt /\ clients[i] = fd

\* The sending thread has sent the frame once to each entry it passed, as long
\* as no client came or went.
WalkInv ==
  /\ sendPc = "walk" => sendAt >= 1
  /\ calm /\ sendPc = "walk" =>
       /\ recvPc # "move"
       /\ sendAt <= nClient + 1
       /\ \A fd \in audience : \E i \in 1 .. nClient : clients[i] = fd
       /\ \A fd \in Fds : got[fd] = IF Passed(fd) THEN 1 ELSE 0

\* Each connection in the backlog was made.
BacklogInv == backlog <= made

\* The inductive invariant of the uplink.
UplinkInv == UplinkTypeOK /\ BacklogInv /\ TableInv /\ WalkInv /\ QuietFrameReachesAll

\* The types, one by one.
UplinkTypes ==
  /\ clients \in [1 .. MaxClients -> 0 .. MaxClients] /\ nClient \in 0 .. MaxClients
  /\ peer \in [1 .. MaxClients -> {"closed", "up", "left", "reset"}]
  /\ backlog \in Nat /\ made \in 0 .. MaxConnections
  /\ sends \in 0 .. MaxSends /\ audience \subseteq 1 .. MaxClients
  /\ got \in [1 .. MaxClients -> Nat]
  /\ recvPc \in {"wait", "accept", "move"} /\ recvAt \in 0 .. MaxClients
  /\ sendPc \in {"idle", "walk", "sent"} /\ sendAt \in 0 .. MaxClients + 1
  /\ knocked \in BOOLEAN /\ calm \in BOOLEAN /\ alive \in BOOLEAN

\* The two forms of the types say the same.
LEMMA TypesOneByOne == UplinkTypeOK /\ BacklogInv <=> UplinkTypes /\ BacklogInv
<1>1. UplinkTypeOK <=> UplinkTypes /\ backlog \in 0 .. MaxConnections
  <2>1. Index = 1 .. MaxClients /\ Fds = 1 .. MaxClients /\ Fds \cup {NoFd} = 0 .. MaxClients
    BY UplinkAssumption DEF Index, Fds, NoFd
  <2>2. {knocked, calm, alive} \subseteq BOOLEAN <=> knocked \in BOOLEAN /\ calm \in BOOLEAN /\ alive \in BOOLEAN
    OBVIOUS
  <2>3. backlog \in 0 .. MaxConnections => backlog \in Nat
    OBVIOUS
  <2>4. QED
    BY <2>1, <2>2, <2>3 DEF UplinkTypeOK, UplinkTypes
<1>2. UplinkTypes /\ BacklogInv => backlog \in 0 .. MaxConnections
  BY UplinkAssumption DEF UplinkTypes, BacklogInv
<1>3. QED
  BY <1>1, <1>2

\* The empty table satisfies the invariant.
LEMMA UplinkInitInv == UplinkInit => UplinkInv
<1> SUFFICES ASSUME UplinkInit PROVE UplinkInv
  OBVIOUS
<1> USE UplinkAssumption DEF UplinkInit
<1>1. UplinkTypeOK
  <2>1. UplinkTypes /\ BacklogInv
    <3>1. knocked \in BOOLEAN /\ calm \in BOOLEAN /\ alive \in BOOLEAN
      OBVIOUS
    <3>2. QED
      BY <3>1 DEF UplinkTypes, BacklogInv, Index, Fds, NoFd
  <2>2. QED
    BY <2>1, TypesOneByOne
<1>2. Held = {}
  BY DEF Held
<1>3. TableInv
  BY <1>2 DEF TableInv
<1>4. BacklogInv /\ WalkInv /\ QuietFrameReachesAll
  BY DEF BacklogInv, WalkInv, QuietFrameReachesAll
<1>5. QED
  BY <1>1, <1>3, <1>4 DEF UplinkInv

\* Each step keeps the types and the account of the backlog.
LEMMA UplinkTypeStep == UplinkInv /\ [UplinkNext]_uplinkVars => UplinkTypeOK' /\ BacklogInv'
<1> SUFFICES ASSUME UplinkInv, [UplinkNext]_uplinkVars PROVE UplinkTypes' /\ BacklogInv'
  BY TypesOneByOne, PTL
<1>0. UplinkTypes /\ BacklogInv /\ (recvPc = "move" => recvAt \in 1 .. nClient)
  BY TypesOneByOne DEF UplinkInv, TableInv
<1> USE <1>0, UplinkAssumption
    DEF UplinkTypes, BacklogInv, tableVars, netVars, recvVars, sendVars, uplinkVars, Index, Fds, NoFd
<1>1. CASE HostConnects
  BY <1>1 DEF HostConnects
<1>2. ASSUME NEW fd \in Fds, HostLeaves(fd) PROVE UplinkTypes' /\ BacklogInv'
  BY <1>2 DEF HostLeaves
<1>3. ASSUME NEW fd \in Fds, CloseFd(fd) PROVE UplinkTypes' /\ BacklogInv'
  <2>1. PICK j \in 1 .. nClient : recvAt' = j
    BY <1>3 DEF CloseFd
  <2>2. recvAt' \in 0 .. MaxClients
    BY <2>1
  <2>3. peer' \in [1 .. MaxClients -> {"closed", "up", "left", "reset"}]
    BY <1>3 DEF CloseFd
  <2>4. QED
    BY <1>3, <2>2, <2>3 DEF CloseFd
<1>4. CASE Knock
  BY <1>4 DEF Knock
<1>5. CASE AcceptClient
  BY <1>5 DEF AcceptClient
<1>6. CASE AcceptNoMore
  BY <1>6 DEF AcceptNoMore
<1>7. CASE MoveUp
  <2>1. /\ recvAt \in 1 .. nClient /\ calm' = FALSE /\ UNCHANGED <<peer, backlog, knocked, made>>
        /\ UNCHANGED <<sendPc, sendAt, sends, audience, got, alive>>
    BY <1>7 DEF MoveUp
  <2>2. CASE Moving(recvAt)
    <3>1. /\ clients' = [clients EXCEPT ![recvAt] = clients[recvAt + 1]]
          /\ recvAt' = recvAt + 1 /\ UNCHANGED <<nClient, recvPc>> /\ recvAt < nClient
      BY <1>7, <2>2 DEF MoveUp, Moving
    <3>2. recvAt + 1 \in 1 .. MaxClients
      BY <2>1, <3>1
    <3>3. clients' \in [1 .. MaxClients -> 0 .. MaxClients]
      BY <3>1, <3>2
    <3>4. knocked' \in BOOLEAN /\ calm' \in BOOLEAN /\ alive' \in BOOLEAN
      BY <2>1
    <3>5. QED
      BY <2>1, <3>1, <3>2, <3>3, <3>4, SMTT(30)
  <2>3. CASE ~Moving(recvAt)
    <3>1. nClient' = nClient - 1 /\ recvPc' = "wait" /\ recvAt' = 0 /\ UNCHANGED clients
      BY <1>7, <2>3 DEF MoveUp
    <3>2. knocked' \in BOOLEAN /\ calm' \in BOOLEAN /\ alive' \in BOOLEAN
      BY <2>1
    <3>3. QED
      BY <2>1, <3>1, <3>2
  <2>4. QED
    BY <2>2, <2>3
<1>8. CASE StartFrame
  BY <1>8 DEF StartFrame
<1>9. CASE drvTcpServerSend
  <2>1. /\ sendPc = "walk" /\ sendAt <= nClient
        /\ UNCHANGED <<tableVars, backlog, knocked, made, recvVars, sends, audience>>
    BY <1>9 DEF drvTcpServerSend
  <2>2. CASE SendTo(clients[sendAt])
    <3> DEFINE fd == clients[sendAt]
    <3>1. /\ peer' = [peer EXCEPT ![fd] = IF @ = "left" THEN "reset" ELSE @]
          /\ got' = [got EXCEPT ![fd] = @ + 1] /\ sendAt' = sendAt + 1
          /\ UNCHANGED <<sendPc, calm, alive>>
      BY <2>2 DEF SendTo
    <3> HIDE DEF fd
    <3>2. got' \in [1 .. MaxClients -> Nat]
      <4>1. CASE fd \in 1 .. MaxClients
        <5>1. got[fd] \in Nat /\ got[fd] + 1 \in Nat
          BY <4>1
        <5>2. QED
          BY <3>1, <4>1, <5>1
      <4>2. CASE fd \notin 1 .. MaxClients
        <5>1. got' = got
          BY <3>1, <4>2
        <5>2. QED
          BY <5>1
      <4>3. QED
        BY <4>1, <4>2
    <3>3. peer' \in [1 .. MaxClients -> {"closed", "up", "left", "reset"}]
      <4>1. CASE fd \in 1 .. MaxClients
        <5>1. peer[fd] \in {"closed", "up", "left", "reset"}
          BY <4>1
        <5>2. (IF peer[fd] = "left" THEN "reset" ELSE peer[fd]) \in {"closed", "up", "left", "reset"}
          BY <5>1
        <5>3. QED
          BY <3>1, <4>1, <5>2
      <4>2. CASE fd \notin 1 .. MaxClients
        <5>1. peer' = peer
          BY <3>1, <4>2
        <5>2. QED
          BY <5>1
      <4>3. QED
        BY <4>1, <4>2
    <3>4. QED
      BY <2>1, <3>1, <3>2, <3>3
  <2>3. CASE SendFails(clients[sendAt])
    BY <2>1, <2>3 DEF SendFails
  <2>4. CASE BrokenPipe(clients[sendAt])
    BY <2>1, <2>4 DEF BrokenPipe
  <2>5. QED
    BY <1>9, <2>2, <2>3, <2>4 DEF drvTcpServerSend
<1>10. CASE FrameSent
  BY <1>10 DEF FrameSent
<1>11. CASE NextFrame
  BY <1>11 DEF NextFrame
<1>12. CASE UNCHANGED uplinkVars
  BY <1>12
<1>13. QED
  BY <1>1, <1>2, <1>3, <1>4, <1>5, <1>6, <1>7, <1>8, <1>9, <1>10, <1>11, <1>12 DEF UplinkNext

\* The table does not notice what leaves it, the receiving thread and the
\* openness of the descriptors alone.
LEMMA TableUntouched ==
  ASSUME UplinkInv, UNCHANGED <<clients, nClient, recvAt>>,
         recvPc' = recvPc \/ (recvPc # "move" /\ recvPc' # "move"),
         \A fd \in Fds : peer'[fd] = "closed" <=> peer[fd] = "closed"
  PROVE  TableInv'
<1>1. Held' = Held
  BY DEF Held, Hole
<1>2. QED
  BY <1>1 DEF UplinkInv, TableInv

\* Nor what closes no descriptor and opens none.
LEMMA OpenUntouched ==
  ASSUME UplinkInv, UNCHANGED <<clients, nClient, recvAt, peer>>,
         recvPc' = recvPc \/ (recvPc # "move" /\ recvPc' # "move")
  PROVE  TableInv'
BY TableUntouched

\* Each step keeps the table.
LEMMA UplinkTableStep == UplinkInv /\ [UplinkNext]_uplinkVars => TableInv'
<1> SUFFICES ASSUME UplinkInv, [UplinkNext]_uplinkVars PROVE TableInv'
  OBVIOUS
<1> USE DEF tableVars, netVars, recvVars, sendVars, uplinkVars
<1>0. /\ nClient \in Nat /\ nClient <= MaxClients /\ clients \in [Index -> Fds \cup {NoFd}]
      /\ peer \in [Fds -> {"closed", "up", "left", "reset"}]
      /\ Index = 1 .. MaxClients /\ MaxClients \in Nat
  BY UplinkAssumption DEF UplinkInv, UplinkTypeOK, Index
<1>1. CASE HostConnects
  <2>1. UNCHANGED <<clients, nClient, recvAt, recvPc, peer>>
    BY <1>1 DEF HostConnects
  <2>2. QED
    BY <2>1, OpenUntouched
<1>2. ASSUME NEW fd \in Fds, HostLeaves(fd) PROVE TableInv'
  <2>1. \A g \in Fds : peer'[g] = "closed" <=> peer[g] = "closed"
    BY <1>0, <1>2 DEF HostLeaves
  <2>2. UNCHANGED <<clients, nClient, recvAt, recvPc>>
    BY <1>2 DEF HostLeaves
  <2>3. QED
    BY <2>1, <2>2, TableUntouched
<1>3. ASSUME NEW fd \in Fds, CloseFd(fd) PROVE TableInv'
  <2>1. /\ recvPc = "wait" /\ recvPc' = "move" /\ UNCHANGED <<clients, nClient>>
        /\ peer' = [peer EXCEPT ![fd] = "closed"]
    BY <1>3 DEF CloseFd
  <2>2. PICK j \in 1 .. nClient : clients[j] = fd /\ recvAt' = j
    BY <1>3 DEF CloseFd
  <2>3. Held = 1 .. nClient /\ Held' = {i \in 1 .. nClient : i # j}
    BY <1>0, <2>1, <2>2 DEF Held, Hole
  <2>4. \A i \in Held' : clients[i] # fd
    BY <2>2, <2>3 DEF UplinkInv, TableInv
  <2>5. \A g \in Fds : peer'[g] = IF g = fd THEN "closed" ELSE peer[g]
    BY <1>0, <2>1
  <2>6. \A i \in Held' : clients[i] \in Fds /\ peer'[clients[i]] # "closed"
    BY <2>3, <2>4, <2>5 DEF UplinkInv, TableInv
  <2>7. \A g \in Fds : peer'[g] # "closed" => \E i \in Held' : clients[i] = g
    BY <2>2, <2>3, <2>5 DEF UplinkInv, TableInv
  <2>8. QED
    BY <2>1, <2>2, <2>3, <2>6, <2>7 DEF UplinkInv, TableInv
<1>4. CASE Knock
  BY <1>4, TableUntouched DEF Knock
<1>5. CASE AcceptClient
  <2>1. /\ recvPc = "accept" /\ nClient < MaxClients /\ nClient' = nClient + 1 /\ UNCHANGED recvVars
    BY <1>5 DEF AcceptClient
  <2>2. PICK fd \in Fds : /\ peer[fd] = "closed"
                          /\ peer' = [peer EXCEPT ![fd] = "up"]
                          /\ clients' = [clients EXCEPT ![nClient + 1] = fd]
    BY <1>5 DEF AcceptClient
  <2>3. Held = 1 .. nClient /\ Held' = Held \cup {nClient + 1}
    BY <1>0, <2>1 DEF Held, Hole
  <2>4. /\ \A i \in Held : clients'[i] = clients[i]
        /\ clients'[nClient + 1] = fd
    BY <1>0, <2>1, <2>2, <2>3
  <2>5. \A g \in Fds : peer'[g] = IF g = fd THEN "up" ELSE peer[g]
    BY <1>0, <2>2
  <2>6. \A i \in Held : clients[i] \in Fds /\ clients[i] # fd
    BY <2>2 DEF UplinkInv, TableInv
  <2>7. \A i \in Held' : clients'[i] \in Fds /\ peer'[clients'[i]] # "closed"
    BY <2>3, <2>4, <2>5, <2>6 DEF UplinkInv, TableInv
  <2>8. \A i, k \in Held' : clients'[i] = clients'[k] => i = k
    BY <2>3, <2>4, <2>6 DEF UplinkInv, TableInv
  <2>9. \A g \in Fds : peer'[g] # "closed" => \E i \in Held' : clients'[i] = g
    BY <2>3, <2>4, <2>5, ZenonT(60) DEF UplinkInv, TableInv
  <2>10. QED
    BY <2>1, <2>7, <2>8, <2>9 DEF TableInv
<1>6. CASE AcceptNoMore
  BY <1>6, TableUntouched DEF AcceptNoMore
<1>7. CASE MoveUp
  <2>1. /\ recvPc = "move" /\ recvAt \in 1 .. nClient /\ UNCHANGED peer
        /\ Held = {i \in 1 .. nClient : i # recvAt}
    BY <1>7 DEF MoveUp, UplinkInv, TableInv, Held, Hole
  <2>2. CASE Moving(recvAt)
    <3>1. /\ clients' = [clients EXCEPT ![recvAt] = clients[recvAt + 1]]
          /\ recvAt' = recvAt + 1 /\ UNCHANGED <<nClient, recvPc>> /\ recvAt < nClient
      BY <1>7, <2>2 DEF MoveUp, Moving
    <3>2. Held' = {i \in 1 .. nClient : i # recvAt + 1}
      BY <2>1, <3>1 DEF Held, Hole
    <3>3. /\ clients'[recvAt] = clients[recvAt + 1]
          /\ \A i \in 1 .. nClient : i # recvAt => clients'[i] = clients[i]
      BY <1>0, <2>1, <3>1
    <3>4. recvAt \in Held' /\ recvAt + 1 \in Held /\ \A i \in Held' : i = recvAt \/ i \in Held
      BY <1>0, <2>1, <3>1, <3>2
    <3>5. \A i \in Held : i = recvAt + 1 \/ i \in Held'
      BY <2>1, <3>2
    <3>6. \A i \in Held' : clients'[i] \in Fds /\ peer'[clients'[i]] # "closed"
      BY <2>1, <3>2, <3>3, <3>4 DEF UplinkInv, TableInv
    <3>7. \A i, k \in Held' : clients'[i] = clients'[k] => i = k
      BY <2>1, <3>2, <3>3, <3>4 DEF UplinkInv, TableInv
    <3>8. \A g \in Fds : peer'[g] # "closed" => \E i \in Held' : clients'[i] = g
      <4> SUFFICES ASSUME NEW g \in Fds, peer'[g] # "closed" PROVE \E i \in Held' : clients'[i] = g
        OBVIOUS
      <4>1. PICK i \in Held : clients[i] = g
        BY <2>1 DEF UplinkInv, TableInv
      <4>2. CASE i = recvAt + 1
        BY <3>3, <3>4, <4>1, <4>2
      <4>3. CASE i # recvAt + 1
        BY <2>1, <3>3, <3>5, <4>1, <4>3
      <4>4. QED
        BY <4>2, <4>3
    <3>9. QED
      BY <1>0, <2>1, <3>1, <3>6, <3>7, <3>8 DEF TableInv
  <2>3. CASE ~Moving(recvAt)
    <3>1. nClient' = nClient - 1 /\ recvPc' = "wait" /\ UNCHANGED clients /\ recvAt = nClient
      BY <1>0, <1>7, <2>1, <2>3 DEF MoveUp, Moving
    <3>2. Held' = Held
      BY <1>0, <2>1, <3>1 DEF Held, Hole
    <3>3. QED
      BY <2>1, <3>1, <3>2 DEF UplinkInv, TableInv
  <2>4. QED
    BY <2>2, <2>3
<1>8. CASE StartFrame
  <2>1. UNCHANGED <<clients, nClient, recvAt, recvPc, peer>>
    BY <1>8 DEF StartFrame
  <2>2. QED
    BY <2>1, OpenUntouched
<1>9. CASE drvTcpServerSend
  <2>1. UNCHANGED <<clients, nClient, recvAt, recvPc>>
    BY <1>9 DEF drvTcpServerSend
  <2>2. \A fd \in Fds : peer'[fd] = "closed" <=> peer[fd] = "closed"
    BY <1>0, <1>9 DEF drvTcpServerSend, SendTo, SendFails, BrokenPipe
  <2>3. QED
    BY <2>1, <2>2, TableUntouched
<1>10. CASE FrameSent
  <2>1. UNCHANGED <<clients, nClient, recvAt, recvPc, peer>>
    BY <1>10 DEF FrameSent
  <2>2. QED
    BY <2>1, OpenUntouched
<1>11. CASE NextFrame
  <2>1. UNCHANGED <<clients, nClient, recvAt, recvPc, peer>>
    BY <1>11 DEF NextFrame
  <2>2. QED
    BY <2>1, OpenUntouched
<1>12. CASE UNCHANGED uplinkVars
  <2>1. UNCHANGED <<clients, nClient, recvAt, recvPc, peer>>
    BY <1>12
  <2>2. QED
    BY <2>1, OpenUntouched
<1>13. QED
  BY <1>1, <1>2, <1>3, <1>4, <1>5, <1>6, <1>7, <1>8, <1>9, <1>10, <1>11, <1>12 DEF UplinkNext

\* Nothing changes for the frame when neither the table nor the sending does.
LEMMA WalkUntouched ==
  ASSUME UplinkInv, UNCHANGED <<clients, nClient, sendPc, sendAt, audience, got>>,
         calm' = calm, recvPc' # "move" \/ recvPc' = recvPc
  PROVE  WalkInv' /\ QuietFrameReachesAll'
<1>1. \A fd : Passed(fd)' <=> Passed(fd)
  BY DEF Passed
<1>2. WalkInv'
  BY <1>1 DEF UplinkInv, WalkInv, Passed
<1>3. QED
  BY <1>2 DEF UplinkInv, QuietFrameReachesAll

\* Each step keeps the account of the frame that is being sent.
LEMMA UplinkWalkStep == UplinkInv /\ [UplinkNext]_uplinkVars => WalkInv' /\ QuietFrameReachesAll'
<1> SUFFICES ASSUME UplinkInv, [UplinkNext]_uplinkVars PROVE WalkInv' /\ QuietFrameReachesAll'
  OBVIOUS
<1> USE DEF tableVars, netVars, recvVars, sendVars, uplinkVars
<1>0. /\ nClient \in Nat /\ nClient <= MaxClients /\ clients \in [Index -> Fds \cup {NoFd}]
      /\ got \in [Fds -> Nat] /\ audience \subseteq Fds
      /\ Index = 1 .. MaxClients /\ MaxClients \in Nat /\ sendAt \in Nat
  BY UplinkAssumption DEF UplinkInv, UplinkTypeOK, Index
<1>1. ASSUME UNCHANGED <<clients, nClient, sendPc, sendAt, audience, got, calm>>,
             recvPc' # "move" \/ recvPc' = recvPc
      PROVE  WalkInv' /\ QuietFrameReachesAll'
  BY <1>1, WalkUntouched
<1>2. CASE HostConnects
  BY <1>1, <1>2 DEF HostConnects
<1>3. ASSUME NEW fd \in Fds, HostLeaves(fd) PROVE WalkInv' /\ QuietFrameReachesAll'
  BY <1>1, <1>3 DEF HostLeaves
<1>4. ASSUME NEW fd \in Fds, CloseFd(fd) PROVE WalkInv' /\ QuietFrameReachesAll'
  <2>1. ~calm' /\ UNCHANGED <<sendPc, sendAt>>
    BY <1>4 DEF CloseFd
  <2>2. QED
    BY <2>1 DEF UplinkInv, WalkInv, QuietFrameReachesAll
<1>5. CASE Knock
  BY <1>1, <1>5 DEF Knock
<1>6. CASE AcceptClient
  <2>1. /\ recvPc = "accept" /\ nClient < MaxClients /\ nClient' = nClient + 1
        /\ UNCHANGED <<recvPc, sendPc, sendAt, audience, got, calm>>
    BY <1>6 DEF AcceptClient
  <2>2. PICK fd \in Fds : clients' = [clients EXCEPT ![nClient + 1] = fd]
    BY <1>6 DEF AcceptClient
  <2>3. \A i \in 1 .. nClient : clients'[i] = clients[i] /\ i \in 1 .. nClient'
    BY <1>0, <2>1, <2>2
  <2>4. CASE calm /\ sendPc = "walk"
    <3>1. sendAt <= nClient + 1 /\ \A g \in audience : \E i \in 1 .. nClient : clients[i] = g
      BY <2>4 DEF UplinkInv, WalkInv
    <3>2. \A g : Passed(g)' <=> Passed(g)
      <4>1. \A i \in 1 .. nClient' : i < sendAt => i \in 1 .. nClient
        BY <1>0, <2>1, <3>1
      <4>2. QED
        BY <2>1, <2>3, <4>1 DEF Passed
    <3>3. \A g \in audience : \E i \in 1 .. nClient' : clients'[i] = g
      BY <2>3, <3>1
    <3>4. sendAt' <= nClient' + 1
      BY <1>0, <2>1, <3>1
    <3>5. QED
      BY <2>1, <2>4, <3>2, <3>3, <3>4 DEF UplinkInv, WalkInv, QuietFrameReachesAll
  <2>5. CASE ~(calm /\ sendPc = "walk")
    BY <2>1, <2>5 DEF UplinkInv, WalkInv, QuietFrameReachesAll
  <2>6. QED
    BY <2>4, <2>5
<1>7. CASE AcceptNoMore
  BY <1>1, <1>7 DEF AcceptNoMore
<1>8. CASE MoveUp
  <2>1. ~calm' /\ UNCHANGED <<sendPc, sendAt>>
    BY <1>8 DEF MoveUp
  <2>2. QED
    BY <2>1 DEF UplinkInv, WalkInv, QuietFrameReachesAll
<1>9. CASE StartFrame
  <2>1. /\ sendPc' = "walk" /\ sendAt' = 1 /\ audience' = {fd \in Fds : peer[fd] = "up"}
        /\ got' = [fd \in Fds |-> 0] /\ calm' = (recvPc # "move")
        /\ UNCHANGED <<clients, nClient, recvPc>>
    BY <1>9 DEF StartFrame
  <2>2. CASE recvPc # "move"
    <3>1. Held = 1 .. nClient
      BY <1>0, <2>2 DEF Held, Hole
    <3>2. \A fd \in audience' : \E i \in 1 .. nClient : clients[i] = fd
      BY <2>1, <3>1 DEF UplinkInv, TableInv
    <3>3. \A fd : ~Passed(fd)'
      BY <1>0, <2>1 DEF Passed
    <3>4. QED
      BY <1>0, <2>1, <2>2, <3>2, <3>3 DEF WalkInv, QuietFrameReachesAll
  <2>3. CASE recvPc = "move"
    <3>1. ~calm'
      BY <2>1, <2>3
    <3>2. sendAt' >= 1
      BY <2>1
    <3>3. QED
      BY <2>1, <3>1, <3>2 DEF WalkInv, QuietFrameReachesAll
  <2>4. QED
    BY <2>2, <2>3
<1>10. CASE drvTcpServerSend
  <2>1. /\ sendPc = "walk" /\ sendAt <= nClient
        /\ UNCHANGED <<clients, nClient, recvPc, audience>>
    BY <1>10 DEF drvTcpServerSend
  <2>2. CASE SendTo(clients[sendAt])
    <3>1. /\ sendAt' = sendAt + 1 /\ UNCHANGED <<sendPc, calm>>
          /\ got' = [got EXCEPT ![clients[sendAt]] = @ + 1]
      BY <2>2 DEF SendTo
    <3>2. CASE calm
      <4>1. /\ recvPc # "move" /\ sendAt >= 1
            /\ \A g \in audience : \E i \in 1 .. nClient : clients[i] = g
            /\ \A g \in Fds : got[g] = IF Passed(g) THEN 1 ELSE 0
        BY <2>1, <3>2 DEF UplinkInv, WalkInv
      <4>2. sendAt \in 1 .. nClient /\ Held = 1 .. nClient
        BY <1>0, <2>1, <4>1 DEF Held, Hole
      <4> DEFINE fd == clients[sendAt]
      <4>3. fd \in Fds /\ \A i \in 1 .. nClient : clients[i] = fd => i = sendAt
        BY <4>2 DEF UplinkInv, TableInv
      <4>4. ~Passed(fd)
        BY <1>0, <4>3 DEF Passed
      <4>5. \A g \in Fds : Passed(g)' <=> Passed(g) \/ g = fd
        <5>1. \A i \in 1 .. nClient : i < sendAt + 1 <=> i < sendAt \/ i = sendAt
          BY <1>0
        <5>2. QED
          BY <2>1, <3>1, <4>2, <4>3, <5>1 DEF Passed
      <4>6. \A g \in Fds : got'[g] = IF g = fd THEN got[g] + 1 ELSE got[g]
        BY <1>0, <3>1
      <4>7. \A g \in Fds : got'[g] = IF Passed(g)' THEN 1 ELSE 0
        BY <4>1, <4>3, <4>4, <4>5, <4>6
      <4>8. sendAt' <= nClient + 1
        BY <1>0, <2>1, <3>1
      <4>9. QED
        BY <1>0, <2>1, <3>1, <4>1, <4>7, <4>8 DEF WalkInv, QuietFrameReachesAll
    <3>3. CASE ~calm
      BY <1>0, <2>1, <3>1, <3>3 DEF UplinkInv, WalkInv, QuietFrameReachesAll
    <3>4. QED
      BY <3>2, <3>3
  <2>3. CASE SendFails(clients[sendAt])
    BY <2>3 DEF SendFails, WalkInv, QuietFrameReachesAll
  <2>4. CASE BrokenPipe(clients[sendAt])
    BY <1>1, <2>1, <2>4 DEF BrokenPipe
  <2>5. QED
    BY <1>10, <2>2, <2>3, <2>4 DEF drvTcpServerSend
<1>11. CASE FrameSent
  <2>1. /\ sendPc = "walk" /\ sendAt > nClient /\ sendPc' = "sent"
        /\ UNCHANGED <<audience, got, calm>>
    BY <1>11 DEF FrameSent
  <2>2. CASE calm
    <3>1. /\ \A g \in audience : \E i \in 1 .. nClient : clients[i] = g
          /\ \A g \in Fds : got[g] = IF Passed(g) THEN 1 ELSE 0
      BY <2>1, <2>2 DEF UplinkInv, WalkInv
    <3>2. \A g \in audience : Passed(g)
      <4>1. \A i \in 1 .. nClient : i < sendAt
        BY <1>0, <2>1
      <4>2. QED
        BY <3>1, <4>1 DEF Passed
    <3>3. QED
      BY <1>0, <2>1, <3>1, <3>2 DEF WalkInv, QuietFrameReachesAll
  <2>3. CASE ~calm
    BY <2>1, <2>3 DEF WalkInv, QuietFrameReachesAll
  <2>4. QED
    BY <2>2, <2>3
<1>12. CASE NextFrame
  BY <1>12 DEF NextFrame, WalkInv, QuietFrameReachesAll
<1>13. CASE UNCHANGED uplinkVars
  BY <1>1, <1>13
<1>14. QED
  BY <1>2, <1>3, <1>4, <1>5, <1>6, <1>7, <1>8, <1>9, <1>10, <1>11, <1>12, <1>13 DEF UplinkNext

\* Each step keeps the invariant.
LEMMA UplinkStep == UplinkInv /\ [UplinkNext]_uplinkVars => UplinkInv'
BY UplinkTypeStep, UplinkTableStep, UplinkWalkStep DEF UplinkInv

\* The table of the clients of drv_tcp_server.c never outgrows its size, and the
\* cursors of both threads stay inside it, whatever the interleaving.
THEOREM UplinkTypeCorrect == UplinkSpec => []UplinkTypeOK
<1>1. UplinkInv => UplinkTypeOK
  BY DEF UplinkInv
<1>2. QED
  BY <1>1, UplinkInitInv, UplinkStep, PTL DEF UplinkSpec

\* For every number of clients and connections: a frame during whose sending no
\* client leaves reaches every client once, although the receiving thread moves the
\* table without a lock (close_client_connection and drvTcpServerSend).
THEOREM UplinkQuietFrameReachesAll == UplinkSpec => []QuietFrameReachesAll
<1>1. UplinkInv => QuietFrameReachesAll
  BY DEF UplinkInv
<1>2. QED
  BY <1>1, UplinkInitInv, UplinkStep, PTL DEF UplinkSpec

-----------------------------------------------------------------------------
(* The signs of the web backend.                                             *)


\* Where the thread that reads the sign can be.
Places == {"start", "poll", "load", "clear", "begin", "export"}

\* The two records of the services.
Upgrades == [confirmed : Nat, begun : Nat, running : Nat]
Exports == [wait : 0 .. WaitAfterExport, tick : 0 .. Day - 1, day : {"none", "yesterday", "today"},
            flag : {0, 1, 100}, long : Nat, done : Nat, alone : BOOLEAN]

\* The types of all of the state.  A sign is left unwritten by configurations only.
SignState ==
  /\ kind \in Configs \cup {"upgrade", "export"}
  /\ sign \in {0, 1, 100}
  /\ page \in [saved : 1 .. MaxSaves, told : BOOLEAN]
  /\ reader \in [at : Places, has : 0 .. MaxSaves]
  /\ upgrades \in Upgrades
  /\ upgrades.running <= upgrades.begun
  /\ exports \in Exports
  /\ starts \in [web : Nat, all : Nat] /\ queries \in Nat
  /\ ~page.told => kind \in Configs

\* Each confirmation is one of: begun, about to be, or still in the sign.
Pending == (IF reader.at \in {"clear", "begin"} THEN 1 ELSE 0)
           + (IF sign = 1 /\ reader.at # "clear" THEN 1 ELSE 0)

\* No sign of an upgrade without a confirmation of its own.
UpgradesInv ==
  IF kind = "upgrade"
  THEN /\ sign \in {0, 1}
       /\ upgrades.begun + Pending <= upgrades.confirmed
  ELSE upgrades.begun = 0

\* The day of an export thread that nobody disturbs: before the export it
\* looks at the clock by the end of the minute at the latest, after it no
\* earlier than behind that minute.
BeforeExport(final) ==
  exports.done = 0 /\ reader.at \in {"start", "poll"} /\ exports.tick + exports.wait <= final
InExport(first) ==
  exports.done = 0 /\ reader.at = "export" /\ exports.day = "yesterday" /\ exports.flag = 0 /\ exports.tick >= first
AfterExport(first, final) ==
  exports.done = 1 /\ reader.at = "poll" /\ exports.tick >= first /\ exports.tick + exports.wait > final

\* An undisturbed day is before, in or after its export.
ExportsInv ==
  /\ kind # "export" => exports.done = 0
  /\ kind = "export" /\ exports.alone =>
       /\ sign = 0
       /\ \A first, final \in Night :
            Night = first .. final =>
              BeforeExport(final) \/ InExport(first) \/ AfterExport(first, final)

\* The inductive invariant of the signs.
SignInv == SignState /\ ChangesNoticed /\ UpgradesInv /\ ExportsInv

\* The bounds of the minute.
LEMMA NightBounds ==
  /\ Day \in Nat /\ Day > 0
  /\ \A first, final \in Night : Night = first .. final =>
       /\ first \in Nat /\ final \in Nat /\ first <= final /\ final < Day
       /\ final < first + 3 /\ final >= 2
       /\ \A t \in Nat : t \in Night <=> first <= t /\ t <= final
<1>1. PICK f, l \in Night : /\ Night = f .. l /\ Night \subseteq 0 .. Day - 1
                            /\ l - f < 3 /\ l + 1 >= 3
  BY SignAssumption DEF WaitAfterExport
<1>2. f \in Nat /\ l \in Nat /\ Day \in Nat /\ Day > 0 /\ f <= l /\ l < Day
  BY <1>1, SignAssumption
<1>3. ASSUME NEW first \in Night, NEW final \in Night, Night = first .. final
      PROVE  first = f /\ final = l
  <2>1. first \in Nat /\ final \in Nat /\ first <= final
    BY <1>1, <1>2, <1>3
  <2>2. f \in first .. final /\ l \in first .. final /\ first \in f .. l /\ final \in f .. l
    BY <1>1, <1>2, <1>3, <2>1
  <2>3. QED
    BY <1>2, <2>1, <2>2
<1>4. QED
  BY <1>1, <1>2, <1>3

\* The cleared signs satisfy the invariant.
LEMMA SignInitInv == SignInit => SignInv
<1> SUFFICES ASSUME SignInit PROVE SignInv
  OBVIOUS
<1>1. /\ kind \in Configs \cup {"upgrade", "export"} /\ sign = 0
      /\ page = [saved |-> 1, told |-> TRUE] /\ reader = [at |-> "start", has |-> 0]
      /\ sent = Limits(0) /\ upgrades = [confirmed |-> 0, begun |-> 0, running |-> 0]
      /\ exports = [wait |-> 0, tick |-> 0, day |-> "none", flag |-> 0, long |-> 0, done |-> 0, alone |-> TRUE]
      /\ starts = [web |-> 0, all |-> 0] /\ queries = 0
  BY DEF SignInit, Empty
<1>2. 0 \in 0 .. WaitAfterExport /\ 0 \in 0 .. Day - 1 /\ 1 \in 1 .. MaxSaves /\ 0 \in 0 .. MaxSaves
  BY SignAssumption DEF WaitAfterExport
<1>3. SignState
  BY <1>1, <1>2 DEF SignState, Places, Exports, Upgrades
<1>4. ChangesNoticed /\ UpgradesInv
  BY <1>1 DEF ChangesNoticed, UpgradesInv, Pending
<1>5. ExportsInv
  <2>1. \A final \in Night : final \in Nat
    BY NightBounds, SignAssumption
  <2>2. QED
    BY <1>1, <2>1 DEF ExportsInv, BeforeExport
<1>6. QED
  BY <1>3, <1>4, <1>5 DEF SignInv

\* What the steps write into the two records has their types.
LEMMA UpgradesUpdates ==
  ASSUME NEW u \in Upgrades, u.running <= u.begun
  PROVE  /\ LET v == [u EXCEPT !.confirmed = @ + 1] IN v \in Upgrades /\ v.running <= v.begun
         /\ LET v == [u EXCEPT !.begun = @ + 1, !.running = @ + 1] IN v \in Upgrades /\ v.running <= v.begun
         /\ LET v == [u EXCEPT !.running = 0] IN v \in Upgrades /\ v.running <= v.begun
         /\ u.running > 0 => LET v == [u EXCEPT !.running = @ - 1] IN v \in Upgrades /\ v.running <= v.begun
<1>1. u.confirmed \in Nat /\ u.begun \in Nat /\ u.running \in Nat
  BY DEF Upgrades
<1>2. [u EXCEPT !.confirmed = @ + 1] =
         [confirmed |-> u.confirmed + 1, begun |-> u.begun, running |-> u.running]
  BY DEF Upgrades
<1>3. [u EXCEPT !.begun = @ + 1, !.running = @ + 1] =
         [confirmed |-> u.confirmed, begun |-> u.begun + 1, running |-> u.running + 1]
  <2> SUFFICES ASSUME NEW v, v = [u EXCEPT !.begun = @ + 1, !.running = @ + 1]
               PROVE  v = [confirmed |-> u.confirmed, begun |-> u.begun + 1, running |-> u.running + 1]
    OBVIOUS
  <2>1. QED
    BY DEF Upgrades
<1>4. [u EXCEPT !.running = 0] = [confirmed |-> u.confirmed, begun |-> u.begun, running |-> 0]
  BY DEF Upgrades
<1>5. [u EXCEPT !.running = @ - 1] =
         [confirmed |-> u.confirmed, begun |-> u.begun, running |-> u.running - 1]
  BY DEF Upgrades
<1>6. QED
  BY <1>1, <1>2, <1>3, <1>4, <1>5 DEF Upgrades

\* Each step leaves a record of the export thread.
LEMMA ExportsStay ==
  ASSUME exports \in Exports, sign \in {0, 1, 100}, [SignNext]_signVars
  PROVE  exports' \in Exports
<1>1. CASE UNCHANGED exports
  BY <1>1
<1>2. CASE exports' = [exports EXCEPT !.alone = FALSE]
  BY <1>2 DEF Exports
<1>3. CASE exports' = [exports EXCEPT !.wait = 0, !.day = "none", !.alone = FALSE]
  <2>1. [exports EXCEPT !.wait = 0] \in Exports
    BY DEF Exports, WaitAfterExport
  <2>2. [exports EXCEPT !.wait = 0, !.day = "none"] \in Exports
    BY <2>1 DEF Exports
  <2>3. [exports EXCEPT !.wait = 0, !.day = "none", !.alone = FALSE] \in Exports
    BY <2>2 DEF Exports
  <2>4. QED
    BY <1>3, <2>3
<1>4. CASE exports' = [exports EXCEPT !.wait = 1]
  BY <1>4 DEF Exports, WaitAfterExport
<1>5. CASE exports' = [exports EXCEPT !.day = IF sign = 0 THEN "yesterday" ELSE "today",
                                      !.flag = sign, !.long = 0]
  <2> DEFINE day == IF sign = 0 THEN "yesterday" ELSE "today"
  <2>1. day \in {"none", "yesterday", "today"}
    OBVIOUS
  <2>2. [exports EXCEPT !.day = day] \in Exports
    BY <2>1 DEF Exports
  <2>3. [exports EXCEPT !.day = day, !.flag = sign] \in Exports
    BY <2>2 DEF Exports
  <2>4. [exports EXCEPT !.day = day, !.flag = sign, !.long = 0] \in Exports
    BY <2>3 DEF Exports
  <2>5. QED
    BY <1>5, <2>4
<1>6. CASE EndExport
  <2> DEFINE done == IF exports.day = "yesterday" THEN exports.done + 1 ELSE exports.done
  <2>1. exports' = [exports EXCEPT !.wait = WaitAfterExport, !.day = "none", !.done = done]
    BY <1>6 DEF EndExport, Exports
  <2>2. done \in Nat
    BY DEF Exports
  <2> HIDE DEF done
  <2>3. [exports EXCEPT !.wait = WaitAfterExport] \in Exports
    BY DEF Exports, WaitAfterExport
  <2>4. [exports EXCEPT !.wait = WaitAfterExport, !.day = "none"] \in Exports
    BY <2>3 DEF Exports
  <2>5. [exports EXCEPT !.wait = WaitAfterExport, !.day = "none", !.done = done] \in Exports
    BY <2>2, <2>4 DEF Exports
  <2>6. QED
    BY <2>1, <2>5
<1>7. CASE PassTime
  <2> DEFINE tick == (exports.tick + 1) % Day
             wait == IF exports.wait > 0 THEN exports.wait - 1 ELSE 0
             long == IF reader.at = "export" THEN exports.long + 1 ELSE 0
             done == IF exports.tick = Day - 1 THEN 0 ELSE exports.done
             alone == IF exports.tick = Day - 1 THEN sign = 0 /\ reader.at # "export" ELSE exports.alone
  <2>1. exports' = [exports EXCEPT !.tick = tick, !.wait = wait, !.long = long, !.done = done, !.alone = alone]
    BY <1>7 DEF PassTime, Exports
  <2>2. /\ exports.tick \in 0 .. Day - 1 /\ exports.wait \in 0 .. WaitAfterExport
        /\ exports.long \in Nat /\ exports.done \in Nat
    BY DEF Exports
  <2>3. exports.alone \in BOOLEAN
    BY DEF Exports
  <2>4. tick \in 0 .. Day - 1
    BY <2>2, SignAssumption, SMTT(30)
  <2>5. wait \in 0 .. WaitAfterExport /\ long \in Nat /\ done \in Nat
    BY <2>2 DEF WaitAfterExport
  <2>6. alone \in BOOLEAN
    BY <2>3
  <2> HIDE DEF tick, wait, long, done, alone
  <2>7. [exports EXCEPT !.tick = tick] \in Exports
    BY <2>4 DEF Exports
  <2>8. [exports EXCEPT !.tick = tick, !.wait = wait] \in Exports
    BY <2>5, <2>7 DEF Exports
  <2>9. [exports EXCEPT !.tick = tick, !.wait = wait, !.long = long] \in Exports
    BY <2>5, <2>8 DEF Exports
  <2>10. [exports EXCEPT !.tick = tick, !.wait = wait, !.long = long, !.done = done] \in Exports
    BY <2>5, <2>9 DEF Exports
  <2>11. [exports EXCEPT !.tick = tick, !.wait = wait, !.long = long, !.done = done, !.alone = alone] \in Exports
    BY <2>6, <2>10 DEF Exports
  <2>12. QED
    BY <2>1, <2>11
<1>8. SeeExport => \/ exports' = [exports EXCEPT !.wait = 1]
                   \/ exports' = [exports EXCEPT !.day = IF sign = 0 THEN "yesterday" ELSE "today",
                                                 !.flag = sign, !.long = 0]
  BY DEF SeeExport, readWebSignShm
<1>9. initWebSignShm => \/ exports' = [exports EXCEPT !.wait = 0, !.day = "none", !.alone = FALSE]
                        \/ UNCHANGED exports
  BY DEF initWebSignShm
<1>10. QED
  BY <1>1, <1>2, <1>3, <1>4, <1>5, <1>6, <1>7, <1>8, <1>9 DEF SignNext, signVars, SaveConfig, TellConfig,
    ConfirmUpgrade, AskExport, LoadConfig, SeeConfig, SeeControl, readBmsCtrlFromDb, ClearControl,
    StartTimer, SeeUpgrade, ClearUpgrade, BeginUpgrade, app_scu_soft_update, StartExports

\* Each step keeps the types.
LEMMA SignTypeStep == SignState /\ [SignNext]_signVars => SignState'
<1> SUFFICES ASSUME SignState, [SignNext]_signVars PROVE SignState'
  OBVIOUS
<1>0. /\ 0 \in 0 .. MaxSaves /\ Day \in Nat /\ Day > 0
      /\ \A v \in 1 .. MaxSaves : v \in 0 .. MaxSaves
  BY SignAssumption
<1> USE <1>0, SignAssumption DEF SignState, Places, writeWebSignShm, Empty
<1>a. exports' \in Exports
  BY ExportsStay
<1>1. CASE SaveConfig
  BY <1>1 DEF SaveConfig
<1>2. CASE TellConfig
  BY <1>2 DEF TellConfig
<1>3. CASE ConfirmUpgrade
  <2>1. upgrades' = [upgrades EXCEPT !.confirmed = @ + 1]
    BY <1>3 DEF ConfirmUpgrade
  <2>2. upgrades' \in Upgrades /\ upgrades'.running <= upgrades'.begun
    BY <2>1, UpgradesUpdates
  <2>3. QED
    BY <1>3, <2>2 DEF ConfirmUpgrade
<1>4. CASE AskExport
  <2>0. page.saved \in 1 .. MaxSaves /\ page.saved < MaxSaves /\ page' = [page EXCEPT !.saved = @ + 1]
    BY <1>4 DEF AskExport
  <2>1. page' \in [saved : 1 .. MaxSaves, told : BOOLEAN] /\ page'.told = page.told
    <3>1. page.saved + 1 \in 1 .. MaxSaves
      BY <2>0
    <3>2. QED
      BY <2>0, <3>1
  <2>2. QED
    BY <1>4, <1>a, <2>1 DEF AskExport
<1>5. CASE initWebSignShm
  <2>1. /\ sign' = 0 /\ UNCHANGED <<kind, page, queries>>
    BY <1>5 DEF initWebSignShm
  <2>2. CASE /\ reader' = [at |-> "start", has |-> 0]
             /\ upgrades' = [upgrades EXCEPT !.running = 0]
             /\ exports' = [exports EXCEPT !.wait = 0, !.day = "none", !.alone = FALSE]
             /\ starts' = [starts EXCEPT !.all = @ + 1]
    <3>1. upgrades' \in Upgrades /\ upgrades'.running <= upgrades'.begun
      BY <2>2, UpgradesUpdates
    <3>2. exports' \in Exports
      BY <1>a
    <3>3. starts' \in [web : Nat, all : Nat]
      <4>1. starts' = [starts EXCEPT !.all = @ + 1]
        BY <2>2
      <4>2. QED
        BY <4>1, SMTT(30)
    <3>4. reader' \in [at : Places, has : 0 .. MaxSaves]
      BY <2>2
    <3>5. QED
      BY <2>1, <3>1, <3>2, <3>3, <3>4
  <2>3. CASE /\ starts' = [web |-> starts.web + 1, all |-> starts.all + 1]
             /\ UNCHANGED <<reader, upgrades, exports>>
    BY <2>1, <2>3
  <2>4. QED
    BY <1>5, <2>2, <2>3 DEF initWebSignShm
<1>6. CASE LoadConfig
  <2>1. Load(page.saved) \/ Load(0)
    BY <1>6 DEF LoadConfig, kit_db_get_di_config, kit_db_get_do_config
  <2>2. queries' \in Nat
    BY <1>6 DEF LoadConfig, kit_db_get_di_config, kit_db_get_do_config, QueryFails
  <2>3. reader' \in [at : Places, has : 0 .. MaxSaves]
    BY <2>1 DEF Load
  <2>4. QED
    BY <1>6, <2>2, <2>3 DEF LoadConfig
<1>7. CASE SeeConfig
  BY <1>7 DEF SeeConfig
<1>8. CASE SeeControl
  BY <1>8 DEF SeeControl
<1>9. CASE readBmsCtrlFromDb
  <2>1. queries' \in Nat
    BY <1>9 DEF readBmsCtrlFromDb, kit_get_bms_config_sys, kit_get_bms_config_ctrl, QueryFails
  <2>2. PICK ret \in 0 .. 1 :
          reader' = [at  |-> IF reader.at = "start" THEN "poll" ELSE "clear",
                     has |-> IF ret = 0 THEN page.saved ELSE reader.has]
    BY <1>9 DEF readBmsCtrlFromDb
  <2>3. reader' \in [at : Places, has : 0 .. MaxSaves]
    BY <2>2
  <2>4. QED
    BY <1>9, <2>1, <2>3 DEF readBmsCtrlFromDb
<1>10. CASE ClearControl
  BY <1>10 DEF ClearControl
<1>11. CASE StartTimer
  BY <1>11 DEF StartTimer
<1>12. CASE SeeUpgrade
  BY <1>12 DEF SeeUpgrade
<1>13. CASE ClearUpgrade
  BY <1>13 DEF ClearUpgrade
<1>14. CASE BeginUpgrade
  <2>1. upgrades' \in Upgrades /\ upgrades'.running <= upgrades'.begun
    <3>1. CASE upgrades' = [upgrades EXCEPT !.begun = @ + 1, !.running = @ + 1]
      BY <3>1, UpgradesUpdates
    <3>2. CASE upgrades' = upgrades
      BY <3>2
    <3>3. QED
      BY <1>14, <3>1, <3>2 DEF BeginUpgrade
  <2>2. QED
    BY <1>14, <2>1 DEF BeginUpgrade
<1>15. CASE app_scu_soft_update
  <2>1. upgrades' = [upgrades EXCEPT !.running = @ - 1] /\ upgrades.running > 0
    BY <1>15 DEF app_scu_soft_update
  <2>2. upgrades' \in Upgrades /\ upgrades'.running <= upgrades'.begun
    BY <2>1, UpgradesUpdates
  <2>3. QED
    BY <1>15, <2>2 DEF app_scu_soft_update
<1>16. CASE StartExports
  BY <1>16 DEF StartExports
<1>17. CASE SeeExport
  <2>1. /\ reader' \in [at : Places, has : 0 .. MaxSaves]
        /\ UNCHANGED <<kind, sign, page, sent, upgrades, starts, queries>>
    BY <1>17 DEF SeeExport
  <2>2. QED
    BY <1>a, <2>1
<1>18. CASE EndExport
  BY <1>18, <1>a DEF EndExport
<1>19. CASE PassTime
  BY <1>19, <1>a DEF PassTime
<1>20. CASE UNCHANGED signVars
  BY <1>20 DEF signVars
<1>21. QED
  BY <1>1, <1>2, <1>3, <1>4, <1>5, <1>6, <1>7, <1>8, <1>9, <1>10, <1>11, <1>12,
     <1>13, <1>14, <1>15, <1>16, <1>17, <1>18, <1>19, <1>20 DEF SignNext

\* No step makes the thread of a configuration forget a change.
LEMMA ConfigStep == SignState /\ ChangesNoticed /\ [SignNext]_signVars => ChangesNoticed'
<1> SUFFICES ASSUME SignState, ChangesNoticed, [SignNext]_signVars PROVE ChangesNoticed'
  OBVIOUS
<1> USE DEF SignState, ChangesNoticed, writeWebSignShm, readWebSignShm, Configs, Empty
<1>1. CASE SaveConfig
  BY <1>1 DEF SaveConfig
<1>2. CASE TellConfig
  BY <1>2 DEF TellConfig
<1>3. CASE ConfirmUpgrade
  BY <1>3 DEF ConfirmUpgrade
<1>4. CASE AskExport
  BY <1>4 DEF AskExport
<1>5. CASE initWebSignShm
  BY <1>5 DEF initWebSignShm
<1>6. CASE LoadConfig
  <2>1. /\ kind' = kind /\ kind \in {"di", "do"} /\ queries \in Nat
        /\ page' = page
        /\ reader'.has = page.saved \/ queries' # 0
    BY <1>6 DEF LoadConfig, kit_db_get_di_config, kit_db_get_do_config, Load, QueryFails
  <2>2. QED
    BY <2>1
<1>7. CASE SeeConfig
  BY <1>7 DEF SeeConfig
<1>8. CASE SeeControl
  BY <1>8 DEF SeeControl
<1>9. CASE readBmsCtrlFromDb
  BY <1>9 DEF readBmsCtrlFromDb
<1>10. CASE ClearControl
  BY <1>10 DEF ClearControl
<1>11. CASE StartTimer
  BY <1>11 DEF StartTimer
<1>12. CASE SeeUpgrade
  BY <1>12 DEF SeeUpgrade
<1>13. CASE ClearUpgrade
  BY <1>13 DEF ClearUpgrade
<1>14. CASE BeginUpgrade
  BY <1>14 DEF BeginUpgrade
<1>15. CASE app_scu_soft_update
  BY <1>15 DEF app_scu_soft_update
<1>16. CASE StartExports
  BY <1>16 DEF StartExports
<1>17. CASE SeeExport
  BY <1>17 DEF SeeExport
<1>18. CASE EndExport
  BY <1>18 DEF EndExport
<1>19. CASE PassTime
  BY <1>19 DEF PassTime
<1>20. CASE UNCHANGED signVars
  BY <1>20 DEF signVars
<1>21. QED
  BY <1>1, <1>2, <1>3, <1>4, <1>5, <1>6, <1>7, <1>8, <1>9, <1>10, <1>11, <1>12,
     <1>13, <1>14, <1>15, <1>16, <1>17, <1>18, <1>19, <1>20 DEF SignNext

\* No step begins an upgrade that was not confirmed.
LEMMA UpgradeStep == SignState /\ UpgradesInv /\ [SignNext]_signVars => UpgradesInv'
<1> SUFFICES ASSUME SignState, UpgradesInv, [SignNext]_signVars PROVE UpgradesInv'
  OBVIOUS
<1> USE DEF SignState, Upgrades, UpgradesInv, Pending, writeWebSignShm, readWebSignShm, Configs
<1>1. CASE SaveConfig
  BY <1>1 DEF SaveConfig
<1>2. CASE TellConfig
  <2>1. kind' = kind /\ upgrades' = upgrades /\ kind # "upgrade"
    BY <1>2 DEF TellConfig
  <2>2. QED
    BY <2>1
<1>3. CASE ConfirmUpgrade
  BY <1>3 DEF ConfirmUpgrade
<1>4. CASE AskExport
  BY <1>4 DEF AskExport
<1>5. CASE initWebSignShm
  BY <1>5 DEF initWebSignShm
<1>6. CASE LoadConfig
  BY <1>6 DEF LoadConfig
<1>7. CASE SeeConfig
  BY <1>7 DEF SeeConfig
<1>8. CASE SeeControl
  BY <1>8 DEF SeeControl
<1>9. CASE readBmsCtrlFromDb
  BY <1>9 DEF readBmsCtrlFromDb
<1>10. CASE ClearControl
  BY <1>10 DEF ClearControl
<1>11. CASE StartTimer
  BY <1>11 DEF StartTimer
<1>12. CASE SeeUpgrade
  BY <1>12 DEF SeeUpgrade
<1>13. CASE ClearUpgrade
  BY <1>13 DEF ClearUpgrade
<1>14. CASE BeginUpgrade
  <2>1. /\ kind' = kind /\ kind = "upgrade" /\ sign' = sign /\ reader.at = "begin" /\ reader'.at = "poll"
    BY <1>14 DEF BeginUpgrade
  <2>2. /\ upgrades.confirmed \in Nat /\ upgrades.begun \in Nat
        /\ upgrades'.confirmed = upgrades.confirmed
        /\ upgrades'.begun \in {upgrades.begun, upgrades.begun + 1}
    <3>1. CASE upgrades' = upgrades
      BY <3>1
    <3>2. CASE upgrades' = [upgrades EXCEPT !.begun = @ + 1, !.running = @ + 1]
      BY <3>2
    <3>3. QED
      BY <1>14, <3>1, <3>2 DEF BeginUpgrade
  <2>3. QED
    BY <2>1, <2>2
<1>15. CASE app_scu_soft_update
  BY <1>15 DEF app_scu_soft_update
<1>16. CASE StartExports
  BY <1>16 DEF StartExports
<1>17. CASE SeeExport
  BY <1>17 DEF SeeExport
<1>18. CASE EndExport
  BY <1>18 DEF EndExport
<1>19. CASE PassTime
  BY <1>19 DEF PassTime
<1>20. CASE UNCHANGED signVars
  BY <1>20 DEF signVars
<1>21. QED
  BY <1>1, <1>2, <1>3, <1>4, <1>5, <1>6, <1>7, <1>8, <1>9, <1>10, <1>11, <1>12,
     <1>13, <1>14, <1>15, <1>16, <1>17, <1>18, <1>19, <1>20 DEF SignNext

\* The export thread keeps to its day.
LEMMA ExportStep == SignState /\ ExportsInv /\ [SignNext]_signVars => ExportsInv'
<1> SUFFICES ASSUME SignState, ExportsInv, [SignNext]_signVars PROVE ExportsInv'
  OBVIOUS
<1>0. /\ exports.tick \in Nat /\ exports.tick < Day /\ exports.wait \in Nat /\ exports.wait <= 3
      /\ exports.done \in Nat /\ Day \in Nat /\ Day > 0
  BY SignAssumption DEF SignState, Exports, WaitAfterExport
<1> USE DEF SignState, Exports, ExportsInv, BeforeExport, InExport, AfterExport, writeWebSignShm, readWebSignShm, Configs
<1>1. CASE SaveConfig
  BY <1>1 DEF SaveConfig
<1>2. CASE TellConfig
  BY <1>2 DEF TellConfig
<1>3. CASE ConfirmUpgrade
  BY <1>3 DEF ConfirmUpgrade
<1>4. CASE AskExport
  BY <1>4 DEF AskExport
<1>5. CASE initWebSignShm
  <2>1. sign' = 0 /\ kind' = kind
    BY <1>5 DEF initWebSignShm
  <2>2. CASE exports' = [exports EXCEPT !.wait = 0, !.day = "none", !.alone = FALSE]
    <3>1. exports'.done = exports.done /\ ~exports'.alone
      BY <2>2
    <3>2. QED
      BY <2>1, <3>1
  <2>3. CASE UNCHANGED <<exports, reader>>
    BY <2>1, <2>3
  <2>4. QED
    BY <1>5, <2>2, <2>3 DEF initWebSignShm
<1>6. CASE LoadConfig
  BY <1>6 DEF LoadConfig
<1>7. CASE SeeConfig
  BY <1>7 DEF SeeConfig
<1>8. CASE SeeControl
  BY <1>8 DEF SeeControl
<1>9. CASE readBmsCtrlFromDb
  BY <1>9 DEF readBmsCtrlFromDb
<1>10. CASE ClearControl
  BY <1>10 DEF ClearControl
<1>11. CASE StartTimer
  BY <1>11 DEF StartTimer
<1>12. CASE SeeUpgrade
  BY <1>12 DEF SeeUpgrade
<1>13. CASE ClearUpgrade
  BY <1>13 DEF ClearUpgrade
<1>14. CASE BeginUpgrade
  BY <1>14 DEF BeginUpgrade
<1>15. CASE app_scu_soft_update
  BY <1>15 DEF app_scu_soft_update
<1>16. CASE StartExports
  BY <1>16 DEF StartExports
<1>17. CASE SeeExport
  <2>1. /\ kind = "export" /\ kind' = kind /\ sign' = sign /\ reader.at = "poll" /\ exports.wait = 0
    BY <1>17 DEF SeeExport
  <2>2. exports'.alone = exports.alone /\ exports'.done = exports.done /\ exports'.tick = exports.tick
    <3>1. CASE exports' = [exports EXCEPT !.wait = 1]
      BY <3>1
    <3>2. CASE exports' = [exports EXCEPT !.day = IF sign = 0 THEN "yesterday" ELSE "today",
                                          !.flag = sign, !.long = 0]
      BY <3>2
    <3>3. QED
      BY <1>17, <3>1, <3>2 DEF SeeExport
  <2>3. CASE exports.alone
    <3>1. sign = 0
      BY <2>1, <2>3
    <3>2. ASSUME NEW first \in Night, NEW final \in Night, Night = first .. final
          PROVE  BeforeExport(final)' \/ InExport(first)' \/ AfterExport(first, final)'
      <4>1. /\ first \in Nat /\ final \in Nat /\ first <= final
            /\ exports.tick \in Night <=> first <= exports.tick /\ exports.tick <= final
        BY <1>0, <3>2, NightBounds
      <4>2. BeforeExport(final) \/ AfterExport(first, final)
        BY <2>1, <2>3, <3>2
      <4>3. CASE exports.tick \in Night
        <5>1. /\ reader'.at = "export" /\ exports'.day = "yesterday" /\ exports'.flag = 0
          <6>1. exports' = [exports EXCEPT !.day = "yesterday", !.flag = 0, !.long = 0]
            BY <1>17, <3>1, <4>3 DEF SeeExport
          <6>2. reader' = [reader EXCEPT !.at = "export"]
            BY <1>17, <4>3 DEF SeeExport
          <6>3. QED
            BY <6>1, <6>2
        <5>2. exports.done = 0
          BY <1>0, <2>1, <4>1, <4>2, <4>3
        <5>3. InExport(first)'
          BY <2>2, <4>1, <4>3, <5>1, <5>2
        <5>4. QED
          BY <5>3
      <4>4. CASE exports.tick \notin Night
        <5>1. exports'.wait = 1 /\ reader' = reader
          BY <1>17, <3>1, <4>4 DEF SeeExport
        <5>2. CASE BeforeExport(final)
          BY <1>0, <2>1, <2>2, <4>1, <4>4, <5>1, <5>2
        <5>3. CASE AfterExport(first, final)
          BY <1>0, <2>1, <2>2, <4>1, <5>1, <5>3
        <5>4. QED
          BY <4>2, <5>2, <5>3
      <4>5. QED
        BY <4>3, <4>4
    <3>3. QED
      BY <2>1, <3>1, <3>2
  <2>4. CASE ~exports.alone
    BY <2>1, <2>2, <2>4
  <2>5. QED
    BY <2>3, <2>4
<1>18. CASE EndExport
  <2>1. /\ kind = "export" /\ kind' = kind /\ reader.at = "export" /\ reader'.at = "poll"
        /\ exports.flag = 1 \/ sign' = sign
    BY <1>18 DEF EndExport
  <2>2. /\ exports'.alone = exports.alone /\ exports'.tick = exports.tick /\ exports'.wait = 3
        /\ exports.day = "yesterday" => exports'.done = exports.done + 1
    BY <1>18 DEF EndExport, WaitAfterExport
  <2>3. CASE exports.alone
    <3>1. PICK f, l \in Night : Night = f .. l
      BY SignAssumption
    <3>2. sign' = 0
      BY <2>1, <2>3, <3>1
    <3>3. ASSUME NEW first \in Night, NEW final \in Night, Night = first .. final
          PROVE  AfterExport(first, final)'
      <4>1. /\ first \in Nat /\ final \in Nat /\ final < first + 3
        BY <3>3, NightBounds
      <4>2. InExport(first)
        BY <2>1, <2>3, <3>3
      <4>3. QED
        BY <1>0, <2>1, <2>2, <4>1, <4>2, SMTT(30)
    <3>4. QED
      BY <2>1, <3>2, <3>3
  <2>4. CASE ~exports.alone
    BY <2>1, <2>2, <2>4
  <2>5. QED
    BY <2>3, <2>4
<1>19. CASE PassTime
  <2>1. /\ kind = "export" /\ kind' = kind /\ sign' = sign /\ reader' = reader
        /\ (reader.at = "poll" /\ exports.wait > 0) \/ reader.at = "export"
    BY <1>19 DEF PassTime
  <2>2. /\ exports'.tick = (exports.tick + 1) % Day
        /\ exports'.wait = IF exports.wait > 0 THEN exports.wait - 1 ELSE 0
        /\ exports'.day = exports.day /\ exports'.flag = exports.flag
    BY <1>19 DEF PassTime
  <2>3. exports'.done = IF exports.tick = Day - 1 THEN 0 ELSE exports.done
    BY <1>19 DEF PassTime
  <2>4. exports'.alone = IF exports.tick = Day - 1 THEN sign = 0 /\ reader.at # "export" ELSE exports.alone
    BY <1>19 DEF PassTime
  <2>5. exports'.tick = IF exports.tick = Day - 1 THEN 0 ELSE exports.tick + 1
    <3>1. \A t \in 0 .. Day - 1 : (t + 1) % Day = IF t = Day - 1 THEN 0 ELSE t + 1
      BY <1>0, SMTT(30)
    <3>2. QED
      BY <1>0, <2>2, <3>1
  <2>6. CASE exports.tick = Day - 1
    <3>1. ASSUME NEW first \in Night, NEW final \in Night, Night = first .. final, exports'.alone
          PROVE  sign' = 0 /\ BeforeExport(final)'
      <4>1. final \in Nat /\ final >= 2
        BY <3>1, NightBounds
      <4>2. sign = 0 /\ reader.at = "poll"
        BY <2>1, <2>4, <2>6, <3>1
      <4>3. QED
        BY <1>0, <2>1, <2>2, <2>3, <2>5, <2>6, <4>1, <4>2
    <3>2. PICK f, l \in Night : Night = f .. l
      BY SignAssumption
    <3>3. QED
      BY <2>1, <3>1, <3>2
  <2>7. CASE exports.tick # Day - 1
    <3>1. exports'.alone = exports.alone /\ exports'.done = exports.done /\ exports'.tick = exports.tick + 1
      BY <2>3, <2>4, <2>5, <2>7
    <3>2. CASE exports.alone
      <4>1. ASSUME NEW first \in Night, NEW final \in Night, Night = first .. final
            PROVE  BeforeExport(final)' \/ InExport(first)' \/ AfterExport(first, final)'
        <5>1. first \in Nat /\ final \in Nat
          BY <4>1, NightBounds
        <5>2. BeforeExport(final) \/ InExport(first) \/ AfterExport(first, final)
          BY <2>1, <3>2, <4>1
        <5>3. CASE BeforeExport(final)
          <6>1. /\ exports.done = 0 /\ reader.at \in {"start", "poll"} /\ exports.wait > 0
                /\ exports.tick + exports.wait <= final
            BY <2>1, <5>3
          <6>2. exports.tick \in Nat /\ exports.wait \in Nat
            BY <1>0
          <6>3. exports'.tick = exports.tick + 1 /\ exports'.wait = exports.wait - 1
            BY <2>2, <3>1, <6>1
          <6>4. exports'.done = 0 /\ reader'.at \in {"start", "poll"}
            BY <2>1, <3>1, <6>1
          <6>5. exports'.tick + exports'.wait <= final
            BY <5>1, <6>1, <6>2, <6>3
          <6>6. QED
            BY <6>4, <6>5
        <5>4. CASE InExport(first)
          BY <1>0, <2>1, <2>2, <3>1, <5>1, <5>4
        <5>5. CASE AfterExport(first, final)
          <6>1. /\ exports.done = 1 /\ reader.at = "poll" /\ exports.wait > 0
                /\ exports.tick >= first /\ exports.tick + exports.wait > final
            BY <2>1, <5>5
          <6>2. exports.tick \in Nat /\ exports.wait \in Nat
            BY <1>0
          <6>3. exports'.tick = exports.tick + 1 /\ exports'.wait = exports.wait - 1
            BY <2>2, <3>1, <6>1
          <6>4. exports'.done = 1 /\ reader'.at = "poll"
            BY <2>1, <3>1, <6>1
          <6>5. exports'.tick >= first /\ exports'.tick + exports'.wait > final
            BY <5>1, <6>1, <6>2, <6>3
          <6>6. QED
            BY <6>4, <6>5
        <5>6. QED
          BY <5>2, <5>3, <5>4, <5>5
      <4>2. QED
        BY <2>1, <3>1, <3>2, <4>1
    <3>3. CASE ~exports.alone
      BY <2>1, <3>1, <3>3
    <3>4. QED
      BY <3>2, <3>3
  <2>8. QED
    BY <2>6, <2>7
<1>20. CASE UNCHANGED signVars
  BY <1>20 DEF signVars
<1>21. QED
  BY <1>1, <1>2, <1>3, <1>4, <1>5, <1>6, <1>7, <1>8, <1>9, <1>10, <1>11, <1>12,
     <1>13, <1>14, <1>15, <1>16, <1>17, <1>18, <1>19, <1>20 DEF SignNext

\* Each step keeps the invariant.
LEMMA SignStep == SignInv /\ [SignNext]_signVars => SignInv'
BY SignTypeStep, ConfigStep, UpgradeStep, ExportStep DEF SignInv

\* The signs hold 0, 1 or 100 only, and the threads that read them are at one of
\* their places (bsp_shm.c and its readers).
THEOREM SignTypeCorrect == SignSpec => []SignTypeOK
<1>1. SignInv => SignTypeOK
  BY DEF SignInv, SignState, SignTypeOK, Places, Exports
<1>2. QED
  BY <1>1, SignInitInv, SignStep, PTL DEF SignSpec

\* For every number of changes, failures and starts: a saved configuration that
\* is not loaded yet is announced or about to be, and the limits in the RBMS
\* devices are those of the configuration in use (logic_di.c, logic_do.c,
\* app_bms_ctrl.c).
THEOREM SignChangesNoticed == SignSpec => []ChangesNoticed
<1>1. SignInv => ChangesNoticed
  BY DEF SignInv
<1>2. QED
  BY <1>1, SignInitInv, SignStep, PTL DEF SignSpec

\* For every number of requests: no confirmation begins two upgrades (app_timer.c),
\* and an undisturbed day is exported once (app_data_storage.c).
THEOREM SignRequestsServedOnce == SignSpec => []RequestsServedOnce
<1>1. SignInv => UpgradeOncePerRequest
  BY DEF SignInv, SignState, Upgrades, UpgradesInv, Pending, UpgradeOncePerRequest
<1>2. SignInv => NightExportedOnce
  <2> SUFFICES ASSUME SignInv, exports.alone, exports.day # "yesterday", \A t \in Night : t < exports.tick,
                      kind = "export"
               PROVE  exports.done = 1
    BY DEF NightExportedOnce, SignInv, ExportsInv
  <2>1. PICK first, final \in Night : Night = first .. final
    BY SignAssumption
  <2>2. BeforeExport(final) \/ AfterExport(first, final)
    BY <2>1 DEF SignInv, ExportsInv, InExport
  <2>3. final \in Nat /\ final < exports.tick
    BY <2>1, NightBounds
  <2>4. exports.tick \in Nat /\ exports.wait \in Nat
    BY SignAssumption DEF SignInv, SignState, Exports, WaitAfterExport
  <2>5. ~BeforeExport(final)
    BY <2>3, <2>4 DEF BeforeExport
  <2>6. QED
    BY <2>2, <2>5 DEF AfterExport
<1>3. QED
  BY <1>1, <1>2, SignInitInv, SignStep, PTL DEF SignSpec, RequestsServedOnce

-----------------------------------------------------------------------------
(* The services together.                                                    *)

\* Each service, seen alone, behaves as its own specification says: a step of
\* another leaves its state as it is.
LEMMA EachServiceKept ==
  Spec => StoreSpec /\ SignSpec /\ BankSpec /\ CtrlSpec /\ TmsSpec /\ UplinkSpec /\ SharedSpec
<1>1. Init => StoreInit /\ SignInit /\ BankInit /\ CtrlInit /\ TmsInit /\ UplinkInit /\ SharedInit
  BY DEF Init
<1>2. [Next]_<<part, storeVars, signVars, bankVars, ctrlVars, tmsVars, uplinkVars, sharedVars>> =>
        /\ [StoreNext]_storeVars /\ [SignNext]_signVars /\ [BankNext]_bankVars /\ [CtrlNext]_ctrlVars
        /\ [TmsNext]_tmsVars /\ [UplinkNext]_uplinkVars /\ [SharedNext]_sharedVars
  BY DEF Next
<1>3. QED
  BY <1>1, <1>2, PTL DEF Spec, StoreSpec, SignSpec, BankSpec, CtrlSpec, TmsSpec, UplinkSpec, SharedSpec

\* The states of all services keep their types, the bounds of counters, queues and
\* positions included, whichever service runs.
THEOREM ServicesTypeCorrect == Spec => []ServicesTypeOK
<1>1. /\ StoreTypeOK /\ SignTypeOK /\ BankTypeOK /\ CtrlTypeOK /\ TmsTypeOK /\ UplinkTypeOK /\ SharedTypeOK
      => ServicesTypeOK
  BY DEF ServicesTypeOK
<1>2. QED
  BY <1>1, EachServiceKept, StoreTypeCorrect, SignTypeCorrect, BankTypeCorrect, CtrlTypeCorrect,
     TmsTypeCorrect, UplinkTypeCorrect, SharedTypeCorrect, PTL

\* What the runs check of each service holds while any of them runs, if the fault of
\* all racks lost is enabled only together with that of one.
THEOREM ServicesHoldTogether ==
  ("all" \in Enabled => "one" \in Enabled) =>
    (Spec => /\ []ChangesStoredOnce /\ []MirrorsFollow /\ []ChangesNoticed /\ []RequestsServedOnce
             /\ []StackFaultsAgree /\ []SelectionCounted /\ []QuietFrameReachesAll
             /\ []StoredForItsDevice /\ KeptForItsPeriod /\ NeverOlder)
<1> SUFFICES ASSUME "all" \in Enabled => "one" \in Enabled
             PROVE  Spec => /\ []ChangesStoredOnce /\ []MirrorsFollow /\ []ChangesNoticed
                            /\ []RequestsServedOnce /\ []StackFaultsAgree /\ []SelectionCounted
                            /\ []QuietFrameReachesAll /\ []StoredForItsDevice
                            /\ KeptForItsPeriod /\ NeverOlder
  OBVIOUS
<1>1. BankSpec => []StackFaultsAgree
  BY BankFaultsAgree
<1>2. QED
  BY <1>1, EachServiceKept, ChangesAreStoredOnce, MirrorsAreCopies, RowsAreKept, SignChangesNoticed,
     SignRequestsServedOnce, CtrlSelectionCounted, TmsNeverOlder, UplinkQuietFrameReachesAll,
     SharedStoredForItsDevice, PTL
================================================================================
