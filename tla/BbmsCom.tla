------------------------------ MODULE BbmsCom ------------------------------
(***************************************************************************)
(* bsp/bsp_bms_com.c: the communication hub of the BBMS.  Commands of the  *)
(* HMI (the host computer on port 5002) go through the uplink receive      *)
(* thread, the global send_queue, the dispatch thread and one queue per    *)
(* RBMS to that RBMS's TCP link thread; replies and telemetry come back    *)
(* through ctrl_reply_queue and recv_queue to the uplink send thread.      *)
(*                                                                         *)
(* A kit_queue is an atomic bounded sequence here; module KitQueue shows   *)
(* why it may be.  A frame is the identifier of the command it carries or  *)
(* answers: commands are numbered in the order they are issued.            *)
(***************************************************************************)
EXTENDS Integers, Sequences, FiniteSets

CONSTANTS
  Rbms,            \* devIds of the configured RBMS devices, from 1
  SubLimit,        \* sub-addresses the HMI may address (20 in the code)
  SendCap,         \* RBMS_CTRL_QUEUE_TOTAL_SIZE, capacity of send_queue
  RbmsCap,         \* RBMS_CTRL_QUEUE_ITEM_SIZE, capacity of an RBMS's queue
  ReplyCap,        \* capacity of ctrl_reply_queue
  TelemetryCap,    \* RBMS_RECV_QUEUE_ITEM_SIZE, capacity of recv_queue
  MaxCommands,     \* bound: commands of the HMI and of the BBMS itself
  MaxFlight,       \* bound: frames of an RBMS on their way to the BBMS
  MaxBurst,        \* telemetry frames an RBMS sends between two silent seconds
  Streams,         \* TRUE: an RBMS may send telemetry without ever pausing
  MaxBreaks        \* bound: connections that fail

\* destSub 0 addresses every RBMS; Self is a command for the BBMS itself; the
\* HMI may also use a sub-address beyond those the callback accepts.
Broadcast == 0
Self == -1
Destinations == Rbms \cup {Broadcast, Self, SubLimit}

\* frame on its way from an RBMS that answers no command
Telemetry == 0

ASSUME RbmsAssumption == Rbms \subseteq Nat \ {0} /\ IsFiniteSet(Rbms)
ASSUME CapAssumption ==
  /\ {SendCap, RbmsCap, ReplyCap, TelemetryCap} \subseteq Nat \ {0}
  /\ {SubLimit, MaxCommands, MaxFlight, MaxBurst, MaxBreaks} \subseteq Nat
  /\ Streams \in BOOLEAN

VARIABLES
  dst,            \* destination of each command sent so far
  clientUp,       \* nClient > 0
  hmiStream,      \* frames of the HMI the receive thread has not read yet
  sendQueue,      \* send_queue
  dispatching,    \* the command in the dispatch thread's msg, as a set
  rbmsQueue,      \* rbms_tcp_master_t.send_queue
  link,           \* where each link thread is in its state machine
  isUsed,         \* rbms_tcp_master_t.isUsed
  isOnline,       \* rbms_tcp_master_t.isOnline
  socket,         \* what the network did to itemTcp.socket_fd
  fromRbms,       \* frames of the RBMS the link thread has not read yet
  burst,          \* telemetry frames of the RBMS since its link was silent
  owed,           \* commands an RBMS received and has not answered
  replyQueue,     \* ctrl_reply_queue, with the telemetry that overtook each
  telemetryQueue, \* number of frames in recv_queue
  uplink,         \* where the uplink send thread is in its loop
  delivered,      \* history: the commands each RBMS received
  answered,       \* history: the replies the HMI received
  lost,           \* history: commands dropped on their way
  sheltered,      \* history: commands nothing disturbed, see Undisturbed
  breaks          \* connections that failed, bounded by MaxBreaks

hmiVars == <<dst, clientUp, hmiStream>>
linkVars == <<link, isUsed, isOnline, socket, fromRbms, burst, owed, breaks>>
uplinkVars == <<replyQueue, telemetryQueue, uplink, answered>>
pathVars == <<sendQueue, dispatching, rbmsQueue, delivered, lost, sheltered>>
vars == <<hmiVars, linkVars, uplinkVars, pathVars>>

Commands == 1 .. Len(dst)

Init ==
  /\ dst = <<>>
  /\ clientUp = FALSE
  /\ hmiStream = <<>>
  /\ sendQueue = <<>>
  /\ dispatching = {}
  /\ rbmsQueue = [r \in Rbms |-> <<>>]
  /\ link = [r \in Rbms |-> "start"]
  /\ isUsed = [r \in Rbms |-> FALSE]
  /\ isOnline = [r \in Rbms |-> FALSE]
  /\ socket = [r \in Rbms |-> "none"]
  /\ fromRbms = [r \in Rbms |-> <<>>]
  /\ burst = [r \in Rbms |-> 0]
  /\ owed = [r \in Rbms |-> <<>>]
  /\ replyQueue = <<>>
  /\ telemetryQueue = 0
  /\ uplink = "top"
  /\ delivered = [r \in Rbms |-> <<>>]
  /\ answered = <<>>
  /\ lost = {}
  /\ sheltered = {}
  /\ breaks = 0

-----------------------------------------------------------------------------
(* The HMI.                                                                *)

HmiConnect ==
  /\ ~clientUp
  /\ clientUp' = TRUE
  /\ UNCHANGED <<dst, hmiStream, linkVars, uplinkVars, pathVars>>

\* The HMI closes its connection after its frames were read; the receive
\* thread removes it from the client table.
HmiClose ==
  /\ clientUp
  /\ hmiStream = <<>>
  /\ clientUp' = FALSE
  /\ UNCHANGED <<dst, hmiStream, linkVars, uplinkVars, pathVars>>

Connected(r) == link[r] \in {"send", "receive"} /\ socket[r] = "up"

\* Nothing the BBMS does can excuse the loss of this command: it is alone on
\* its way, and its RBMS is connected.
Undisturbed(d) ==
  /\ d \in Rbms
  /\ d < SubLimit
  /\ Connected(d)
  /\ hmiStream = <<>>
  /\ \A c \in Commands :
       c \in lost \/ dst[c] = Self \/ \E r \in Rbms : \E i \in DOMAIN delivered[r] : delivered[r][i] = c

\* The HMI sends a frame; if another one is still unread, both arrive in one
\* recv, and neither is undisturbed.
HmiSend(d) ==
  /\ clientUp
  /\ Len(dst) < MaxCommands
  /\ LET c == Len(dst) + 1 IN
       /\ dst' = Append(dst, d)
       /\ hmiStream' = Append(hmiStream, c)
       /\ sheltered' = (IF Undisturbed(d) THEN sheltered \cup {c} ELSE sheltered)
                         \ {hmiStream[i] : i \in DOMAIN hmiStream}
  /\ UNCHANGED <<clientUp, linkVars, uplinkVars, sendQueue, dispatching, rbmsQueue,
                 delivered, lost>>

-----------------------------------------------------------------------------
(* Uplink receive thread: one recv takes everything that arrived, and      *)
(* parseCheckRbmsData accepts it only if it is exactly one frame.          *)

ToRbms(c) == dst[c] \in Rbms \cup {Broadcast} /\ dst[c] < SubLimit

\* bbms_uplink_recv_callback for a frame that goes to an RBMS
UplinkRecvForward(c) ==
  /\ hmiStream = <<c>>
  /\ ToRbms(c)
  /\ hmiStream' = <<>>
  /\ IF Len(sendQueue) < SendCap
       THEN sendQueue' = Append(sendQueue, c) /\ UNCHANGED lost
       ELSE lost' = lost \cup {c} /\ UNCHANGED sendQueue
  /\ UNCHANGED <<dst, clientUp, linkVars, uplinkVars, dispatching, rbmsQueue, delivered,
                 sheltered>>

\* a full ctrl_reply_queue drops the reply
Answer(c) ==
  replyQueue' = IF Len(replyQueue) < ReplyCap
                  THEN Append(replyQueue, [id |-> c, overtaken |-> 0])
                  ELSE replyQueue

\* bbms_uplink_recv_callback for a frame to the BBMS: executed and answered
UplinkRecvSelf(c) ==
  /\ hmiStream = <<c>>
  /\ dst[c] = Self
  /\ hmiStream' = <<>>
  /\ Answer(c)
  /\ UNCHANGED <<dst, clientUp, linkVars, telemetryQueue, uplink, answered, pathVars>>

\* coalesced frames, and a sub-address the callback does not accept
UplinkRecvDiscard ==
  /\ hmiStream # <<>>
  /\ \/ Len(hmiStream) > 1
     \/ dst[hmiStream[1]] # Self /\ ~ToRbms(hmiStream[1])
  /\ lost' = lost \cup {hmiStream[i] : i \in DOMAIN hmiStream}
  /\ hmiStream' = <<>>
  /\ UNCHANGED <<dst, clientUp, linkVars, uplinkVars, sendQueue, dispatching, rbmsQueue,
                 delivered, sheltered>>

-----------------------------------------------------------------------------
(* The BBMS's own commands to the RBMS devices (power on and off, limits,  *)
(* the safety signal): the control and the DO thread put them into         *)
(* send_queue themselves, always for destSub RBMS_SUB_TYPE_SIGN, which is  *)
(* 0.  They compete with the frames of the HMI for its places.             *)

ControlSend ==
  /\ Len(dst) < MaxCommands
  /\ dst' = Append(dst, Broadcast)
  /\ LET c == Len(dst) + 1 IN
       IF Len(sendQueue) < SendCap
         THEN sendQueue' = Append(sendQueue, c) /\ UNCHANGED lost
         ELSE lost' = lost \cup {c} /\ UNCHANGED sendQueue
  /\ sheltered' = sheltered \ {hmiStream[i] : i \in DOMAIN hmiStream}
  /\ UNCHANGED <<clientUp, hmiStream, linkVars, uplinkVars, dispatching, rbmsQueue, delivered>>

-----------------------------------------------------------------------------
(* Dispatch thread.                                                        *)

DispatchDequeue ==
  /\ dispatching = {}
  /\ sendQueue # <<>>
  /\ dispatching' = {Head(sendQueue)}
  /\ sendQueue' = Tail(sendQueue)
  /\ UNCHANGED <<hmiVars, linkVars, uplinkVars, rbmsQueue, delivered, lost, sheltered>>

\* mutant of Addressed: the array index is compared instead of the devId
AddressedByIndex(r, c) == isUsed[r] /\ dst[c] = r - 1

\* getRbmsByDest
Addressed(r, c) == isUsed[r] /\ dst[c] = r

\* mutant of Dispatch: the capacity of the RBMS's queue is not checked
DispatchUnbounded(c, r) ==
  /\ c \in dispatching
  /\ Addressed(r, c)
  /\ rbmsQueue' = [rbmsQueue EXCEPT ![r] = Append(@, c)]
  /\ dispatching' = {}
  /\ UNCHANGED <<hmiVars, linkVars, uplinkVars, sendQueue, delivered, lost, sheltered>>

Dispatch(c, r) ==
  /\ c \in dispatching
  /\ Addressed(r, c)
  /\ IF Len(rbmsQueue[r]) < RbmsCap
       THEN rbmsQueue' = [rbmsQueue EXCEPT ![r] = Append(@, c)] /\ UNCHANGED lost
       ELSE lost' = lost \cup {c} /\ UNCHANGED rbmsQueue
  /\ dispatching' = {}
  /\ UNCHANGED <<hmiVars, linkVars, uplinkVars, sendQueue, delivered, sheltered>>

DispatchNotFound(c) ==
  /\ c \in dispatching
  /\ \A r \in Rbms : ~Addressed(r, c)
  /\ lost' = lost \cup {c}
  /\ dispatching' = {}
  /\ UNCHANGED <<hmiVars, linkVars, uplinkVars, sendQueue, rbmsQueue, delivered, sheltered>>

-----------------------------------------------------------------------------
(* Link thread of one RBMS: rbmsTcpMasterStartCall and ...Connected.       *)

\* drvTcpOpen succeeds: a new socket replaces the old one, which stays open
LinkOpen(r) ==
  /\ link[r] = "start"
  /\ link' = [link EXCEPT ![r] = "open"]
  /\ isOnline' = [isOnline EXCEPT ![r] = FALSE]
  /\ socket' = [socket EXCEPT ![r] = "up"]
  /\ fromRbms' = [fromRbms EXCEPT ![r] = <<>>]
  /\ owed' = [owed EXCEPT ![r] = <<>>]
  /\ UNCHANGED <<hmiVars, uplinkVars, pathVars, isUsed, burst, breaks>>

LinkConnected(r) ==
  /\ link[r] = "open"
  /\ link' = [link EXCEPT ![r] = "send"]
  /\ isOnline' = [isOnline EXCEPT ![r] = TRUE]
  /\ isUsed' = [isUsed EXCEPT ![r] = TRUE]
  /\ UNCHANGED <<hmiVars, uplinkVars, pathVars, socket, fromRbms, burst, owed, breaks>>

\* mutant of LinkNothingToSend: the link may skip a filled queue
LinkSkipsQueue(r) ==
  /\ link[r] = "send"
  /\ link' = [link EXCEPT ![r] = "receive"]
  /\ UNCHANGED <<hmiVars, uplinkVars, pathVars, isUsed, isOnline, socket, fromRbms, burst,
                 owed, breaks>>

LinkNothingToSend(r) ==
  /\ link[r] = "send"
  /\ rbmsQueue[r] = <<>>
  /\ link' = [link EXCEPT ![r] = "receive"]
  /\ UNCHANGED <<hmiVars, uplinkVars, pathVars, isUsed, isOnline, socket, fromRbms, burst, owed,
                 breaks>>

\* mutant of LinkSend: the command is sent but not taken off the queue
LinkSendPeeks(r) ==
  /\ link[r] = "send"
  /\ rbmsQueue[r] # <<>>
  /\ socket[r] = "up"
  /\ delivered' = [delivered EXCEPT ![r] = Append(@, Head(rbmsQueue[r]))]
  /\ owed' = [owed EXCEPT ![r] = Append(@, Head(rbmsQueue[r]))]
  /\ link' = [link EXCEPT ![r] = "receive"]
  /\ UNCHANGED <<hmiVars, uplinkVars, isUsed, isOnline, socket, fromRbms, burst, breaks,
                 sendQueue, dispatching, rbmsQueue, lost, sheltered>>

\* One command is sent; drvTcpSend's failure on a broken connection is logged
\* and the command forgotten.  A peer that closed its side may answer the frame
\* with a reset.
LinkSend(r) ==
  /\ link[r] = "send"
  /\ rbmsQueue[r] # <<>>
  /\ LET c == Head(rbmsQueue[r]) IN
       IF socket[r] = "up"
         THEN /\ delivered' = [delivered EXCEPT ![r] = Append(@, c)]
              /\ owed' = [owed EXCEPT ![r] = Append(@, c)]
              /\ UNCHANGED lost
         ELSE lost' = lost \cup {c} /\ UNCHANGED <<delivered, owed>>
  /\ rbmsQueue' = [rbmsQueue EXCEPT ![r] = Tail(@)]
  /\ link' = [link EXCEPT ![r] = "receive"]
  /\ \E s \in {socket[r]} \cup (IF socket[r] = "closed" THEN {"reset"} ELSE {}) :
       socket' = [socket EXCEPT ![r] = s]
  /\ UNCHANGED <<hmiVars, uplinkVars, isUsed, isOnline, fromRbms, burst, breaks, sendQueue,
                 dispatching, sheltered>>

\* mutant of LinkReceive: the receive buffer is processed again
LinkReceiveStale(r) ==
  /\ link[r] = "receive"
  /\ fromRbms[r] # <<>>
  /\ Head(fromRbms[r]) # Telemetry
  /\ Answer(Head(fromRbms[r]))
  /\ UNCHANGED <<hmiVars, pathVars, linkVars, telemetryQueue, uplink, answered>>

\* rbmsTcpRecvFullFrame returned a frame; the loop stays until there is none
LinkReceive(r) ==
  /\ link[r] = "receive"
  /\ fromRbms[r] # <<>>
  /\ fromRbms' = [fromRbms EXCEPT ![r] = Tail(@)]
  /\ IF Head(fromRbms[r]) # Telemetry
       THEN Answer(Head(fromRbms[r])) /\ UNCHANGED telemetryQueue
       ELSE /\ telemetryQueue' = IF telemetryQueue < TelemetryCap
                                   THEN telemetryQueue + 1 ELSE telemetryQueue
            /\ UNCHANGED replyQueue
  /\ UNCHANGED <<hmiVars, pathVars, link, isUsed, isOnline, socket, burst, owed, breaks,
                 uplink, answered>>

\* mutant of LinkSilent: a silent second is taken for a lost device
LinkSilentUnused(r) ==
  /\ link[r] = "receive"
  /\ fromRbms[r] = <<>>
  /\ socket[r] \in {"up", "closed"}
  /\ link' = [link EXCEPT ![r] = "send"]
  /\ isUsed' = [isUsed EXCEPT ![r] = FALSE]
  /\ burst' = [burst EXCEPT ![r] = 0]
  /\ UNCHANGED <<hmiVars, uplinkVars, pathVars, isOnline, socket, fromRbms, owed, breaks>>

\* -128: a second without data, or recv returned 0 on a closed connection
LinkSilent(r) ==
  /\ link[r] = "receive"
  /\ fromRbms[r] = <<>>
  /\ socket[r] \in {"up", "closed"}
  /\ link' = [link EXCEPT ![r] = "send"]
  /\ burst' = [burst EXCEPT ![r] = 0]
  /\ UNCHANGED <<hmiVars, uplinkVars, pathVars, isUsed, isOnline, socket, fromRbms, owed,
                 breaks>>

\* mutant of LinkError: a failed recv is treated like a silent second
LinkErrorIgnored(r) ==
  /\ link[r] = "receive"
  /\ fromRbms[r] = <<>>
  /\ socket[r] = "reset"
  /\ link' = [link EXCEPT ![r] = "send"]
  /\ UNCHANGED <<hmiVars, uplinkVars, pathVars, isUsed, isOnline, socket, fromRbms, burst,
                 owed, breaks>>

\* -1: recv failed
LinkError(r) ==
  /\ link[r] = "receive"
  /\ fromRbms[r] = <<>>
  /\ socket[r] = "reset"
  /\ link' = [link EXCEPT ![r] = "start"]
  /\ isOnline' = [isOnline EXCEPT ![r] = FALSE]
  /\ UNCHANGED <<hmiVars, uplinkVars, pathVars, isUsed, socket, fromRbms, burst, owed, breaks>>

-----------------------------------------------------------------------------
(* The RBMS devices and the network.                                       *)

RbmsReply(r) ==
  /\ socket[r] = "up"
  /\ owed[r] # <<>>
  /\ Len(fromRbms[r]) < MaxFlight
  /\ fromRbms' = [fromRbms EXCEPT ![r] = Append(@, Head(owed[r]))]
  /\ owed' = [owed EXCEPT ![r] = Tail(@)]
  /\ UNCHANGED <<hmiVars, uplinkVars, pathVars, link, isUsed, isOnline, socket, burst, breaks>>

RbmsTelemetry(r) ==
  /\ socket[r] = "up"
  /\ Len(fromRbms[r]) < MaxFlight
  /\ Streams \/ burst[r] < MaxBurst
  /\ fromRbms' = [fromRbms EXCEPT ![r] = Append(@, Telemetry)]
  /\ burst' = [burst EXCEPT ![r] = IF Streams THEN @ ELSE @ + 1]
  /\ UNCHANGED <<hmiVars, uplinkVars, pathVars, link, isUsed, isOnline, socket, owed, breaks>>

\* The peer closes the connection, or it is reset.
Break(r, how) ==
  /\ socket[r] = "up"
  /\ breaks < MaxBreaks
  /\ breaks' = breaks + 1
  /\ socket' = [socket EXCEPT ![r] = how]
  /\ sheltered' = {c \in sheltered : dst[c] # r}
  /\ UNCHANGED <<hmiVars, uplinkVars, link, isUsed, isOnline, fromRbms, burst, owed, sendQueue,
                 dispatching, rbmsQueue, delivered, lost>>

-----------------------------------------------------------------------------
(* Uplink send thread: all replies, then one telemetry frame.  A frame     *)
(* sent while no client is connected is gone.                              *)

SendTop ==
  /\ uplink = "top"
  /\ clientUp
  /\ uplink' = "replies"
  /\ UNCHANGED <<hmiVars, linkVars, pathVars, replyQueue, telemetryQueue, answered>>

SendReply ==
  /\ uplink = "replies"
  /\ replyQueue # <<>>
  /\ replyQueue' = Tail(replyQueue)
  /\ answered' = IF clientUp THEN Append(answered, Head(replyQueue).id) ELSE answered
  /\ UNCHANGED <<hmiVars, linkVars, pathVars, telemetryQueue, uplink>>

\* mutant of SendRepliesDone: the replies are not drained first
SendRepliesSkipped ==
  /\ uplink = "replies"
  /\ uplink' = "telemetry"
  /\ UNCHANGED <<hmiVars, linkVars, pathVars, replyQueue, telemetryQueue, answered>>

SendRepliesDone ==
  /\ uplink = "replies"
  /\ replyQueue = <<>>
  /\ uplink' = "telemetry"
  /\ UNCHANGED <<hmiVars, linkVars, pathVars, replyQueue, telemetryQueue, answered>>

SendTelemetry ==
  /\ uplink = "telemetry"
  /\ uplink' = "top"
  /\ IF telemetryQueue > 0
       THEN /\ telemetryQueue' = telemetryQueue - 1
            /\ replyQueue' = [i \in DOMAIN replyQueue |->
                                [replyQueue[i] EXCEPT !.overtaken = @ + 1]]
       ELSE UNCHANGED <<telemetryQueue, replyQueue>>
  /\ UNCHANGED <<hmiVars, linkVars, pathVars, answered>>

-----------------------------------------------------------------------------
UplinkRecv ==
  \/ \E c \in Commands : UplinkRecvForward(c)
  \/ \E c \in Commands : UplinkRecvSelf(c)
  \/ UplinkRecvDiscard

DispatchThread ==
  \/ DispatchDequeue
  \/ \E c \in Commands, r \in Rbms : Dispatch(c, r)
  \/ \E c \in Commands : DispatchNotFound(c)

LinkThread(r) ==
  \/ LinkConnected(r)
  \/ LinkNothingToSend(r)
  \/ LinkSend(r)
  \/ LinkReceive(r)
  \/ LinkSilent(r)
  \/ LinkError(r)

UplinkSend ==
  \/ SendTop
  \/ SendReply
  \/ SendRepliesDone
  \/ SendTelemetry

\* The control threads act when their state machines decide to, and the
\* network and the devices when they like.
Environment ==
  \/ ControlSend
  \/ HmiConnect
  \/ HmiClose
  \/ \E d \in Destinations : HmiSend(d)
  \/ \E r \in Rbms : LinkOpen(r)
  \/ \E r \in Rbms : RbmsReply(r)
  \/ \E r \in Rbms : RbmsTelemetry(r)
  \/ \E r \in Rbms, how \in {"closed", "reset"} : Break(r, how)

Next ==
  \/ UplinkRecv
  \/ DispatchThread
  \/ \E r \in Rbms : LinkThread(r)
  \/ UplinkSend
  \/ Environment

Spec == Init /\ [][Next]_vars

\* The operating system runs every thread; it promises nothing of the HMI, of
\* the RBMS devices and of the network.
ThreadFairness ==
  /\ WF_vars(UplinkRecv)
  /\ WF_vars(DispatchThread)
  /\ \A r \in Rbms : WF_vars(LinkThread(r))
  /\ WF_vars(UplinkSend)

FairSpec == Spec /\ ThreadFairness

-----------------------------------------------------------------------------
(* Properties.                                                             *)

Elements(s) == {s[i] : i \in DOMAIN s}
Increasing(s) == \A i, j \in DOMAIN s : i < j => s[i] < s[j]

\* Every variable has its type and no queue exceeds its capacity.
TypeOK ==
  /\ dst \in Seq(Destinations) /\ Len(dst) <= MaxCommands
  /\ clientUp \in BOOLEAN
  /\ hmiStream \in Seq(Commands)
  /\ sendQueue \in Seq(Commands) /\ Len(sendQueue) <= SendCap
  /\ dispatching \subseteq Commands
  /\ rbmsQueue \in [Rbms -> Seq(Commands)]
  /\ \A r \in Rbms : Len(rbmsQueue[r]) <= RbmsCap
  /\ link \in [Rbms -> {"start", "open", "send", "receive"}]
  /\ isUsed \in [Rbms -> BOOLEAN] /\ isOnline \in [Rbms -> BOOLEAN]
  /\ socket \in [Rbms -> {"none", "up", "closed", "reset"}]
  /\ fromRbms \in [Rbms -> Seq(Commands \cup {Telemetry})]
  /\ burst \in [Rbms -> 0 .. MaxBurst]
  /\ owed \in [Rbms -> Seq(Commands)]
  /\ replyQueue \in Seq([id : Commands, overtaken : Nat]) /\ Len(replyQueue) <= ReplyCap
  /\ telemetryQueue \in 0 .. TelemetryCap
  /\ uplink \in {"top", "replies", "telemetry"}
  /\ delivered \in [Rbms -> Seq(Commands)]
  /\ answered \in Seq(Commands)
  /\ lost \subseteq Commands /\ sheltered \subseteq Commands
  /\ breaks \in 0 .. MaxBreaks

\* An RBMS receives only its own commands, each at most once and in the order
\* the HMI sent them, through two queues, three threads and any reconnection
\* (bsp_bms_com.c:240-289, 504-535).
DeliveredInOrder ==
  \A r \in Rbms :
    /\ \A c \in Elements(delivered[r]) : dst[c] = r
    /\ Increasing(delivered[r])

\* A command for the RBMS devices is always in one place: unread, queued, in a
\* thread's hands, received by its RBMS, or dropped; never in two, never in none.
Holders(c) ==
  Cardinality({i \in DOMAIN hmiStream : hmiStream[i] = c})
  + Cardinality({i \in DOMAIN sendQueue : sendQueue[i] = c})
  + Cardinality(dispatching \cap {c}) + Cardinality(lost \cap {c})
  + Cardinality({p \in Rbms \X (1 .. RbmsCap) :
                   p[2] \in DOMAIN rbmsQueue[p[1]] /\ rbmsQueue[p[1]][p[2]] = c})
  + Cardinality({p \in Rbms \X (1 .. MaxCommands) :
                   p[2] \in DOMAIN delivered[p[1]] /\ delivered[p[1]][p[2]] = c})

InOnePlace == \A c \in Commands : dst[c] # Self => Holders(c) = 1

\* The BBMS itself drops no command that is alone on its way to a connected
\* RBMS: a loss needs a broken connection or a second frame that disturbs it.
ShelteredSurvive == sheltered \cap lost = {}

\* Control replies go first (bsp_bms_com.c:1179): at most one telemetry frame
\* is sent to the HMI while a reply waits.
RepliesGoFirst == \A i \in DOMAIN replyQueue : replyQueue[i].overtaken <= 1

\* The HMI gets the answers of one RBMS in the order of its commands, each once,
\* and never an answer to a command the RBMS did not receive.
AnswersInOrder ==
  \A r \in Rbms :
    LET mine == {i \in DOMAIN answered : dst[answered[i]] = r} IN
      /\ \A i, j \in mine : i < j => answered[i] < answered[j]
      /\ \A i \in mine : answered[i] \in Elements(delivered[r])

\* A reset connection is noticed: the RBMS is reported offline and reopened.
ResetNoticed ==
  \A r \in Rbms : (socket[r] = "reset" /\ link[r] # "start")
                      ~> (link[r] = "start" /\ ~isOnline[r])

\* As long as the RBMS pauses between its telemetry bursts, a queued command is
\* handed to the connection, unless the link has to be reopened first.
CommandHandedOver ==
  \A r \in Rbms : rbmsQueue[r] # <<>> ~> (rbmsQueue[r] = <<>> \/ link[r] = "start")

\* bsp_bms_com.c:519 says that queued commands are sent first, before anything
\* is received.  Stated of a connection that stays up.
QueuedCommandGoesFirst ==
  \A r \in Rbms : (rbmsQueue[r] # <<>> /\ Connected(r))
                      ~> (rbmsQueue[r] = <<>> \/ ~Connected(r))

\* bsp_bms_com.c:382 says that rbmsTcpRecvFullFrame returns -1 on a disconnect:
\* an RBMS that closed its connection does not stay online.
CloseNoticed == \A r \in Rbms : socket[r] = "closed" ~> ~isOnline[r]

\* protocol_bms_hmi.c:789 says that a command with sub-address 0 is multicast to
\* all RBMS devices by the communication threads.
BroadcastReachesAll ==
  [][\A c \in dispatching :
       dst[c] = Broadcast /\ dispatching' = {} =>
         \A r \in Rbms : isUsed[r] /\ Len(rbmsQueue[r]) < RbmsCap =>
                            c \in Elements(rbmsQueue'[r])]_vars
=============================================================================
