------------------------------- MODULE Uplink -------------------------------
(***************************************************************************)
(* bsp/bsp_bms_com.c and driver/drv_tcp_server.c: the table of the clients *)
(* of the host computer's port.  The receiving thread accepts clients,     *)
(* closes those that left and moves the entries behind them up; the        *)
(* sending thread walks the same table, without a lock, and sends each     *)
(* frame to every client.                                                  *)
(*                                                                         *)
(* What the frames are and where they come from is in BbmsCom.             *)
(***************************************************************************)
EXTENDS Integers, Sequences, FiniteSets

CONSTANTS
  MaxClients,      \* MAX_CLIENTS, 5 in the code
  MaxConnections,  \* bound: connections made by host computers
  MaxSends         \* bound: frames sent

ASSUME UplinkAssumption == MaxClients \in Nat /\ MaxConnections \in Nat /\ MaxSends \in Nat

VARIABLES
  clients,    \* clients[i].fd; entries behind nClient are left over
  nClient,
  peer,       \* what each descriptor stands for: "closed" (by the server),
              \* "up", "left" (the client closed it) or "reset"
  backlog,    \* connections the server has not accepted
  knocked,    \* the listening socket has an event, which is edge-triggered
  made,       \* connections made so far
  recvPc,     \* the receiving thread: "wait", "accept" or "move"
  recvAt,     \* the entry it moves up
  sendPc,     \* the sending thread: "idle", "walk" or "sent"
  sendAt,     \* the entry it sends to next
  sends,      \* frames sent so far
  audience,   \* history: descriptors that were up when the frame's turn began
  got,        \* history: how often each descriptor got the frame
  calm,       \* history: since then no client left the table and no sending failed
  alive       \* the process runs

tableVars == <<clients, nClient>>
netVars == <<peer, backlog, knocked, made>>
recvVars == <<recvPc, recvAt>>
sendVars == <<sendPc, sendAt, sends, audience, got>>
uplinkVars == <<tableVars, netVars, recvVars, sendVars, calm, alive>>

Index == 1 .. MaxClients
Fds == 1 .. MaxClients
NoFd == 0

UplinkInit ==
  /\ clients = [i \in Index |-> NoFd] /\ nClient = 0
  /\ peer = [fd \in Fds |-> "closed"] /\ backlog = 0 /\ knocked = FALSE /\ made = 0
  /\ recvPc = "wait" /\ recvAt = 0
  /\ sendPc = "idle" /\ sendAt = 0 /\ sends = 0 /\ audience = {} /\ got = [fd \in Fds |-> 0]
  /\ calm = TRUE /\ alive = TRUE

-----------------------------------------------------------------------------
(* The host computers.                                                     *)

HostConnects ==
  /\ made < MaxConnections
  /\ made' = made + 1
  /\ backlog' = backlog + 1
  /\ knocked' = TRUE
  /\ UNCHANGED <<tableVars, peer, recvVars, sendVars, calm, alive>>

HostLeaves(fd) ==
  /\ peer[fd] = "up"
  /\ peer' = [peer EXCEPT ![fd] = "left"]
  /\ UNCHANGED <<tableVars, backlog, knocked, made, recvVars, sendVars, calm, alive>>

-----------------------------------------------------------------------------
(* The receiving thread.                                                   *)

Knock ==
  /\ recvPc = "wait" /\ knocked
  /\ knocked' = FALSE
  /\ recvPc' = "accept"
  /\ UNCHANGED <<recvAt, tableVars, peer, backlog, made, sendVars, calm, alive>>

\* The least free descriptor is given to the connection.
AcceptClient ==
  /\ recvPc = "accept" /\ nClient < MaxClients /\ backlog > 0
  /\ \E fd \in Fds :
       /\ peer[fd] = "closed" /\ \A g \in Fds : peer[g] = "closed" => fd <= g
       /\ peer' = [peer EXCEPT ![fd] = "up"]
       /\ clients' = [clients EXCEPT ![nClient + 1] = fd]
  /\ nClient' = nClient + 1
  /\ backlog' = backlog - 1
  /\ UNCHANGED <<knocked, made, recvVars, sendVars, calm, alive>>

AcceptNoMore ==
  /\ recvPc = "accept" /\ (nClient = MaxClients \/ backlog = 0)
  /\ recvPc' = "wait"
  /\ UNCHANGED <<recvAt, tableVars, netVars, sendVars, calm, alive>>

CloseFd(fd) ==
  /\ recvPc = "wait" /\ peer[fd] \in {"left", "reset"}
  /\ peer' = [peer EXCEPT ![fd] = "closed"]
  /\ \E j \in 1 .. nClient :
       /\ clients[j] = fd
       /\ \A i \in 1 .. j - 1 : clients[i] # fd
       /\ recvAt' = j
  /\ recvPc' = "move"
  /\ calm' = FALSE
  /\ UNCHANGED <<tableVars, backlog, knocked, made, sendVars, alive>>

\* mutant of Moving: the last entry is not moved up
MovingShort(k) == k < nClient - 1

Moving(k) == k < nClient

MoveUp ==
  /\ recvPc = "move"
  /\ IF Moving(recvAt)
     THEN /\ clients' = [clients EXCEPT ![recvAt] = clients[recvAt + 1]]
          /\ recvAt' = recvAt + 1
          /\ UNCHANGED <<nClient, recvPc>>
     ELSE /\ nClient' = nClient - 1
          /\ recvPc' = "wait" /\ recvAt' = 0
          /\ UNCHANGED clients
  /\ calm' = FALSE
  /\ UNCHANGED <<netVars, sendVars, alive>>

-----------------------------------------------------------------------------
(* The sending thread: drvTcpServerSend for one frame.                     *)

StartFrame ==
  /\ sendPc = "idle" /\ nClient > 0 /\ sends < MaxSends
  /\ sends' = sends + 1
  /\ sendPc' = "walk" /\ sendAt' = 1
  /\ audience' = {fd \in Fds : peer[fd] = "up"}
  /\ got' = [fd \in Fds |-> 0]
  /\ calm' = (recvPc # "move")
  /\ UNCHANGED <<tableVars, netVars, recvVars, alive>>

\* A client that left resets the connection when it gets data.
SendTo(fd) ==
  /\ peer[fd] \in {"up", "left"}
  /\ peer' = [peer EXCEPT ![fd] = IF @ = "left" THEN "reset" ELSE @]
  /\ got' = [got EXCEPT ![fd] = @ + 1]
  /\ sendAt' = sendAt + 1
  /\ UNCHANGED <<sendPc, calm, alive>>

\* A closed descriptor or a full buffer: the clients behind miss the frame.
SendFails(fd) ==
  /\ peer[fd] # "reset"
  /\ sendPc' = "sent"
  /\ calm' = FALSE
  /\ UNCHANGED <<peer, got, sendAt, alive>>

\* Sending without MSG_NOSIGNAL on a reset connection raises SIGPIPE.
BrokenPipe(fd) ==
  /\ peer[fd] = "reset"
  /\ alive' = FALSE
  /\ UNCHANGED <<peer, got, sendPc, sendAt, calm>>

drvTcpServerSend ==
  /\ sendPc = "walk" /\ sendAt <= nClient
  /\ SendTo(clients[sendAt]) \/ SendFails(clients[sendAt]) \/ BrokenPipe(clients[sendAt])
  /\ UNCHANGED <<tableVars, backlog, knocked, made, recvVars, sends, audience>>

FrameSent ==
  /\ sendPc = "walk" /\ sendAt > nClient
  /\ sendPc' = "sent"
  /\ UNCHANGED <<sendAt, tableVars, netVars, recvVars, sends, audience, got, calm, alive>>

NextFrame ==
  /\ sendPc = "sent"
  /\ sendPc' = "idle" /\ sendAt' = 0
  /\ UNCHANGED <<tableVars, netVars, recvVars, sends, audience, got, calm, alive>>

UplinkNext ==
  /\ alive
  /\ \/ HostConnects
     \/ \E fd \in Fds : HostLeaves(fd) \/ CloseFd(fd)
     \/ Knock \/ AcceptClient \/ AcceptNoMore \/ MoveUp
     \/ StartFrame \/ drvTcpServerSend \/ FrameSent \/ NextFrame

UplinkSpec == UplinkInit /\ [][UplinkNext]_uplinkVars

-----------------------------------------------------------------------------

\* Types of the state.
UplinkTypeOK ==
  /\ clients \in [Index -> Fds \cup {NoFd}] /\ nClient \in 0 .. MaxClients
  /\ peer \in [Fds -> {"closed", "up", "left", "reset"}]
  /\ backlog \in 0 .. MaxConnections /\ made \in 0 .. MaxConnections
  /\ sends \in 0 .. MaxSends /\ audience \subseteq Fds /\ got \in [Fds -> Nat]
  /\ recvPc \in {"wait", "accept", "move"} /\ recvAt \in 0 .. MaxClients
  /\ sendPc \in {"idle", "walk", "sent"} /\ sendAt \in 0 .. MaxClients + 1
  /\ {knocked, calm, alive} \subseteq BOOLEAN

\* However the clients came and went before: a frame during whose sending no
\* client leaves the table and no sending fails reaches every client that was
\* connected when its turn began, once, and nobody else gets it twice
\* (close_client_connection and drvTcpServerSend).
QuietFrameReachesAll ==
  sendPc = "sent" /\ calm =>
    /\ \A fd \in audience : got[fd] = 1
    /\ \A fd \in Fds : got[fd] <= 1
=============================================================================
