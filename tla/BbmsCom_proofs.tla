--------------------------- MODULE BbmsCom_proofs ---------------------------
(***************************************************************************)
(* What holds of the communication hub for every number of RBMS devices,   *)
(* every capacity of the queues and every number of commands, frames and   *)
(* broken connections.  HubInv is inductive: the commands of an RBMS are   *)
(* in order along their whole path and in one place of it (PathInv), their *)
(* answers are in order along the way back and answer what was delivered   *)
(* (AnswerInv), what waits for the HMI was overtaken at most once          *)
(* (ReplyInv), and a sheltered command finds its path free (ShelterInv).   *)
(***************************************************************************)
EXTENDS BbmsCom, SequenceTheorems, FiniteSetTheorems, TLAPS

\* What ctrl_reply_queue holds.
Replies == [id : Nat, overtaken : Nat]

\* The types; what the sequences hold is said with their order.
HubState ==
  /\ dst \in Seq(Destinations) /\ Len(dst) <= MaxCommands
  /\ clientUp \in BOOLEAN
  /\ hmiStream \in Seq(Nat)
  /\ sendQueue \in Seq(Nat) /\ Len(sendQueue) <= SendCap
  /\ rbmsQueue \in [Rbms -> Seq(Nat)]
  /\ \A r \in Rbms : Len(rbmsQueue[r]) <= RbmsCap
  /\ link \in [Rbms -> {"start", "open", "send", "receive"}]
  /\ isUsed \in [Rbms -> BOOLEAN] /\ isOnline \in [Rbms -> BOOLEAN]
  /\ socket \in [Rbms -> {"none", "up", "closed", "reset"}]
  /\ fromRbms \in [Rbms -> Seq(Nat)]
  /\ burst \in [Rbms -> 0 .. MaxBurst]
  /\ owed \in [Rbms -> Seq(Nat)]
  /\ replyQueue \in Seq(Replies) /\ Len(replyQueue) <= ReplyCap
  /\ telemetryQueue \in 0 .. TelemetryCap
  /\ uplink \in {"top", "replies", "telemetry"}
  /\ delivered \in [Rbms -> Seq(Nat)]
  /\ answered \in Seq(Nat)
  /\ breaks \in 0 .. MaxBreaks

\* The commands of an RBMS.
For(r) == {c \in Commands : dst[c] = r}

\* Of the commands in M, each is smaller than those behind it.
Ordered(s, M) == \A i, j \in DOMAIN s : i < j /\ s[i] \in M /\ s[j] \in M => s[i] < s[j]
Before(S, T, M) == \A a \in S \cap M, b \in T \cap M : a < b

\* No command twice.
Distinct(s) == \A i, j \in DOMAIN s : s[i] = s[j] => i = j

\* The path of the commands of an RBMS, from the HMI to the RBMS, is in order.
PathOrder(r, M) ==
  /\ Ordered(delivered[r], M) /\ Ordered(rbmsQueue[r], M) /\ Ordered(sendQueue, M)
       /\ Ordered(hmiStream, M)
  /\ Before(Elements(delivered[r]), Elements(rbmsQueue[r]), M)
  /\ Before(Elements(delivered[r]), dispatching, M)
  /\ Before(Elements(delivered[r]), Elements(sendQueue), M)
  /\ Before(Elements(delivered[r]), Elements(hmiStream), M)
  /\ Before(Elements(rbmsQueue[r]), dispatching, M)
  /\ Before(Elements(rbmsQueue[r]), Elements(sendQueue), M)
  /\ Before(Elements(rbmsQueue[r]), Elements(hmiStream), M)
  /\ Before(dispatching, Elements(sendQueue), M)
  /\ Before(dispatching, Elements(hmiStream), M)
  /\ Before(Elements(sendQueue), Elements(hmiStream), M)

\* Who is where.
PathMembers ==
  /\ Elements(hmiStream) \subseteq Commands
  /\ Elements(sendQueue) \subseteq Commands /\ \A c \in Elements(sendQueue) : dst[c] # Self
  /\ dispatching \subseteq Commands /\ \A c \in dispatching : dst[c] # Self
  /\ \A a, b \in dispatching : a = b
  /\ \A r \in Rbms : Elements(rbmsQueue[r]) \subseteq For(r) /\ Elements(delivered[r]) \subseteq For(r)
  /\ lost \subseteq Commands
  /\ Distinct(hmiStream) /\ Distinct(sendQueue)

\* How often a place holds a command, and what a family of queues holds together.
Here(c, S) == IF c \in S THEN 1 ELSE 0
InSome(q) == UNION {Elements(q[r]) : r \in Rbms}

\* The six places a command can be in, and that it is in one of them.
OnePlace(c) ==
  Here(c, Elements(hmiStream)) + Here(c, Elements(sendQueue)) + Here(c, dispatching)
    + Here(c, lost) + Here(c, InSome(rbmsQueue)) + Here(c, InSome(delivered)) = 1

\* The commands on their way: who, in which order, and in one place each.
PathInv ==
  /\ PathMembers
  /\ \A r \in Rbms : PathOrder(r, For(r))
  /\ \A c \in Commands : dst[c] # Self => OnePlace(c)

\* The way back: the commands whose replies wait for the HMI.
Ids(q) == [i \in DOMAIN q |-> q[i].id]
Waiting == Ids(replyQueue)

\* The way back from an RBMS to the HMI is in order.
AnswerOrder(r, M) ==
  /\ Ordered(answered, M) /\ Ordered(Waiting, M) /\ Ordered(fromRbms[r], M) /\ Ordered(owed[r], M)
  /\ Before(Elements(answered), Elements(Waiting), M)
  /\ Before(Elements(answered), Elements(fromRbms[r]), M)
  /\ Before(Elements(answered), Elements(owed[r]), M)
  /\ Before(Elements(Waiting), Elements(fromRbms[r]), M)
  /\ Before(Elements(Waiting), Elements(owed[r]), M)
  /\ Before(Elements(fromRbms[r]), Elements(owed[r]), M)

\* What is on the way back was delivered before; telemetry is no command.
AnswerMembers ==
  /\ Elements(answered) \subseteq Commands /\ Elements(Waiting) \subseteq Commands
  /\ \A r \in Rbms :
       /\ Elements(answered) \cap For(r) \subseteq Elements(delivered[r])
       /\ Elements(Waiting) \cap For(r) \subseteq Elements(delivered[r])
       /\ Elements(fromRbms[r]) \subseteq Elements(delivered[r]) \cup {Telemetry}
       /\ Elements(owed[r]) \subseteq Elements(delivered[r])

\* The answers on their way: what they answer, and in which order.
AnswerInv == AnswerMembers /\ \A r \in Rbms : AnswerOrder(r, For(r))

\* What waits at the top of the loop was overtaken by one frame at most.
ReplyInv == \A i \in DOMAIN replyQueue :
              replyQueue[i].overtaken <= (IF uplink = "telemetry" THEN 0 ELSE 1)

\* A sheltered command finds every queue before it empty and its RBMS connected.
ClearPath(c) ==
  LET d == dst[c]
      empty == \A r \in Rbms : rbmsQueue[r] = <<>>
  IN  \/ hmiStream = <<c>> /\ sendQueue = <<>> /\ dispatching = {} /\ empty
      \/ sendQueue # <<>> /\ Head(sendQueue) = c /\ dispatching = {} /\ empty
      \/ dispatching = {c} /\ empty
      \/ rbmsQueue[d] # <<>> /\ Head(rbmsQueue[d]) = c

\* A sheltered command was delivered, or its path is free and its RBMS connected.
ShelterInv ==
  /\ sheltered \subseteq Commands
  /\ \A r \in Rbms : link[r] \in {"send", "receive"} => isUsed[r]
  /\ \A c \in sheltered :
       /\ dst[c] \in Rbms /\ dst[c] < SubLimit
       /\ c \in Elements(delivered[dst[c]]) \/ (Connected(dst[c]) /\ ClearPath(c))
  /\ sheltered \cap lost = {}

\* The inductive invariant: all of them.
HubInv == HubState /\ PathInv /\ AnswerInv /\ ReplyInv /\ ShelterInv

-----------------------------------------------------------------------------
(* Sequences of commands.                                                  *)

\* What a sequence of numbers holds, and at which places.
LEMMA ElementsOf ==
  ASSUME NEW s \in Seq(Nat)
  PROVE  /\ Len(s) \in Nat /\ DOMAIN s = 1 .. Len(s)
         /\ \A i \in 1 .. Len(s) : s[i] \in Nat /\ s[i] \in Elements(s)
         /\ \A x \in Elements(s) : \E i \in 1 .. Len(s) : s[i] = x
         /\ Elements(s) \subseteq Nat
BY LenProperties, ElementOfSeq DEF Elements

\* A queue without commands.
LEMMA EmptyFacts ==
  /\ <<>> \in Seq(Nat) /\ Len(<<>>) = 0 /\ Elements(<<>>) = {} /\ Distinct(<<>>)
  /\ \A M : Ordered(<<>>, M)
BY DEF Elements, Distinct, Ordered

\* A command that joins a queue.
LEMMA AppendFacts ==
  ASSUME NEW s \in Seq(Nat), NEW c \in Nat
  PROVE  /\ Append(s, c) \in Seq(Nat) /\ Len(Append(s, c)) = Len(s) + 1
         /\ Elements(Append(s, c)) = Elements(s) \cup {c}
         /\ Distinct(s) /\ c \notin Elements(s) => Distinct(Append(s, c))
         /\ \A M : Ordered(s, M) /\ Before(Elements(s), {c}, M) => Ordered(Append(s, c), M)
<1> DEFINE t == Append(s, c)
<1>1. /\ Len(s) \in Nat /\ DOMAIN s = 1 .. Len(s)
      /\ \A i \in 1 .. Len(s) : s[i] \in Nat /\ s[i] \in Elements(s)
  BY ElementsOf
<1>2. t \in Seq(Nat) /\ Len(t) = Len(s) + 1 /\ DOMAIN t = 1 .. Len(s) + 1
  BY <1>1, LenProperties
<1>3. /\ \A i \in 1 .. Len(s) : t[i] = s[i]
      /\ t[Len(s) + 1] = c
  BY <1>1
<1>4. \A i \in 1 .. Len(s) + 1 : i \in 1 .. Len(s) \/ i = Len(s) + 1
  BY <1>1
<1>5. Len(s) + 1 \in 1 .. Len(s) + 1 /\ \A i \in 1 .. Len(s) : i \in 1 .. Len(s) + 1 /\ i < Len(s) + 1
  BY <1>1
<1> HIDE DEF t
<1>6. Elements(t) = Elements(s) \cup {c}
  BY <1>1, <1>2, <1>3, <1>4, <1>5 DEF Elements
<1>7. Distinct(s) /\ c \notin Elements(s) => Distinct(t)
  BY <1>1, <1>2, <1>3, <1>4, <1>5 DEF Distinct
<1>8. ASSUME NEW M, Ordered(s, M), Before(Elements(s), {c}, M)
      PROVE  Ordered(t, M)
  <2> SUFFICES ASSUME NEW i \in 1 .. Len(s) + 1, NEW j \in 1 .. Len(s) + 1, i < j, t[i] \in M,
                      t[j] \in M
               PROVE  t[i] < t[j]
    BY <1>2 DEF Ordered
  <2>1. i \in 1 .. Len(s)
    BY <1>1
  <2>2. CASE j \in 1 .. Len(s)
    BY <1>1, <1>3, <1>8, <2>1, <2>2 DEF Ordered
  <2>3. CASE j = Len(s) + 1
    BY <1>1, <1>3, <1>8, <2>1, <2>3 DEF Before
  <2>4. QED
    BY <1>4, <2>2, <2>3
<1>9. QED
  BY <1>2, <1>6, <1>7, <1>8 DEF t

\* A command that leaves a queue.
LEMMA TailFacts ==
  ASSUME NEW s \in Seq(Nat), s # <<>>
  PROVE  /\ Tail(s) \in Seq(Nat) /\ Len(Tail(s)) = Len(s) - 1
         /\ Head(s) \in Elements(s) /\ Elements(Tail(s)) \subseteq Elements(s)
         /\ Elements(s) = Elements(Tail(s)) \cup {Head(s)}
         /\ Distinct(s) => Distinct(Tail(s)) /\ Head(s) \notin Elements(Tail(s))
         /\ \A M : Ordered(s, M) => Ordered(Tail(s), M) /\ Before({Head(s)}, Elements(Tail(s)), M)
<1> DEFINE t == Tail(s)
           n == Len(s)
<1>1. /\ n \in Nat /\ n > 0 /\ DOMAIN s = 1 .. n
      /\ \A i \in 1 .. n : s[i] \in Nat
  BY ElementsOf, EmptySeq
<1>2. t \in Seq(Nat) /\ Len(t) = n - 1 /\ DOMAIN t = 1 .. n - 1
  BY <1>1, LenProperties
<1>3. Head(s) = s[1] /\ \A i \in 1 .. n - 1 : t[i] = s[i + 1]
  BY <1>1
<1>4. /\ 1 \in 1 .. n
      /\ \A i \in 1 .. n - 1 : i + 1 \in 1 .. n /\ 1 < i + 1 /\ i + 1 # 1
      /\ \A i \in 1 .. n : i = 1 \/ (i - 1 \in 1 .. n - 1 /\ (i - 1) + 1 = i)
      /\ \A i, j \in 1 .. n - 1 : /\ i < j => i + 1 < j + 1
                                 /\ i + 1 = j + 1 => i = j
  BY <1>1
<1> HIDE DEF t, n
<1>5. Elements(s) = Elements(t) \cup {Head(s)}
  <2>1. ASSUME NEW x \in Elements(s) PROVE x \in Elements(t) \cup {Head(s)}
    <3>1. PICK i \in 1 .. n : s[i] = x
      BY <1>1 DEF Elements
    <3>2. CASE i = 1
      BY <1>3, <3>1, <3>2
    <3>3. CASE i - 1 \in 1 .. n - 1 /\ (i - 1) + 1 = i
      BY <1>2, <1>3, <3>1, <3>3, ZenonT(60) DEF Elements
    <3>4. QED
      BY <1>4, <3>2, <3>3
  <2>2. Head(s) \in Elements(s)
    BY <1>1, <1>3, <1>4 DEF Elements
  <2>3. ASSUME NEW x \in Elements(t) PROVE x \in Elements(s)
    <3>1. PICK i \in 1 .. n - 1 : t[i] = x
      BY <1>2 DEF Elements
    <3>2. i + 1 \in 1 .. n /\ s[i + 1] = x
      BY <1>3, <1>4, <3>1
    <3>3. QED
      BY <1>1, <3>2 DEF Elements
  <2>4. QED
    BY <2>1, <2>2, <2>3
<1>6. Distinct(s) => Distinct(t) /\ Head(s) \notin Elements(t)
  <2> SUFFICES ASSUME \A i, j \in 1 .. n : s[i] = s[j] => i = j
               PROVE  Distinct(t) /\ Head(s) \notin Elements(t)
    BY <1>1 DEF Distinct
  <2>1. Distinct(t)
    BY <1>2, <1>3, <1>4, SMTT(30) DEF Distinct
  <2>2. \A i \in 1 .. n - 1 : t[i] # Head(s)
    BY <1>3, <1>4
  <2>3. QED
    BY <1>2, <2>1, <2>2 DEF Elements
<1>7. ASSUME NEW M, Ordered(s, M)
      PROVE  Ordered(t, M) /\ Before({Head(s)}, Elements(t), M)
  <2>1. \A i, j \in 1 .. n : i < j /\ s[i] \in M /\ s[j] \in M => s[i] < s[j]
    BY <1>1, <1>7 DEF Ordered
  <2>2. Ordered(t, M)
    <3> SUFFICES ASSUME NEW i \in 1 .. n - 1, NEW j \in 1 .. n - 1, i < j, t[i] \in M, t[j] \in M
                 PROVE  t[i] < t[j]
      BY <1>2 DEF Ordered
    <3>1. /\ i + 1 \in 1 .. n /\ j + 1 \in 1 .. n /\ i + 1 < j + 1
          /\ t[i] = s[i + 1] /\ t[j] = s[j + 1]
      BY <1>3, <1>4
    <3>2. QED
      BY <2>1, <3>1
  <2>3. \A i \in 1 .. n - 1 : t[i] \in M /\ s[1] \in M => s[1] < t[i]
    BY <1>3, <1>4, <2>1
  <2>4. QED
    BY <1>2, <1>3, <2>2, <2>3 DEF Before, Elements
<1>8. QED
  BY <1>2, <1>5, <1>6, <1>7 DEF t, n

\* The order of a queue is that of the commands that are in it.
LEMMA OrderedIn ==
  ASSUME NEW s, NEW M, NEW N, Ordered(s, M), Elements(s) \cap N \subseteq M
  PROVE  Ordered(s, N)
BY DEF Ordered, Elements

-----------------------------------------------------------------------------
(* Types.                                                                  *)

\* Commands are numbers, and so is what the queues of an RBMS hold.
LEMMA Numbers ==
  ASSUME HubState
  PROVE  /\ Len(dst) \in Nat /\ Commands \subseteq Nat /\ Len(dst) + 1 \in Nat
         /\ \A r \in Rbms : /\ rbmsQueue[r] \in Seq(Nat) /\ delivered[r] \in Seq(Nat)
                            /\ fromRbms[r] \in Seq(Nat) /\ owed[r] \in Seq(Nat)
BY LenProperties DEF HubState, Commands

\* The capacities and the bounds are numbers, and every queue has a place.
LEMMA Caps ==
  /\ SendCap \in Nat /\ RbmsCap \in Nat /\ ReplyCap \in Nat /\ TelemetryCap \in Nat
  /\ SendCap > 0 /\ RbmsCap > 0 /\ MaxBurst \in Nat /\ MaxBreaks \in Nat /\ MaxCommands \in Nat
BY CapAssumption

\* What waits for the HMI after an answer, and after a frame of telemetry.
LEMMA AnswerWaits ==
  ASSUME replyQueue \in Seq(Replies), Len(replyQueue) <= ReplyCap, NEW c \in Nat, Answer(c)
  PROVE  /\ replyQueue' \in Seq(Replies) /\ Len(replyQueue') <= ReplyCap
         /\ \/ replyQueue' = replyQueue
            \/ replyQueue' = Append(replyQueue, [id |-> c, overtaken |-> 0])
<1>1. [id |-> c, overtaken |-> 0] \in Replies /\ Len(replyQueue) \in Nat
  BY LenProperties DEF Replies
<1>2. CASE Len(replyQueue) < ReplyCap
  <2>1. replyQueue' = Append(replyQueue, [id |-> c, overtaken |-> 0])
    BY <1>2 DEF Answer
  <2>2. Append(replyQueue, [id |-> c, overtaken |-> 0]) \in Seq(Replies)
        /\ Len(Append(replyQueue, [id |-> c, overtaken |-> 0])) = Len(replyQueue) + 1
    BY <1>1, AppendProperties
  <2>3. QED
    BY <1>1, <1>2, <2>1, <2>2, Caps
<1>3. CASE ~(Len(replyQueue) < ReplyCap)
  BY <1>3 DEF Answer
<1>4. QED
  BY <1>2, <1>3

\* Telemetry that overtakes the replies of a queue changes only their counts.
LEMMA Overtaken ==
  ASSUME NEW q \in Seq(Replies)
  PROVE  LET p == [i \in DOMAIN q |-> [q[i] EXCEPT !.overtaken = @ + 1]]
         IN  /\ p \in Seq(Replies) /\ Len(p) = Len(q) /\ DOMAIN p = DOMAIN q
             /\ \A i \in DOMAIN q : p[i].id = q[i].id /\ p[i].overtaken = q[i].overtaken + 1
<1> DEFINE p == [i \in DOMAIN q |-> [q[i] EXCEPT !.overtaken = @ + 1]]
<1>1. /\ Len(q) \in Nat /\ DOMAIN q = 1 .. Len(q)
      /\ \A i \in 1 .. Len(q) : q[i] \in Replies
  BY LenProperties, ElementOfSeq
<1>2. ASSUME NEW m \in Replies
      PROVE  LET k == [m EXCEPT !.overtaken = @ + 1]
             IN  k \in Replies /\ k.id = m.id /\ k.overtaken = m.overtaken + 1
  <2>1. m.overtaken + 1 \in Nat
    BY DEF Replies
  <2>2. QED
    BY <2>1 DEF Replies
<1>3. /\ DOMAIN p = 1 .. Len(q)
      /\ \A i \in 1 .. Len(q) : p[i] \in Replies /\ p[i].id = q[i].id
           /\ p[i].overtaken = q[i].overtaken + 1
  BY <1>1, <1>2
<1>4. p \in [1 .. Len(q) -> Replies]
  BY <1>1, <1>3
<1> HIDE DEF p
<1>5. p \in Seq(Replies) /\ Len(p) = Len(q)
  BY <1>1, <1>4, SeqDef, LenProperties
<1>6. QED
  BY <1>1, <1>3, <1>5 DEF p

\* The variables outside the path and the way back keep their types.
LEMMA HubStateStep == HubState /\ [Next]_vars => HubState'
<1> SUFFICES ASSUME HubState, [Next]_vars PROVE HubState'
  OBVIOUS
<1> USE Caps DEF HubState
<1>0. /\ Len(dst) \in Nat /\ Commands \subseteq Nat /\ Len(dst) + 1 \in Nat
      /\ \A r \in Rbms : /\ rbmsQueue[r] \in Seq(Nat) /\ delivered[r] \in Seq(Nat)
                         /\ fromRbms[r] \in Seq(Nat) /\ owed[r] \in Seq(Nat)
  BY Numbers
<1>1. CASE HmiConnect
  BY <1>1 DEF HmiConnect, linkVars, uplinkVars, pathVars
<1>2. CASE HmiClose
  BY <1>2 DEF HmiClose, linkVars, uplinkVars, pathVars
<1>3. ASSUME NEW d \in Destinations, Len(dst) < MaxCommands, dst' = Append(dst, d)
      PROVE  dst' \in Seq(Destinations) /\ Len(dst') <= MaxCommands
  BY <1>0, <1>3
<1>4. ASSUME NEW d \in Destinations, HmiSend(d)
      PROVE  HubState'
  <2>1. dst' \in Seq(Destinations) /\ Len(dst') <= MaxCommands
    BY <1>3, <1>4 DEF HmiSend
  <2>2. hmiStream' \in Seq(Nat)
    BY <1>0, <1>4 DEF HmiSend
  <2>3. QED
    BY <1>4, <2>1, <2>2 DEF HmiSend, linkVars, uplinkVars
<1>5. CASE ControlSend
  <2>1. dst' \in Seq(Destinations) /\ Len(dst') <= MaxCommands
    BY <1>3, <1>5 DEF ControlSend, Destinations
  <2>2. sendQueue' \in Seq(Nat) /\ Len(sendQueue') <= SendCap
    <3>1. CASE Len(sendQueue) < SendCap /\ sendQueue' = Append(sendQueue, Len(dst) + 1)
      BY <1>0, <3>1, AppendFacts
    <3>2. CASE sendQueue' = sendQueue
      BY <3>2
    <3>3. QED
      BY <1>5, <3>1, <3>2 DEF ControlSend
  <2>3. QED
    BY <1>5, <2>1, <2>2 DEF ControlSend, linkVars, uplinkVars
<1>6. ASSUME NEW c \in Commands, UplinkRecvForward(c)
      PROVE  HubState'
  <2>1. sendQueue' \in Seq(Nat) /\ Len(sendQueue') <= SendCap
    <3>1. CASE Len(sendQueue) < SendCap /\ sendQueue' = Append(sendQueue, c)
      BY <1>0, <3>1, AppendFacts
    <3>2. CASE sendQueue' = sendQueue
      BY <3>2
    <3>3. QED
      BY <1>6, <3>1, <3>2 DEF UplinkRecvForward
  <2>2. QED
    BY <1>6, <2>1, EmptyFacts DEF UplinkRecvForward, linkVars, uplinkVars
<1>7. ASSUME NEW c \in Nat, Answer(c)
      PROVE  replyQueue' \in Seq(Replies) /\ Len(replyQueue') <= ReplyCap
  BY <1>7, AnswerWaits
<1>8. ASSUME NEW c \in Commands, UplinkRecvSelf(c)
      PROVE  HubState'
  <2>1. replyQueue' \in Seq(Replies) /\ Len(replyQueue') <= ReplyCap
    BY <1>0, <1>7, <1>8 DEF UplinkRecvSelf
  <2>2. QED
    BY <1>8, <2>1, EmptyFacts DEF UplinkRecvSelf, linkVars, pathVars
<1>9. CASE UplinkRecvDiscard
  BY <1>9, EmptyFacts DEF UplinkRecvDiscard, linkVars, uplinkVars
<1>10. CASE DispatchDequeue
  <2>1. sendQueue' \in Seq(Nat) /\ Len(sendQueue') <= SendCap
    <3>1. Len(sendQueue) \in Nat
      BY LenProperties
    <3>2. QED
      BY <1>10, <3>1, TailFacts DEF DispatchDequeue
  <2>2. QED
    BY <1>10, <2>1 DEF DispatchDequeue, hmiVars, linkVars, uplinkVars
<1>11. ASSUME NEW c \in Commands, NEW r \in Rbms, Dispatch(c, r)
       PROVE  HubState'
  <2>1. rbmsQueue' \in [Rbms -> Seq(Nat)] /\ \A x \in Rbms : Len(rbmsQueue'[x]) <= RbmsCap
    <3>1. CASE Len(rbmsQueue[r]) < RbmsCap /\ rbmsQueue' = [rbmsQueue EXCEPT ![r] = Append(@, c)]
      <4>1. Append(rbmsQueue[r], c) \in Seq(Nat) /\ Len(Append(rbmsQueue[r], c)) <= RbmsCap
        BY <1>0, <3>1, AppendFacts, LenProperties
      <4>2. QED
        BY <3>1, <4>1
    <3>2. CASE rbmsQueue' = rbmsQueue
      BY <3>2
    <3>3. QED
      BY <1>11, <3>1, <3>2 DEF Dispatch
  <2>2. QED
    BY <1>11, <2>1 DEF Dispatch, hmiVars, linkVars, uplinkVars
<1>12. ASSUME NEW c \in Commands, DispatchNotFound(c)
       PROVE  HubState'
  BY <1>12 DEF DispatchNotFound, hmiVars, linkVars, uplinkVars
<1>13. ASSUME NEW r \in Rbms, LinkOpen(r)
       PROVE  HubState'
  <2>1. fromRbms' \in [Rbms -> Seq(Nat)] /\ owed' \in [Rbms -> Seq(Nat)]
    BY <1>13, EmptyFacts DEF LinkOpen
  <2>2. /\ link' \in [Rbms -> {"start", "open", "send", "receive"}]
        /\ socket' \in [Rbms -> {"none", "up", "closed", "reset"}]
    BY <1>13 DEF LinkOpen
  <2>3. isOnline' \in [Rbms -> BOOLEAN]
    BY <1>13 DEF LinkOpen
  <2>4. QED
    BY <1>13, <2>1, <2>2, <2>3 DEF LinkOpen, hmiVars, uplinkVars, pathVars
<1>14. ASSUME NEW r \in Rbms, LinkConnected(r)
       PROVE  HubState'
  <2>1. link' \in [Rbms -> {"start", "open", "send", "receive"}]
    BY <1>14 DEF LinkConnected
  <2>2. isOnline' \in [Rbms -> BOOLEAN] /\ isUsed' \in [Rbms -> BOOLEAN]
    BY <1>14 DEF LinkConnected
  <2>3. QED
    BY <1>14, <2>1, <2>2 DEF LinkConnected, hmiVars, uplinkVars, pathVars
<1>15. ASSUME NEW r \in Rbms, LinkNothingToSend(r)
       PROVE  HubState'
  <2>1. link' \in [Rbms -> {"start", "open", "send", "receive"}]
    BY <1>15 DEF LinkNothingToSend
  <2>2. QED
    BY <1>15, <2>1 DEF LinkNothingToSend, hmiVars, uplinkVars, pathVars
<1>16. ASSUME NEW r \in Rbms, LinkSend(r)
       PROVE  HubState'
  <2>1. Head(rbmsQueue[r]) \in Nat /\ Tail(rbmsQueue[r]) \in Seq(Nat)
          /\ Len(Tail(rbmsQueue[r])) <= RbmsCap
    <3>1. rbmsQueue[r] \in Seq(Nat) /\ rbmsQueue[r] # <<>> /\ Len(rbmsQueue[r]) \in Nat
      BY <1>0, <1>16, LenProperties DEF LinkSend
    <3>2. /\ Head(rbmsQueue[r]) \in Elements(rbmsQueue[r]) /\ Elements(rbmsQueue[r]) \subseteq Nat
          /\ Tail(rbmsQueue[r]) \in Seq(Nat) /\ Len(Tail(rbmsQueue[r])) = Len(rbmsQueue[r]) - 1
      BY <3>1, TailFacts, ElementsOf
    <3>3. QED
      BY <3>1, <3>2, SMTT(30)
  <2>2. rbmsQueue' \in [Rbms -> Seq(Nat)] /\ \A x \in Rbms : Len(rbmsQueue'[x]) <= RbmsCap
    BY <1>16, <2>1 DEF LinkSend
  <2>3. delivered' \in [Rbms -> Seq(Nat)] /\ owed' \in [Rbms -> Seq(Nat)]
    <3> DEFINE c == Head(rbmsQueue[r])
    <3>1. Append(delivered[r], c) \in Seq(Nat) /\ Append(owed[r], c) \in Seq(Nat)
      BY <1>0, <2>1, AppendFacts
    <3>2. CASE /\ delivered' = [delivered EXCEPT ![r] = Append(@, c)]
               /\ owed' = [owed EXCEPT ![r] = Append(@, c)]
      BY <3>1, <3>2
    <3>3. CASE UNCHANGED <<delivered, owed>>
      BY <3>3
    <3>4. QED
      BY <1>16, <3>2, <3>3 DEF LinkSend
  <2>4. /\ link' \in [Rbms -> {"start", "open", "send", "receive"}]
        /\ socket' \in [Rbms -> {"none", "up", "closed", "reset"}]
    BY <1>16 DEF LinkSend
  <2>5. QED
    BY <1>16, <2>2, <2>3, <2>4 DEF LinkSend, hmiVars, uplinkVars
<1>17. ASSUME NEW r \in Rbms, LinkReceive(r)
       PROVE  HubState'
  <2>1. Head(fromRbms[r]) \in Nat /\ Tail(fromRbms[r]) \in Seq(Nat)
    BY <1>0, <1>17, TailFacts, ElementsOf DEF LinkReceive
  <2>2. fromRbms' \in [Rbms -> Seq(Nat)]
    BY <1>17, <2>1 DEF LinkReceive
  <2>3. replyQueue' \in Seq(Replies) /\ Len(replyQueue') <= ReplyCap
    <3>1. CASE Answer(Head(fromRbms[r]))
      BY <1>7, <2>1, <3>1
    <3>2. CASE replyQueue' = replyQueue
      BY <3>2
    <3>3. QED
      BY <1>17, <3>1, <3>2 DEF LinkReceive
  <2>4. telemetryQueue' \in 0 .. TelemetryCap
    <3>1. telemetryQueue' \in {telemetryQueue}
            \/ (telemetryQueue < TelemetryCap /\ telemetryQueue' = telemetryQueue + 1)
      BY <1>17 DEF LinkReceive
    <3>2. QED
      BY <3>1, SMTT(30)
  <2>5. QED
    BY <1>17, <2>2, <2>3, <2>4 DEF LinkReceive, hmiVars, pathVars
<1>18. ASSUME NEW r \in Rbms, LinkSilent(r)
       PROVE  HubState'
  <2>1. link' \in [Rbms -> {"start", "open", "send", "receive"}]
    BY <1>18 DEF LinkSilent
  <2>3. burst' \in [Rbms -> 0 .. MaxBurst]
    <3>1. 0 \in 0 .. MaxBurst
      OBVIOUS
    <3>2. QED
      BY <1>18, <3>1 DEF LinkSilent
  <2>2. QED
    BY <1>18, <2>1, <2>3 DEF LinkSilent, hmiVars, uplinkVars, pathVars
<1>19. ASSUME NEW r \in Rbms, LinkError(r)
       PROVE  HubState'
  <2>1. link' \in [Rbms -> {"start", "open", "send", "receive"}]
    BY <1>19 DEF LinkError
  <2>2. isOnline' \in [Rbms -> BOOLEAN]
    BY <1>19 DEF LinkError
  <2>3. QED
    BY <1>19, <2>1, <2>2 DEF LinkError, hmiVars, uplinkVars, pathVars
<1>20. ASSUME NEW r \in Rbms, RbmsReply(r)
       PROVE  HubState'
  <2>1. /\ Head(owed[r]) \in Nat /\ Tail(owed[r]) \in Seq(Nat)
        /\ Append(fromRbms[r], Head(owed[r])) \in Seq(Nat)
    BY <1>0, <1>20, TailFacts, ElementsOf, AppendFacts DEF RbmsReply
  <2>2. fromRbms' \in [Rbms -> Seq(Nat)] /\ owed' \in [Rbms -> Seq(Nat)]
    BY <1>20, <2>1 DEF RbmsReply
  <2>3. QED
    BY <1>20, <2>2 DEF RbmsReply, hmiVars, uplinkVars, pathVars
<1>21. ASSUME NEW r \in Rbms, RbmsTelemetry(r)
       PROVE  HubState'
  <2>1. fromRbms' \in [Rbms -> Seq(Nat)]
    BY <1>0, <1>21, AppendFacts DEF RbmsTelemetry, Telemetry
  <2>2. burst' \in [Rbms -> 0 .. MaxBurst]
    <3> DEFINE v == IF Streams THEN burst[r] ELSE burst[r] + 1
    <3>1. burst' = [burst EXCEPT ![r] = v] /\ (Streams \/ burst[r] < MaxBurst)
      BY <1>21 DEF RbmsTelemetry
    <3>2. v \in 0 .. MaxBurst
      BY <3>1
    <3> HIDE DEF v
    <3>3. QED
      BY <3>1, <3>2
  <2>3. QED
    BY <1>21, <2>1, <2>2 DEF RbmsTelemetry, hmiVars, uplinkVars, pathVars
<1>22. ASSUME NEW r \in Rbms, NEW how \in {"closed", "reset"}, Break(r, how)
       PROVE  HubState'
  <2>1. socket' \in [Rbms -> {"none", "up", "closed", "reset"}] /\ breaks' \in 0 .. MaxBreaks
    <3>1. socket' = [socket EXCEPT ![r] = how] /\ breaks < MaxBreaks /\ breaks' = breaks + 1
      BY <1>22 DEF Break
    <3>2. breaks' \in 0 .. MaxBreaks
      BY <3>1
    <3>3. QED
      BY <3>1, <3>2
  <2>2. QED
    BY <1>22, <2>1 DEF Break, hmiVars, uplinkVars
<1>23. CASE SendTop
  BY <1>23 DEF SendTop, hmiVars, linkVars, pathVars
<1>24. CASE SendReply
  <2>1. /\ Tail(replyQueue) \in Seq(Replies) /\ Len(Tail(replyQueue)) <= ReplyCap
        /\ Head(replyQueue).id \in Nat
    <3>1. replyQueue # <<>> /\ Len(replyQueue) \in Nat
      BY <1>24, LenProperties DEF SendReply
    <3>2. Head(replyQueue) \in Replies /\ Tail(replyQueue) \in Seq(Replies)
            /\ Len(Tail(replyQueue)) = Len(replyQueue) - 1
      BY <3>1, HeadTailProperties
    <3>3. QED
      BY <3>1, <3>2 DEF Replies
  <2>2. answered' \in Seq(Nat)
    BY <1>24, <2>1, AppendFacts DEF SendReply
  <2>3. QED
    BY <1>24, <2>1, <2>2 DEF SendReply, hmiVars, linkVars, pathVars
<1>25. CASE SendRepliesDone
  BY <1>25 DEF SendRepliesDone, hmiVars, linkVars, pathVars
<1>26. CASE SendTelemetry
  <2>1. replyQueue' \in Seq(Replies) /\ Len(replyQueue') <= ReplyCap
    <3>1. CASE replyQueue' = [i \in DOMAIN replyQueue |-> [replyQueue[i] EXCEPT !.overtaken = @ + 1]]
      BY <3>1, Overtaken
    <3>2. CASE replyQueue' = replyQueue
      BY <3>2
    <3>3. QED
      BY <1>26, <3>1, <3>2 DEF SendTelemetry
  <2>2. telemetryQueue' \in 0 .. TelemetryCap
    BY <1>26, SMTT(30) DEF SendTelemetry
  <2>3. QED
    BY <1>26, <2>1, <2>2 DEF SendTelemetry, hmiVars, linkVars, pathVars
<1>27. CASE UNCHANGED vars
  BY <1>27 DEF vars, hmiVars, linkVars, uplinkVars, pathVars
<1>28. QED
  BY <1>1, <1>2, <1>4, <1>5, <1>6, <1>8, <1>9, <1>10, <1>11, <1>12, <1>13, <1>14, <1>15,
     <1>16, <1>17, <1>18, <1>19, <1>20, <1>21, <1>22, <1>23, <1>24, <1>25, <1>26, <1>27
     DEF Next, UplinkRecv, DispatchThread, LinkThread, UplinkSend, Environment

-----------------------------------------------------------------------------
(* The path of the commands.                                               *)

\* A command that is given gets the next number.
LEMMA NewCommand ==
  ASSUME HubState, NEW d \in Destinations, dst' = Append(dst, d)
  PROVE  LET n == Len(dst) + 1
         IN  /\ n \in Nat /\ n \notin Commands /\ Commands' = Commands \cup {n}
             /\ \A c \in Commands : dst'[c] = dst[c] /\ c < n /\ c \in Nat
             /\ dst'[n] = d
             /\ \A r : For(r)' = For(r) \cup (IF d = r THEN {n} ELSE {})
<1> DEFINE n == Len(dst) + 1
<1>1. Len(dst) \in Nat /\ dst \in Seq(Destinations) /\ n \in Nat
  BY LenProperties DEF HubState
<1>2. Len(dst') = n /\ dst'[n] = d /\ \A c \in 1 .. Len(dst) : dst'[c] = dst[c]
  BY <1>1, AppendProperties
<1>3. /\ n \notin Commands /\ Commands' = Commands \cup {n}
      /\ \A c \in Commands : dst'[c] = dst[c] /\ c < n /\ c \in Nat
  BY <1>1, <1>2 DEF Commands
<1> HIDE DEF n
<1>4. \A r : For(r)' = For(r) \cup (IF d = r THEN {n} ELSE {})
  BY <1>2, <1>3 DEF For
<1>5. QED
  BY <1>1, <1>2, <1>3, <1>4 DEF n

\* A command in one place is in no other.
LEMMA Alone ==
  ASSUME NEW c, OnePlace(c)
  PROVE  /\ c \in Elements(hmiStream) =>
              c \notin Elements(sendQueue) /\ c \notin dispatching /\ c \notin lost
              /\ c \notin InSome(rbmsQueue) /\ c \notin InSome(delivered)
         /\ c \in Elements(sendQueue) =>
              c \notin dispatching /\ c \notin lost /\ c \notin InSome(rbmsQueue)
                /\ c \notin InSome(delivered)
         /\ c \in dispatching
              => c \notin lost /\ c \notin InSome(rbmsQueue) /\ c \notin InSome(delivered)
         /\ c \in InSome(rbmsQueue) => c \notin lost /\ c \notin InSome(delivered)
         /\ c \in InSome(delivered) => c \notin lost
BY DEF OnePlace, Here

\* The commands in some queue when one of the queues changes.
LEMMA InSomeUpdated ==
  ASSUME NEW q \in [Rbms -> Seq(Nat)], NEW r \in Rbms, NEW s \in Seq(Nat)
  PROVE  /\ \A c : c \in InSome([q EXCEPT ![r] = s]) <=>
                     c \in Elements(s) \/ \E x \in Rbms \ {r} : c \in Elements(q[x])
         /\ \A c : c \in InSome(q) <=> \E x \in Rbms : c \in Elements(q[x])
<1>1. \A x \in Rbms : [q EXCEPT ![r] = s][x] = IF x = r THEN s ELSE q[x]
  OBVIOUS
<1>2. QED
  BY <1>1 DEF InSome

\* The order of the path is about commands only.
LEMMA PathOrderFor ==
  ASSUME HubState, PathMembers, NEW r \in Rbms, NEW M, NEW N, PathOrder(r, M),
         N \cap Commands \subseteq M
  PROVE  PathOrder(r, N)
<1>1. /\ Elements(delivered[r]) \subseteq Commands /\ Elements(rbmsQueue[r]) \subseteq Commands
      /\ dispatching \subseteq Commands /\ Elements(sendQueue) \subseteq Commands
      /\ Elements(hmiStream) \subseteq Commands
  BY DEF PathMembers, For
<1>2. /\ Ordered(delivered[r], N) /\ Ordered(rbmsQueue[r], N) /\ Ordered(sendQueue, N)
           /\ Ordered(hmiStream, N)
  BY <1>1 DEF PathOrder, Ordered, Elements
<1>3. \A S, T : S \subseteq Commands /\ T \subseteq Commands /\ Before(S, T, M) => Before(S, T, N)
  BY DEF Before
<1>4. QED
  BY <1>1, <1>2, <1>3 DEF PathOrder

\* The HMI sends a command.
LEMMA PathHmiSend ==
  ASSUME HubState, PathInv, NEW d \in Destinations, HmiSend(d)
  PROVE  PathInv'
<1> DEFINE n == Len(dst) + 1
<1>1. /\ dst' = Append(dst, d) /\ hmiStream' = Append(hmiStream, n)
      /\ UNCHANGED <<sendQueue, dispatching, rbmsQueue, delivered, lost>>
  BY DEF HmiSend
<1>2. /\ n \in Nat /\ n \notin Commands /\ Commands' = Commands \cup {n}
      /\ \A c \in Commands : dst'[c] = dst[c] /\ c < n /\ c \in Nat
      /\ dst'[n] = d
      /\ \A r : For(r)' = For(r) \cup (IF d = r THEN {n} ELSE {})
  BY <1>1, NewCommand
<1> HIDE DEF n
<1>3. hmiStream \in Seq(Nat) /\ Elements(hmiStream') = Elements(hmiStream) \cup {n}
  BY <1>1, <1>2, AppendFacts DEF HubState
<1>4. /\ Elements(hmiStream) \subseteq Commands /\ Elements(sendQueue) \subseteq Commands
      /\ dispatching \subseteq Commands /\ lost \subseteq Commands
      /\ \A r \in Rbms : Elements(rbmsQueue[r]) \subseteq Commands
           /\ Elements(delivered[r]) \subseteq Commands
  BY DEF PathInv, PathMembers, For
<1>5. PathMembers'
  <2>1. Distinct(hmiStream')
    BY <1>1, <1>2, <1>3, <1>4, AppendFacts DEF PathInv, PathMembers
  <2>2. \A r \in Rbms : Elements(rbmsQueue[r]) \subseteq For(r)'
          /\ Elements(delivered[r]) \subseteq For(r)'
    BY <1>2 DEF PathInv, PathMembers
  <2>3. /\ \A c \in Elements(sendQueue) : dst'[c] # Self
        /\ \A c \in dispatching : dst'[c] # Self
    BY <1>2, <1>4 DEF PathInv, PathMembers
  <2>4. QED
    BY <1>1, <1>2, <1>3, <1>4, <2>1, <2>2, <2>3 DEF PathInv, PathMembers
<1>6. ASSUME NEW r \in Rbms, NEW N, N \cap Commands \subseteq For(r)
      PROVE  PathOrder(r, N)'
  <2>1. PathOrder(r, N)
    BY <1>6, PathOrderFor DEF PathInv
  <2>2. \A S : S \subseteq Commands => Before(S, {n}, N)
    BY <1>2 DEF Before
  <2>3. Ordered(hmiStream', N)
    BY <1>1, <1>2, <1>3, <1>4, <2>1, <2>2, AppendFacts DEF PathOrder
  <2>4. \A S : S \subseteq Commands /\ Before(S, Elements(hmiStream), N)
          => Before(S, Elements(hmiStream'), N)
    BY <1>3, <2>2 DEF Before
  <2>5. QED
    BY <1>1, <1>4, <2>1, <2>3, <2>4 DEF PathOrder
<1>7. \A r \in Rbms : PathOrder(r, For(r))'
  <2>1. \A r \in Rbms : For(r)' \cap Commands \subseteq For(r)
    BY <1>2
  <2>2. QED
    BY <1>6, <2>1
<1>8. ASSUME NEW c \in Commands', dst'[c] # Self
      PROVE  OnePlace(c)'
  <2>1. InSome(rbmsQueue) \subseteq Commands /\ InSome(delivered) \subseteq Commands
    BY <1>4 DEF InSome
  <2>2. CASE c = n
    BY <1>1, <1>2, <1>3, <1>4, <2>1, <2>2 DEF OnePlace, Here
  <2>3. CASE c \in Commands
    <3>1. OnePlace(c)
      BY <1>2, <1>8, <2>3 DEF PathInv
    <3>2. c # n
      BY <1>2, <2>3
    <3>3. QED
      BY <1>1, <1>3, <3>1, <3>2 DEF OnePlace, Here
  <2>4. QED
    BY <1>2, <2>2, <2>3
<1>9. QED
  BY <1>5, <1>7, <1>8 DEF PathInv

\* The elements of all places are commands.
LEMMA PathCommands ==
  ASSUME PathMembers
  PROVE  /\ Elements(hmiStream) \subseteq Commands /\ Elements(sendQueue) \subseteq Commands
         /\ dispatching \subseteq Commands /\ lost \subseteq Commands
         /\ \A r \in Rbms : Elements(rbmsQueue[r]) \subseteq Commands
              /\ Elements(delivered[r]) \subseteq Commands
         /\ InSome(rbmsQueue) \subseteq Commands /\ InSome(delivered) \subseteq Commands
BY DEF PathMembers, For, InSome

\* A thread of the BBMS sends a command.
LEMMA PathControlSend ==
  ASSUME HubState, PathInv, ControlSend
  PROVE  PathInv'
<1> DEFINE n == Len(dst) + 1
<1>1. /\ dst' = Append(dst, Broadcast) /\ UNCHANGED <<hmiStream, dispatching, rbmsQueue, delivered>>
      /\ \/ sendQueue' = Append(sendQueue, n) /\ lost' = lost
         \/ sendQueue' = sendQueue /\ lost' = lost \cup {n}
  BY DEF ControlSend, hmiVars
<1>2. /\ n \in Nat /\ n \notin Commands /\ Commands' = Commands \cup {n}
      /\ \A c \in Commands : dst'[c] = dst[c] /\ c < n /\ c \in Nat
      /\ dst'[n] = Broadcast
      /\ \A r \in Rbms : For(r)' = For(r)
  <2>1. Broadcast \in Destinations /\ \A r \in Rbms : Broadcast # r
    BY RbmsAssumption DEF Destinations, Broadcast
  <2>2. /\ n \in Nat /\ n \notin Commands /\ Commands' = Commands \cup {n}
        /\ \A c \in Commands : dst'[c] = dst[c] /\ c < n /\ c \in Nat
        /\ dst'[n] = Broadcast
        /\ \A r : For(r)' = For(r) \cup (IF Broadcast = r THEN {n} ELSE {})
    BY <1>1, <2>1, NewCommand
  <2> HIDE DEF n
  <2>3. \A r \in Rbms : For(r)' = For(r)
    BY <2>1, <2>2
  <2>4. QED
    BY <2>2, <2>3
<1> HIDE DEF n
<1>3. /\ Elements(hmiStream) \subseteq Commands /\ Elements(sendQueue) \subseteq Commands
      /\ dispatching \subseteq Commands /\ lost \subseteq Commands
      /\ \A r \in Rbms : Elements(rbmsQueue[r]) \subseteq Commands
           /\ Elements(delivered[r]) \subseteq Commands
      /\ InSome(rbmsQueue) \subseteq Commands /\ InSome(delivered) \subseteq Commands
  BY PathCommands DEF PathInv
<1>4. sendQueue \in Seq(Nat)
  BY DEF HubState
<1>5. \/ /\ Elements(sendQueue') = Elements(sendQueue) \cup {n} /\ lost' = lost
         /\ Distinct(sendQueue')
      \/ sendQueue' = sendQueue /\ lost' = lost \cup {n}
  BY <1>1, <1>2, <1>3, <1>4, AppendFacts, ZenonT(60) DEF PathInv, PathMembers
<1>6. PathMembers'
  <2>1. \A r \in Rbms : Elements(rbmsQueue[r]) \subseteq For(r)'
          /\ Elements(delivered[r]) \subseteq For(r)'
    BY <1>2 DEF PathInv, PathMembers
  <2>2. /\ \A c \in Elements(sendQueue') : dst'[c] # Self
        /\ \A c \in dispatching : dst'[c] # Self
    BY <1>2, <1>3, <1>5 DEF PathInv, PathMembers, Broadcast, Self
  <2>3. QED
    BY <1>1, <1>2, <1>3, <1>5, <2>1, <2>2 DEF PathInv, PathMembers
<1>7. ASSUME NEW r \in Rbms
      PROVE  PathOrder(r, For(r))'
  <2>1. PathOrder(r, For(r))
    BY DEF PathInv
  <2>2. n \notin For(r)
    BY <1>2 DEF For
  <2>3. Ordered(sendQueue', For(r))
    <3>1. \A S : Before(S, {n}, For(r))
      BY <2>2 DEF Before
    <3>2. Ordered(Append(sendQueue, n), For(r))
      BY <1>2, <1>4, <2>1, <3>1, AppendFacts DEF PathOrder
    <3>3. QED
      BY <1>1, <2>1, <3>2 DEF PathOrder
  <2>4. /\ \A S : Before(S, Elements(sendQueue), For(r)) => Before(S, Elements(sendQueue'), For(r))
        /\ \A T : Before(Elements(sendQueue), T, For(r)) => Before(Elements(sendQueue'), T, For(r))
    BY <1>5, <2>2 DEF Before
  <2>5. QED
    BY <1>1, <1>2, <2>1, <2>3, <2>4 DEF PathOrder
<1>8. ASSUME NEW c \in Commands', dst'[c] # Self
      PROVE  OnePlace(c)'
  <2>1. CASE c = n
    <3>1. /\ c \notin Elements(hmiStream) /\ c \notin dispatching
          /\ c \notin InSome(rbmsQueue) /\ c \notin InSome(delivered)
          /\ c \in Elements(sendQueue') <=> c \notin lost'
      BY <1>2, <1>3, <1>5, <2>1
    <3>2. QED
      BY <1>1, <3>1 DEF OnePlace, Here
  <2>2. CASE c \in Commands
    <3>1. OnePlace(c)
      BY <1>2, <1>8, <2>2 DEF PathInv
    <3>2. /\ c \in Elements(sendQueue') <=> c \in Elements(sendQueue)
          /\ c \in lost' <=> c \in lost
      BY <1>2, <1>5, <2>2
    <3>3. QED
      BY <1>1, <3>1, <3>2 DEF OnePlace, Here
  <2>3. QED
    BY <1>2, <2>1, <2>2
<1>9. QED
  BY <1>6, <1>7, <1>8 DEF PathInv

\* Steps that give no command.
LEMMA SameCommands ==
  ASSUME UNCHANGED dst
  PROVE  Commands' = Commands /\ \A r : For(r)' = For(r)
BY DEF Commands, For

\* The receive thread empties what it read, into send_queue, or drops it.
LEMMA PathUplinkRecv ==
  ASSUME HubState, PathInv, UplinkRecv
  PROVE  PathInv'
<1>1. /\ UNCHANGED <<dst, dispatching, rbmsQueue, delivered>> /\ hmiStream' = <<>>
      /\ \/ \E c \in Commands : /\ hmiStream = <<c>> /\ ToRbms(c)
                                /\ sendQueue' = Append(sendQueue, c) /\ lost' = lost
         \/ sendQueue' = sendQueue /\ lost' = lost \cup Elements(hmiStream)
         \/ \E c \in Commands : hmiStream = <<c>> /\ dst[c] = Self /\ sendQueue' = sendQueue
              /\ lost' = lost
  <2>1. ASSUME NEW c \in Commands, UplinkRecvForward(c)
        PROVE  /\ UNCHANGED <<dst, dispatching, rbmsQueue, delivered>> /\ hmiStream' = <<>>
               /\ hmiStream = <<c>> /\ ToRbms(c)
               /\ \/ sendQueue' = Append(sendQueue, c) /\ lost' = lost
                  \/ sendQueue' = sendQueue /\ lost' = lost \cup {c}
    BY <2>1 DEF UplinkRecvForward
  <2>2. \A c : Elements(<<c>>) = {c}
    BY DEF Elements
  <2>3. ASSUME NEW c \in Commands, UplinkRecvSelf(c)
        PROVE  /\ UNCHANGED <<dst, dispatching, rbmsQueue, delivered, sendQueue, lost>>
                    /\ hmiStream' = <<>>
               /\ hmiStream = <<c>> /\ dst[c] = Self
    BY <2>3 DEF UplinkRecvSelf, pathVars
  <2>4. CASE UplinkRecvDiscard
    BY <2>4 DEF UplinkRecvDiscard, Elements
  <2>5. QED
    BY <2>1, <2>2, <2>3, <2>4 DEF UplinkRecv
<1>2. Commands' = Commands /\ \A r : For(r)' = For(r)
  BY <1>1, SameCommands
<1>3. /\ Elements(hmiStream) \subseteq Commands /\ Elements(sendQueue) \subseteq Commands
      /\ Elements(hmiStream') = {} /\ Distinct(hmiStream') /\ \A M : Ordered(hmiStream', M)
      /\ sendQueue \in Seq(Nat) /\ Commands \subseteq Nat
  BY <1>1, PathCommands, EmptyFacts, Numbers DEF PathInv, HubState
<1>4. CASE sendQueue' = sendQueue /\ lost' = lost \cup Elements(hmiStream)
  <2>1. PathMembers'
    BY <1>1, <1>2, <1>3, <1>4 DEF PathInv, PathMembers
  <2>2. ASSUME NEW r \in Rbms PROVE PathOrder(r, For(r))'
    BY <1>1, <1>2, <1>3, <1>4 DEF PathInv, PathOrder, Before
  <2>3. ASSUME NEW c \in Commands, dst[c] # Self PROVE OnePlace(c)'
    <3>1. OnePlace(c)
      BY <2>3 DEF PathInv
    <3>2. QED
      BY <1>1, <1>3, <1>4, <3>1 DEF OnePlace, Here
  <2>4. QED
    BY <1>1, <1>2, <2>1, <2>2, <2>3 DEF PathInv
<1>5. ASSUME NEW k \in Commands, hmiStream = <<k>>, dst[k] = Self, sendQueue' = sendQueue, lost' = lost
      PROVE  PathInv'
  <2>1. PathMembers'
    BY <1>1, <1>2, <1>3, <1>5 DEF PathInv, PathMembers
  <2>2. ASSUME NEW r \in Rbms PROVE PathOrder(r, For(r))'
    BY <1>1, <1>2, <1>3, <1>5 DEF PathInv, PathOrder, Before
  <2>3. ASSUME NEW c \in Commands, dst[c] # Self PROVE OnePlace(c)'
    <3>1. OnePlace(c)
      BY <2>3 DEF PathInv
    <3>2. c \notin Elements(hmiStream)
      BY <1>5, <2>3 DEF Elements
    <3>3. QED
      BY <1>1, <1>3, <1>5, <3>1, <3>2 DEF OnePlace, Here
  <2>4. QED
    BY <1>1, <1>2, <2>1, <2>2, <2>3 DEF PathInv
<1>6. ASSUME NEW k \in Commands, hmiStream = <<k>>, ToRbms(k), sendQueue' = Append(sendQueue, k),
             lost' = lost
      PROVE  PathInv'
  <2>1. Elements(hmiStream) = {k} /\ dst[k] # Self
    BY <1>6, RbmsAssumption DEF Elements, ToRbms, Broadcast, Self
  <2>2. k \notin Elements(sendQueue) /\ OnePlace(k)
    BY <2>1, Alone DEF PathInv
  <2>3. /\ Elements(sendQueue') = Elements(sendQueue) \cup {k} /\ Distinct(sendQueue')
        /\ \A M : Ordered(sendQueue, M) /\ Before(Elements(sendQueue), {k}, M)
             => Ordered(sendQueue', M)
    BY <1>3, <1>6, <2>2, AppendFacts DEF PathInv, PathMembers
  <2>4. PathMembers'
    BY <1>1, <1>2, <1>3, <1>6, <2>1, <2>3 DEF PathInv, PathMembers
  <2>5. ASSUME NEW r \in Rbms PROVE PathOrder(r, For(r))'
    <3>1. PathOrder(r, For(r))
      BY DEF PathInv
    <3>2. Ordered(sendQueue', For(r))
      BY <2>1, <2>3, <3>1 DEF PathOrder
    <3>3. \A S : Before(S, Elements(sendQueue), For(r)) /\ Before(S, Elements(hmiStream), For(r)) =>
                  Before(S, Elements(sendQueue'), For(r))
      BY <2>1, <2>3 DEF Before
    <3>4. \A S : Before(S, Elements(hmiStream'), For(r))
      BY <1>3 DEF Before
    <3>5. QED
      BY <1>1, <1>2, <1>3, <3>1, <3>2, <3>3, <3>4 DEF PathOrder
  <2>6. ASSUME NEW c \in Commands, dst[c] # Self PROVE OnePlace(c)'
    <3>1. OnePlace(c)
      BY <2>6 DEF PathInv
    <3>2. QED
      BY <1>1, <1>3, <1>6, <2>1, <2>3, <3>1 DEF OnePlace, Here
  <2>7. QED
    BY <1>1, <1>2, <2>4, <2>5, <2>6 DEF PathInv
<1>7. QED
  BY <1>1, <1>4, <1>5, <1>6

\* The dispatch thread takes a command from send_queue.
LEMMA PathDequeue ==
  ASSUME HubState, PathInv, DispatchDequeue
  PROVE  PathInv'
<1> DEFINE h == Head(sendQueue)
<1>1. /\ UNCHANGED <<dst, hmiStream, rbmsQueue, delivered, lost>>
      /\ dispatching = {} /\ sendQueue # <<>> /\ dispatching' = {h} /\ sendQueue' = Tail(sendQueue)
  BY DEF DispatchDequeue, hmiVars
<1>2. Commands' = Commands /\ \A r : For(r)' = For(r)
  BY <1>1, SameCommands
<1>3. /\ h \in Elements(sendQueue) /\ Elements(sendQueue') \subseteq Elements(sendQueue)
      /\ Elements(sendQueue) = Elements(sendQueue') \cup {h}
      /\ Distinct(sendQueue') /\ h \notin Elements(sendQueue')
      /\ \A M : Ordered(sendQueue, M) => Ordered(sendQueue', M) /\ Before({h}, Elements(sendQueue'), M)
  BY <1>1, TailFacts DEF HubState, PathInv, PathMembers
<1> HIDE DEF h
<1>4. PathMembers'
  BY <1>1, <1>2, <1>3 DEF PathInv, PathMembers
<1>5. ASSUME NEW r \in Rbms PROVE PathOrder(r, For(r))'
  <2>1. PathOrder(r, For(r))
    BY DEF PathInv
  <2>2. /\ Ordered(sendQueue', For(r)) /\ Before(dispatching', Elements(sendQueue'), For(r))
    BY <1>1, <1>3, <2>1 DEF PathOrder
  <2>3. /\ \A S : Before(S, Elements(sendQueue), For(r)) =>
                    Before(S, dispatching', For(r)) /\ Before(S, Elements(sendQueue'), For(r))
        /\ \A T : Before(Elements(sendQueue), T, For(r)) =>
                    Before(dispatching', T, For(r)) /\ Before(Elements(sendQueue'), T, For(r))
    BY <1>1, <1>3 DEF Before
  <2>4. QED
    BY <1>1, <1>2, <2>1, <2>2, <2>3 DEF PathOrder
<1>6. ASSUME NEW c \in Commands, dst[c] # Self PROVE OnePlace(c)'
  <2>1. OnePlace(c)
    BY <1>6 DEF PathInv
  <2>2. QED
    BY <1>1, <1>3, <2>1 DEF OnePlace, Here
<1>7. QED
  BY <1>1, <1>2, <1>4, <1>5, <1>6 DEF PathInv

\* The dispatch thread drops a command.
LEMMA PathDrop ==
  ASSUME HubState, PathInv, NEW c \in dispatching, lost' = lost \cup {c}, dispatching' = {},
         UNCHANGED <<dst, hmiStream, sendQueue, rbmsQueue, delivered>>
  PROVE  PathInv'
<1>1. Commands' = Commands /\ \A r : For(r)' = For(r)
  BY SameCommands
<1>2. c \in Commands /\ \A k \in dispatching : k = c
  BY DEF PathInv, PathMembers
<1>3. PathMembers'
  BY <1>1, <1>2 DEF PathInv, PathMembers
<1>4. ASSUME NEW r \in Rbms PROVE PathOrder(r, For(r))'
  BY <1>1 DEF PathInv, PathOrder, Before
<1>5. ASSUME NEW k \in Commands, dst[k] # Self PROVE OnePlace(k)'
  <2>1. OnePlace(k)
    BY <1>5 DEF PathInv
  <2>2. QED
    BY <1>2, <2>1 DEF OnePlace, Here
<1>6. QED
  BY <1>1, <1>3, <1>4, <1>5 DEF PathInv

\* The dispatch thread knows no RBMS for a command: it is dropped.
LEMMA PathNotFound ==
  ASSUME HubState, PathInv, NEW c \in Commands, DispatchNotFound(c)
  PROVE  PathInv'
BY PathDrop DEF DispatchNotFound, hmiVars

\* The dispatch thread finds the RBMS: the command joins its queue or is dropped.
LEMMA PathDispatch ==
  ASSUME HubState, PathInv, NEW c \in Commands, NEW r \in Rbms, Dispatch(c, r)
  PROVE  PathInv'
<1>1. /\ c \in dispatching /\ dst[c] = r /\ dispatching' = {}
      /\ UNCHANGED <<dst, hmiStream, sendQueue, delivered>>
      /\ \/ rbmsQueue' = [rbmsQueue EXCEPT ![r] = Append(@, c)] /\ lost' = lost
         \/ rbmsQueue' = rbmsQueue /\ lost' = lost \cup {c}
  BY DEF Dispatch, Addressed, hmiVars
<1>2. CASE rbmsQueue' = rbmsQueue /\ lost' = lost \cup {c}
  BY <1>1, <1>2, PathDrop
<1>3. CASE rbmsQueue' = [rbmsQueue EXCEPT ![r] = Append(@, c)] /\ lost' = lost
  <2> DEFINE q == Append(rbmsQueue[r], c)
  <2>1. Commands' = Commands /\ \A x : For(x)' = For(x)
    BY <1>1, SameCommands
  <2>2. /\ dispatching = {c} /\ c \in Nat /\ rbmsQueue \in [Rbms -> Seq(Nat)]
             /\ rbmsQueue[r] \in Seq(Nat)
        /\ c \in For(r)
    BY <1>1, Numbers, SMTT(30) DEF PathInv, PathMembers, HubState, For
  <2>3. /\ q \in Seq(Nat) /\ Elements(q) = Elements(rbmsQueue[r]) \cup {c}
        /\ \A M : Ordered(rbmsQueue[r], M) /\ Before(Elements(rbmsQueue[r]), {c}, M) => Ordered(q, M)
    BY <2>2, AppendFacts
  <2>4. rbmsQueue' = [rbmsQueue EXCEPT ![r] = q]
    BY <1>3
  <2> HIDE DEF q
  <2>5. rbmsQueue'[r] = q /\ \A x \in Rbms \ {r} : rbmsQueue'[x] = rbmsQueue[x]
    BY <2>2, <2>4
  <2>6. PathMembers'
    <3>1. \A x \in Rbms : Elements(rbmsQueue'[x]) \subseteq For(x)
      BY <2>2, <2>3, <2>5 DEF PathInv, PathMembers
    <3>2. QED
      BY <1>1, <1>3, <2>1, <3>1 DEF PathInv, PathMembers
  <2>7. ASSUME NEW x \in Rbms PROVE PathOrder(x, For(x))'
    <3>1. PathOrder(x, For(x))
      BY DEF PathInv
    <3>2. \A S, T, N : S = {} \/ T = {} => Before(S, T, N)
      BY DEF Before
    <3>3. CASE x # r
      BY <1>1, <2>1, <2>5, <3>1, <3>2, <3>3 DEF PathOrder
    <3>4. CASE x = r
      <4>1. Ordered(q, For(r))
        BY <2>2, <2>3, <3>1, <3>4 DEF PathOrder
      <4>2. /\ \A S : Before(S, Elements(rbmsQueue[r]), For(r)) /\ Before(S, dispatching, For(r)) =>
                        Before(S, Elements(q), For(r))
            /\ \A T : Before(Elements(rbmsQueue[r]), T, For(r)) /\ Before(dispatching, T, For(r)) =>
                        Before(Elements(q), T, For(r))
        BY <2>2, <2>3 DEF Before
      <4>3. QED
        BY <1>1, <2>1, <2>5, <3>1, <3>2, <3>4, <4>1, <4>2 DEF PathOrder
    <3>5. QED
      BY <3>3, <3>4
  <2>8. ASSUME NEW k \in Commands, dst[k] # Self PROVE OnePlace(k)'
    <3>1. OnePlace(k)
      BY <2>8 DEF PathInv
    <3>2. k \in InSome(rbmsQueue') <=> k \in InSome(rbmsQueue) \/ k = c
      <4>1. k \in InSome(rbmsQueue')
              <=> k \in Elements(q) \/ \E x \in Rbms \ {r} : k \in Elements(rbmsQueue[x])
        BY <2>2, <2>3, <2>4, InSomeUpdated
      <4>2. k \in InSome(rbmsQueue) <=> \E x \in Rbms : k \in Elements(rbmsQueue[x])
        BY DEF InSome
      <4>3. QED
        BY <2>3, <4>1, <4>2
    <3>3. QED
      BY <1>1, <1>3, <2>2, <3>1, <3>2 DEF OnePlace, Here
  <2>9. QED
    BY <1>1, <2>1, <2>6, <2>7, <2>8 DEF PathInv
<1>4. QED
  BY <1>1, <1>2, <1>3

\* A link thread sends the first command of its queue: the RBMS has it, or it is lost.
LEMMA PathLinkSend ==
  ASSUME HubState, PathInv, NEW r \in Rbms, LinkSend(r)
  PROVE  PathInv'
<1> DEFINE h == Head(rbmsQueue[r])
           q == Tail(rbmsQueue[r])
           d == Append(delivered[r], h)
<1>1. /\ rbmsQueue[r] # <<>> /\ UNCHANGED <<dst, hmiStream, sendQueue, dispatching>>
      /\ rbmsQueue' = [rbmsQueue EXCEPT ![r] = q]
      /\ \/ delivered' = [delivered EXCEPT ![r] = d] /\ lost' = lost
         \/ delivered' = delivered /\ lost' = lost \cup {h}
  BY DEF LinkSend, hmiVars
<1>2. Commands' = Commands /\ \A x : For(x)' = For(x)
  BY <1>1, SameCommands
<1>3. /\ rbmsQueue \in [Rbms -> Seq(Nat)] /\ rbmsQueue[r] \in Seq(Nat)
      /\ delivered \in [Rbms -> Seq(Nat)] /\ delivered[r] \in Seq(Nat)
  BY Numbers DEF HubState
<1>4. Distinct(rbmsQueue[r])
  <2>1. /\ Elements(rbmsQueue[r]) \subseteq For(r) /\ Ordered(rbmsQueue[r], For(r))
    BY DEF PathInv, PathMembers, PathOrder
  <2>2. \A i, j \in DOMAIN rbmsQueue[r] : i \in Nat /\ j \in Nat /\ rbmsQueue[r][i] \in Nat
          /\ rbmsQueue[r][j] \in Nat
    BY <1>3, ElementsOf
  <2>3. \A i, j \in DOMAIN rbmsQueue[r] : i < j => rbmsQueue[r][i] < rbmsQueue[r][j]
    BY <2>1 DEF Ordered, Elements
  <2>4. QED
    BY <2>2, <2>3 DEF Distinct
<1>5. /\ q \in Seq(Nat) /\ h \in Elements(rbmsQueue[r])
           /\ Elements(rbmsQueue[r]) = Elements(q) \cup {h}
      /\ h \notin Elements(q)
      /\ \A M : Ordered(rbmsQueue[r], M) => Ordered(q, M) /\ Before({h}, Elements(q), M)
  BY <1>1, <1>3, <1>4, TailFacts
<1>6. h \in Nat /\ h \in For(r) /\ h \in Commands
  <2>1. Elements(rbmsQueue[r]) \subseteq Nat
    BY <1>3, ElementsOf
  <2>2. QED
    BY <1>5, <2>1 DEF PathInv, PathMembers, For
<1>7. /\ d \in Seq(Nat) /\ Elements(d) = Elements(delivered[r]) \cup {h}
      /\ \A M : Ordered(delivered[r], M) /\ Before(Elements(delivered[r]), {h}, M) => Ordered(d, M)
  BY <1>3, <1>6, AppendFacts
<1> HIDE DEF h, q, d
<1>8. /\ rbmsQueue'[r] = q /\ \A x \in Rbms \ {r} : rbmsQueue'[x] = rbmsQueue[x]
      /\ delivered'[r] = d \/ delivered'[r] = delivered[r]
      /\ \A x \in Rbms \ {r} : delivered'[x] = delivered[x]
  BY <1>1, <1>3
<1>9. PathMembers'
  <2>1. \A x \in Rbms : Elements(rbmsQueue'[x]) \subseteq For(x)
          /\ Elements(delivered'[x]) \subseteq For(x)
    BY <1>5, <1>6, <1>7, <1>8 DEF PathInv, PathMembers
  <2>2. QED
    BY <1>1, <1>2, <1>6, <2>1 DEF PathInv, PathMembers
<1>10. ASSUME NEW x \in Rbms PROVE PathOrder(x, For(x))'
  <2>1. PathOrder(x, For(x))
    BY DEF PathInv
  <2>2. CASE x # r
    BY <1>1, <1>2, <1>8, <2>1, <2>2 DEF PathOrder
  <2>3. CASE x = r
    <3>1. /\ Ordered(q, For(r)) /\ Before({h}, Elements(q), For(r))
          /\ Before(Elements(delivered[r]), {h}, For(r))
      BY <1>5, <2>1, <2>3 DEF PathOrder, Before
    <3>2. Ordered(d, For(r)) /\ Ordered(delivered[r], For(r))
      BY <1>7, <2>1, <2>3, <3>1 DEF PathOrder
    <3>3. /\ Before(Elements(delivered[r]), Elements(q), For(r))
          /\ Before(Elements(d), Elements(q), For(r))
      BY <1>5, <1>7, <2>1, <2>3, <3>1 DEF PathOrder, Before
    <3>4. \A T : Before(Elements(delivered[r]), T, For(r))
            /\ Before(Elements(rbmsQueue[r]), T, For(r)) =>
                   Before(Elements(d), T, For(r)) /\ Before(Elements(q), T, For(r))
      BY <1>5, <1>7 DEF Before
    <3>5. QED
      BY <1>1, <1>2, <1>8, <2>1, <2>3, <3>1, <3>2, <3>3, <3>4 DEF PathOrder
  <2>4. QED
    BY <2>2, <2>3
<1>11. ASSUME NEW k \in Commands, dst[k] # Self PROVE OnePlace(k)'
  <2>1. OnePlace(k)
    BY <1>11 DEF PathInv
  <2>2. k \in InSome(rbmsQueue') <=> k \in InSome(rbmsQueue) /\ k # h
    <3>1. k \in InSome(rbmsQueue')
            <=> k \in Elements(q) \/ \E x \in Rbms \ {r} : k \in Elements(rbmsQueue[x])
      BY <1>1, <1>3, <1>5, InSomeUpdated
    <3>2. k \in InSome(rbmsQueue) <=> \E x \in Rbms : k \in Elements(rbmsQueue[x])
      BY DEF InSome
    <3>3. \A x \in Rbms \ {r} : h \notin Elements(rbmsQueue[x])
      BY <1>6 DEF PathInv, PathMembers, For
    <3>4. QED
      BY <1>5, <3>1, <3>2, <3>3
  <2>3. h \in InSome(rbmsQueue)
    BY <1>5 DEF InSome
  <2>4. CASE delivered' = [delivered EXCEPT ![r] = d] /\ lost' = lost
    <3>1. k \in InSome(delivered') <=> k \in InSome(delivered) \/ k = h
      <4>1. k \in InSome(delivered')
              <=> k \in Elements(d) \/ \E x \in Rbms \ {r} : k \in Elements(delivered[x])
        BY <1>3, <1>7, <2>4, InSomeUpdated
      <4>2. k \in InSome(delivered) <=> \E x \in Rbms : k \in Elements(delivered[x])
        BY DEF InSome
      <4>3. QED
        BY <1>7, <4>1, <4>2
    <3>2. QED
      BY <1>1, <2>1, <2>2, <2>3, <2>4, <3>1 DEF OnePlace, Here
  <2>5. CASE delivered' = delivered /\ lost' = lost \cup {h}
    BY <1>1, <2>1, <2>2, <2>3, <2>5 DEF OnePlace, Here
  <2>6. QED
    BY <1>1, <2>4, <2>5
<1>12. QED
  BY <1>1, <1>2, <1>9, <1>10, <1>11 DEF PathInv

\* The other steps leave the path alone.
LEMMA PathSame ==
  ASSUME PathInv, UNCHANGED <<dst, hmiStream, sendQueue, dispatching, rbmsQueue, delivered, lost>>
  PROVE  PathInv'
<1>1. Commands' = Commands /\ \A r : For(r)' = For(r)
  BY SameCommands
<1>2. PathMembers'
  BY <1>1 DEF PathInv, PathMembers
<1>3. \A r \in Rbms : PathOrder(r, For(r))'
  BY <1>1 DEF PathInv, PathOrder
<1>4. \A c \in Commands : dst[c] # Self => OnePlace(c)'
  BY DEF PathInv, OnePlace
<1>5. QED
  BY <1>1, <1>2, <1>3, <1>4 DEF PathInv

\* No step breaks the order of the path or puts a command in two places.
LEMMA PathStep == HubState /\ PathInv /\ [Next]_vars => PathInv'
<1> SUFFICES ASSUME HubState, PathInv, [Next]_vars PROVE PathInv'
  OBVIOUS
<1> DEFINE Same == UNCHANGED <<dst, hmiStream, sendQueue, dispatching, rbmsQueue, delivered, lost>>
<1>1. CASE HmiConnect \/ HmiClose
  <2>1. Same
    BY <1>1 DEF HmiConnect, HmiClose, pathVars
  <2>2. QED
    BY <2>1, PathSame
<1>2. CASE \E d \in Destinations : HmiSend(d)
  BY <1>2, PathHmiSend
<1>3. CASE ControlSend
  BY <1>3, PathControlSend
<1>4. CASE UplinkRecv
  BY <1>4, PathUplinkRecv
<1>5. CASE DispatchThread
  BY <1>5, PathDequeue, PathDispatch, PathNotFound DEF DispatchThread
<1>6. ASSUME NEW r \in Rbms, LinkThread(r) \/ LinkOpen(r)
      PROVE  PathInv'
  <2>1. CASE LinkSend(r)
    BY <2>1, PathLinkSend
  <2>2. CASE \/ LinkConnected(r) \/ LinkNothingToSend(r) \/ LinkReceive(r)
             \/ LinkSilent(r) \/ LinkError(r) \/ LinkOpen(r)
    <3>1. Same
      BY <2>2 DEF LinkConnected, LinkNothingToSend, LinkReceive, LinkSilent, LinkError, LinkOpen,
                  pathVars, hmiVars
    <3>2. QED
      BY <3>1, PathSame
  <2>3. QED
    BY <1>6, <2>1, <2>2 DEF LinkThread
<1>7. CASE UplinkSend
  <2>1. Same
    BY <1>7 DEF UplinkSend, SendTop, SendReply, SendRepliesDone, SendTelemetry, pathVars, hmiVars
  <2>2. QED
    BY <2>1, PathSame
<1>8. ASSUME NEW r \in Rbms,
             RbmsReply(r) \/ RbmsTelemetry(r) \/ \E how \in {"closed", "reset"} : Break(r, how)
      PROVE  PathInv'
  <2>1. Same
    BY <1>8 DEF RbmsReply, RbmsTelemetry, Break, pathVars, hmiVars
  <2>2. QED
    BY <2>1, PathSame
<1>9. CASE UNCHANGED vars
  <2>1. Same
    BY <1>9 DEF vars, pathVars, hmiVars
  <2>2. QED
    BY <2>1, PathSame
<1>10. QED
  BY <1>1, <1>2, <1>3, <1>4, <1>5, <1>6, <1>7, <1>8, <1>9 DEF Next, Environment

-----------------------------------------------------------------------------
(* The way back.                                                           *)

\* The commands whose replies wait, when a reply joins, leaves or is overtaken.
LEMMA IdsFacts ==
  ASSUME NEW q \in Seq(Replies)
  PROVE  /\ Ids(q) \in Seq(Nat) /\ Len(Ids(q)) = Len(q) /\ Len(q) \in Nat
         /\ \A i \in 1 .. Len(q) : Ids(q)[i] = q[i].id
<1>1. /\ Len(q) \in Nat /\ DOMAIN q = 1 .. Len(q)
      /\ \A i \in 1 .. Len(q) : q[i] \in Replies
  BY LenProperties, ElementOfSeq
<1>2. \A m \in Replies : m.id \in Nat
  BY DEF Replies
<1>3. Ids(q) \in [1 .. Len(q) -> Nat] /\ \A i \in 1 .. Len(q) : Ids(q)[i] = q[i].id
  BY <1>1, <1>2 DEF Ids
<1>4. Ids(q) \in Seq(Nat) /\ Len(Ids(q)) = Len(q)
  BY <1>1, <1>3, SeqDef, LenProperties
<1>5. QED
  BY <1>1, <1>3, <1>4

\* A reply that joins puts its command behind the others.
LEMMA IdsAppend ==
  ASSUME NEW q \in Seq(Replies), NEW m \in Replies
  PROVE  Ids(Append(q, m)) = Append(Ids(q), m.id)
<1> DEFINE p == Append(q, m)
           n == Len(q)
<1>1. p \in Seq(Replies) /\ Len(p) = n + 1 /\ p[n + 1] = m /\ \A i \in 1 .. n : p[i] = q[i]
  BY AppendProperties, LenProperties
<1>2. /\ Ids(q) \in Seq(Nat) /\ Len(Ids(q)) = n /\ n \in Nat
      /\ \A i \in 1 .. n : Ids(q)[i] = q[i].id
  BY IdsFacts
<1>3. /\ Ids(p) \in Seq(Nat) /\ Len(Ids(p)) = n + 1
      /\ \A i \in 1 .. n + 1 : Ids(p)[i] = p[i].id
  BY <1>1, IdsFacts
<1>4. m.id \in Nat
  BY DEF Replies
<1> DEFINE u == Ids(q)
           v == Append(u, m.id)
<1>5. /\ v \in Seq(Nat) /\ Len(v) = n + 1 /\ v[n + 1] = m.id
      /\ \A i \in 1 .. n : v[i] = u[i]
  BY <1>2, <1>4, AppendProperties
<1>6. \A i \in 1 .. n + 1 : i \in 1 .. n \/ i = n + 1
  BY <1>2
<1> HIDE DEF p, n, u, v
<1>7. \A i \in 1 .. n + 1 : Ids(p)[i] = v[i]
  BY <1>1, <1>2, <1>3, <1>5, <1>6, ZenonT(60) DEF u
<1>8. Ids(p) = v
  BY <1>3, <1>5, <1>7, SeqEqual
<1>9. QED
  BY <1>8 DEF p, v, u

\* The reply that leaves takes its command away.
LEMMA IdsTail ==
  ASSUME NEW q \in Seq(Replies), q # <<>>
  PROVE  Ids(q) # <<>> /\ Ids(Tail(q)) = Tail(Ids(q)) /\ Head(Ids(q)) = Head(q).id
<1> DEFINE p == Tail(q)
           n == Len(q)
           u == Ids(q)
           v == Tail(u)
<1>1. /\ u \in Seq(Nat) /\ Len(u) = n /\ n \in Nat
      /\ \A i \in 1 .. n : u[i] = q[i].id
  BY IdsFacts
<1>2. n > 0 /\ u # <<>> /\ Head(u) = u[1] /\ Head(q) = q[1] /\ 1 \in 1 .. n
  BY <1>1, EmptySeq
<1>3. p \in Seq(Replies) /\ Len(p) = n - 1 /\ \A i \in 1 .. n - 1 : p[i] = q[i + 1]
  BY <1>1, <1>2, HeadTailProperties
<1>4. v \in Seq(Nat) /\ Len(v) = n - 1 /\ \A i \in 1 .. n - 1 : v[i] = u[i + 1]
  BY <1>1, <1>2, HeadTailProperties
<1>5. /\ Ids(p) \in Seq(Nat) /\ Len(Ids(p)) = n - 1
      /\ \A i \in 1 .. n - 1 : Ids(p)[i] = p[i].id
  BY <1>3, IdsFacts
<1>6. \A i \in 1 .. n - 1 : i + 1 \in 1 .. n
  BY <1>1
<1> HIDE DEF p, n, u, v
<1>7. \A i \in 1 .. n - 1 : Ids(p)[i] = v[i]
  BY <1>1, <1>3, <1>4, <1>5, <1>6
<1>8. Ids(p) = v
  BY <1>4, <1>5, <1>7, SeqEqual
<1>9. QED
  BY <1>1, <1>2, <1>8 DEF p, u, v

\* An answer joins those that wait, or is dropped.
LEMMA WaitingAnswer ==
  ASSUME HubState, NEW c \in Nat, Answer(c)
  PROVE  /\ Elements(Waiting') \subseteq Elements(Waiting) \cup {c}
         /\ \A M : Ordered(Waiting, M) /\ Before(Elements(Waiting), {c}, M) => Ordered(Waiting', M)
<1> DEFINE m == [id |-> c, overtaken |-> 0]
<1>1. replyQueue \in Seq(Replies) /\ m \in Replies /\ m.id = c
  BY DEF HubState, Replies
<1>2. replyQueue' = replyQueue \/ replyQueue' = Append(replyQueue, m)
  BY AnswerWaits DEF HubState
<1> HIDE DEF m
<1>3. Waiting' = Waiting \/ Waiting' = Append(Waiting, c)
  BY <1>1, <1>2, IdsAppend DEF Waiting
<1>4. Waiting \in Seq(Nat)
  BY <1>1, IdsFacts DEF Waiting
<1>5. QED
  BY <1>3, <1>4, AppendFacts

\* What is on the way back from an RBMS was delivered to it.
LEMMA BackFacts ==
  ASSUME HubState, PathInv, AnswerInv, NEW r \in Rbms
  PROVE  /\ Elements(delivered[r]) \subseteq For(r) /\ For(r) \subseteq Commands
              /\ Telemetry \notin For(r)
         /\ Elements(answered) \subseteq Commands /\ Elements(Waiting) \subseteq Commands
         /\ Elements(fromRbms[r]) \subseteq For(r) \cup {Telemetry}
              /\ Elements(owed[r]) \subseteq For(r)
         /\ Waiting \in Seq(Nat) /\ answered \in Seq(Nat)
         /\ fromRbms \in [Rbms -> Seq(Nat)] /\ owed \in [Rbms -> Seq(Nat)]
         /\ fromRbms[r] \in Seq(Nat) /\ owed[r] \in Seq(Nat)
<1>1. Elements(delivered[r]) \subseteq For(r) /\ For(r) \subseteq Commands
  BY DEF PathInv, PathMembers, For
<1>2. Telemetry \notin Commands
  BY Numbers DEF Commands, Telemetry
<1>3. Waiting \in Seq(Nat)
  BY IdsFacts DEF HubState, Waiting
<1>4. QED
  BY <1>1, <1>2, <1>3, Numbers DEF AnswerInv, AnswerMembers, HubState

\* A step that only adds a command leaves the way back in order.
LEMMA AnswerNewCommand ==
  ASSUME HubState, PathInv, AnswerInv, NEW d \in Destinations, dst' = Append(dst, d),
         UNCHANGED <<answered, replyQueue, fromRbms, owed, delivered>>
  PROVE  AnswerInv'
<1> DEFINE n == Len(dst) + 1
<1>1. /\ n \in Nat /\ n \notin Commands /\ Commands' = Commands \cup {n} /\ n # Telemetry
      /\ \A r : For(r)' = For(r) \cup (IF d = r THEN {n} ELSE {})
  BY NewCommand, Numbers DEF Telemetry
<1> HIDE DEF n
<1>2. Waiting' = Waiting
  BY DEF Waiting
<1>3. AnswerMembers'
  BY <1>1, <1>2 DEF AnswerInv, AnswerMembers
<1>4. ASSUME NEW r \in Rbms PROVE AnswerOrder(r, For(r))'
  <2> DEFINE N == For(r)'
  <2>1. AnswerOrder(r, For(r))
    BY DEF AnswerInv
  <2>2. /\ Elements(answered) \cap N \subseteq For(r) /\ Elements(Waiting) \cap N \subseteq For(r)
        /\ Elements(fromRbms[r]) \cap N \subseteq For(r) /\ Elements(owed[r]) \cap N \subseteq For(r)
    BY <1>1, BackFacts
  <2> HIDE DEF N
  <2>3. /\ Ordered(answered, N) /\ Ordered(Waiting, N) /\ Ordered(fromRbms[r], N)
             /\ Ordered(owed[r], N)
    BY <2>1, <2>2, OrderedIn DEF AnswerOrder
  <2>4. \A S, T : Before(S, T, For(r)) /\ S \cap N \subseteq For(r) /\ T \cap N \subseteq For(r)
          => Before(S, T, N)
    BY DEF Before
  <2>5. AnswerOrder(r, N)
    BY <2>1, <2>2, <2>3, <2>4 DEF AnswerOrder
  <2>6. QED
    BY <1>2, <2>5 DEF AnswerOrder, N
<1>5. QED
  BY <1>3, <1>4 DEF AnswerInv

\* An answer of the BBMS itself.
LEMMA AnswerRecvSelf ==
  ASSUME HubState, PathInv, AnswerInv, NEW c \in Commands, UplinkRecvSelf(c)
  PROVE  AnswerInv'
<1>1. /\ UNCHANGED <<dst, answered, fromRbms, owed, delivered>> /\ Answer(c) /\ dst[c] = Self
  BY DEF UplinkRecvSelf, linkVars, pathVars
<1>2. Commands' = Commands /\ \A r : For(r)' = For(r)
  BY <1>1, SameCommands
<1>3. c \in Nat /\ \A r \in Rbms : c \notin For(r)
  BY <1>1, Numbers, RbmsAssumption DEF For, Self
<1>4. /\ Elements(Waiting') \subseteq Elements(Waiting) \cup {c}
      /\ \A M : Ordered(Waiting, M) /\ Before(Elements(Waiting), {c}, M) => Ordered(Waiting', M)
  BY <1>1, <1>3, WaitingAnswer
<1>5. AnswerMembers'
  BY <1>1, <1>2, <1>3, <1>4 DEF AnswerInv, AnswerMembers
<1>6. ASSUME NEW r \in Rbms PROVE AnswerOrder(r, For(r))'
  <2>1. AnswerOrder(r, For(r)) /\ c \notin For(r)
    BY <1>3 DEF AnswerInv
  <2>2. Ordered(Waiting', For(r))
    BY <1>4, <2>1 DEF AnswerOrder, Before
  <2>3. /\ \A S : Before(S, Elements(Waiting), For(r)) => Before(S, Elements(Waiting'), For(r))
        /\ \A T : Before(Elements(Waiting), T, For(r)) => Before(Elements(Waiting'), T, For(r))
    BY <1>4, <2>1 DEF Before
  <2>4. QED
    BY <1>1, <1>2, <2>1, <2>2, <2>3 DEF AnswerOrder
<1>7. QED
  BY <1>5, <1>6 DEF AnswerInv

\* A new connection starts with nothing on the way back.
LEMMA AnswerLinkOpen ==
  ASSUME HubState, PathInv, AnswerInv, NEW r \in Rbms, LinkOpen(r)
  PROVE  AnswerInv'
<1>1. /\ UNCHANGED <<dst, answered, replyQueue, delivered>>
      /\ fromRbms' = [fromRbms EXCEPT ![r] = <<>>] /\ owed' = [owed EXCEPT ![r] = <<>>]
  BY DEF LinkOpen, hmiVars, uplinkVars, pathVars
<1>2. /\ Commands' = Commands /\ \A x : For(x)' = For(x)
      /\ Waiting' = Waiting
  BY <1>1, SameCommands DEF Waiting
<1>3. /\ fromRbms'[r] = <<>> /\ owed'[r] = <<>>
      /\ \A x \in Rbms \ {r} : fromRbms'[x] = fromRbms[x] /\ owed'[x] = owed[x]
  BY <1>1, BackFacts
<1>4. AnswerMembers'
  BY <1>1, <1>2, <1>3, EmptyFacts DEF AnswerInv, AnswerMembers
<1>5. ASSUME NEW x \in Rbms PROVE AnswerOrder(x, For(x))'
  <2>1. AnswerOrder(x, For(x))
    BY DEF AnswerInv
  <2>2. CASE x # r
    BY <1>1, <1>2, <1>3, <2>1, <2>2 DEF AnswerOrder
  <2>3. CASE x = r
    <3>1. \A S, T, N : S = {} \/ T = {} => Before(S, T, N)
      BY DEF Before
    <3>2. QED
      BY <1>1, <1>2, <1>3, <2>1, <2>3, <3>1, EmptyFacts DEF AnswerOrder
  <2>4. QED
    BY <2>2, <2>3
<1>6. QED
  BY <1>4, <1>5 DEF AnswerInv

\* A link thread sends a command: its RBMS owes an answer to it.
LEMMA AnswerLinkSend ==
  ASSUME HubState, PathInv, AnswerInv, NEW r \in Rbms, LinkSend(r)
  PROVE  AnswerInv'
<1> DEFINE h == Head(rbmsQueue[r])
<1>1. /\ rbmsQueue[r] # <<>> /\ UNCHANGED <<dst, answered, replyQueue, fromRbms>>
      /\ \/ /\ delivered' = [delivered EXCEPT ![r] = Append(@, h)]
            /\ owed' = [owed EXCEPT ![r] = Append(@, h)]
         \/ delivered' = delivered /\ owed' = owed
  BY DEF LinkSend, hmiVars, uplinkVars
<1>2. /\ Commands' = Commands /\ \A x : For(x)' = For(x)
      /\ Waiting' = Waiting
  BY <1>1, SameCommands DEF Waiting
<1>3. CASE delivered' = delivered /\ owed' = owed
  BY <1>1, <1>2, <1>3 DEF AnswerInv, AnswerMembers, AnswerOrder
<1>4. CASE /\ delivered' = [delivered EXCEPT ![r] = Append(@, h)]
           /\ owed' = [owed EXCEPT ![r] = Append(@, h)]
  <2> DEFINE d == Append(delivered[r], h)
             o == Append(owed[r], h)
  <2>1. h \in Elements(rbmsQueue[r]) /\ h \in Nat
    BY <1>1, Numbers, TailFacts, ElementsOf
  <2>2. Elements(d) = Elements(delivered[r]) \cup {h}
    BY <2>1, Numbers, AppendFacts
  <2>3. /\ Elements(o) = Elements(owed[r]) \cup {h}
        /\ \A M : Ordered(owed[r], M) /\ Before(Elements(owed[r]), {h}, M) => Ordered(o, M)
    BY <2>1, Numbers, AppendFacts
  <2>4. delivered' = [delivered EXCEPT ![r] = d] /\ owed' = [owed EXCEPT ![r] = o]
    BY <1>4
  <2> HIDE DEF h, d, o
  <2>5. /\ delivered'[r] = d /\ owed'[r] = o
        /\ \A x \in Rbms \ {r} : delivered'[x] = delivered[x] /\ owed'[x] = owed[x]
    BY <2>4 DEF HubState
  <2>6. AnswerMembers'
    BY <1>1, <1>2, <2>2, <2>3, <2>5 DEF AnswerInv, AnswerMembers
  <2>7. ASSUME NEW x \in Rbms PROVE AnswerOrder(x, For(x))'
    <3>1. AnswerOrder(x, For(x))
      BY DEF AnswerInv
    <3>2. CASE x # r
      BY <1>1, <1>2, <2>5, <3>1, <3>2 DEF AnswerOrder
    <3>3. CASE x = r
      <4>1. /\ Before(Elements(delivered[r]), {h}, For(r))
        BY <2>1, <3>3 DEF PathInv, PathOrder, Before
      <4>2. \A S : S \cap For(r) \subseteq Elements(delivered[r]) => Before(S, {h}, For(r))
        BY <4>1 DEF Before
      <4>3. /\ Before(Elements(answered), {h}, For(r)) /\ Before(Elements(Waiting), {h}, For(r))
            /\ Before(Elements(fromRbms[r]), {h}, For(r)) /\ Before(Elements(owed[r]), {h}, For(r))
        <5>1. Telemetry \notin For(r)
          BY BackFacts
        <5>2. QED
          BY <4>2, <5>1 DEF AnswerInv, AnswerMembers
      <4>4. Ordered(o, For(r))
        BY <2>3, <3>1, <3>3, <4>3 DEF AnswerOrder
      <4>5. \A S : Before(S, Elements(owed[r]), For(r)) /\ Before(S, {h}, For(r)) =>
                     Before(S, Elements(o), For(r))
        BY <2>3 DEF Before
      <4>6. QED
        BY <1>1, <1>2, <2>5, <3>1, <3>3, <4>3, <4>4, <4>5 DEF AnswerOrder
    <3>4. QED
      BY <3>2, <3>3
  <2>8. QED
    BY <2>6, <2>7 DEF AnswerInv
<1>5. QED
  BY <1>1, <1>3, <1>4

\* A link thread takes a frame: an answer waits for the HMI then, unless it is dropped.
LEMMA AnswerLinkReceive ==
  ASSUME HubState, PathInv, AnswerInv, NEW r \in Rbms, LinkReceive(r)
  PROVE  AnswerInv'
<1> DEFINE h == Head(fromRbms[r])
           f == Tail(fromRbms[r])
<1>1. /\ fromRbms[r] # <<>> /\ UNCHANGED <<dst, answered, owed, delivered>>
      /\ fromRbms' = [fromRbms EXCEPT ![r] = f]
      /\ \/ h # Telemetry /\ Answer(h)
         \/ h = Telemetry /\ replyQueue' = replyQueue
  BY DEF LinkReceive, hmiVars, pathVars
<1>2. Commands' = Commands /\ \A x : For(x)' = For(x)
  BY <1>1, SameCommands
<1>3. /\ h \in Elements(fromRbms[r]) /\ Elements(fromRbms[r]) = Elements(f) \cup {h}
      /\ \A M : Ordered(fromRbms[r], M) => Ordered(f, M) /\ Before({h}, Elements(f), M)
  BY <1>1, Numbers, TailFacts
<1>4. h \in Nat
  BY <1>3, Numbers, ElementsOf
<1> HIDE DEF h, f
<1>5. fromRbms'[r] = f /\ \A x \in Rbms \ {r} : fromRbms'[x] = fromRbms[x]
  BY <1>1 DEF HubState
<1>6. \/ /\ Elements(Waiting') \subseteq Elements(Waiting) \cup {h} /\ h # Telemetry
         /\ \A M : Ordered(Waiting, M) /\ Before(Elements(Waiting), {h}, M) => Ordered(Waiting', M)
      \/ Waiting' = Waiting
  BY <1>1, <1>4, WaitingAnswer DEF Waiting
<1>7. \A x \in Rbms \ {r} : h \notin For(x)
  <2>1. h \in For(r) \cup {Telemetry}
    BY <1>3, BackFacts
  <2>2. \A x \in Rbms : Telemetry \notin For(x)
    BY BackFacts
  <2>3. QED
    BY <2>1, <2>2 DEF For
<1>8. AnswerMembers'
  <2>1. h # Telemetry => h \in Elements(delivered[r]) /\ h \in Commands
    BY <1>3, BackFacts DEF AnswerInv, AnswerMembers
  <2>2. Elements(Waiting') \subseteq Commands
    BY <1>6, <2>1 DEF AnswerInv, AnswerMembers
  <2>3. ASSUME NEW x \in Rbms
        PROVE  /\ Elements(Waiting') \cap For(x) \subseteq Elements(delivered[x])
               /\ Elements(fromRbms'[x]) \subseteq Elements(delivered[x]) \cup {Telemetry}
    <3>1. /\ Elements(Waiting) \cap For(x) \subseteq Elements(delivered[x])
          /\ Elements(fromRbms[x]) \subseteq Elements(delivered[x]) \cup {Telemetry}
      BY DEF AnswerInv, AnswerMembers
    <3>2. QED
      BY <1>3, <1>5, <1>6, <1>7, <2>1, <3>1
  <2>4. QED
    BY <1>1, <1>2, <2>2, <2>3 DEF AnswerInv, AnswerMembers
<1>9. ASSUME NEW x \in Rbms PROVE AnswerOrder(x, For(x))'
  <2>1. AnswerOrder(x, For(x))
    BY DEF AnswerInv
  <2>2. Before(Elements(Waiting), {h}, For(x)) /\ Before(Elements(answered), {h}, For(x))
    BY <1>3, <1>7, <2>1 DEF AnswerOrder, Before
  <2>3. Ordered(Waiting', For(x))
    BY <1>6, <2>1, <2>2 DEF AnswerOrder
  <2>4. /\ \A S : Before(S, Elements(Waiting), For(x)) /\ Before(S, {h}, For(x)) =>
                    Before(S, Elements(Waiting'), For(x))
        /\ \A T : Before(Elements(Waiting), T, For(x)) /\ Before({h}, T, For(x)) =>
                    Before(Elements(Waiting'), T, For(x))
    BY <1>6 DEF Before
  <2>5. CASE x # r
    <3>1. \A T : Before({h}, T, For(x))
      BY <1>7, <2>5 DEF Before
    <3>2. QED
      BY <1>1, <1>2, <1>5, <2>1, <2>2, <2>3, <2>4, <2>5, <3>1 DEF AnswerOrder
  <2>6. CASE x = r
    <3>1. /\ Ordered(f, For(x)) /\ Before({h}, Elements(f), For(x))
          /\ Before({h}, Elements(owed[x]), For(x))
      BY <1>3, <2>1, <2>6 DEF AnswerOrder, Before
    <3>2. /\ \A S : Before(S, Elements(fromRbms[x]), For(x)) => Before(S, Elements(f), For(x))
          /\ \A T : Before(Elements(fromRbms[x]), T, For(x)) => Before(Elements(f), T, For(x))
      BY <1>3, <2>6 DEF Before
    <3>3. QED
      BY <1>1, <1>2, <1>5, <2>1, <2>2, <2>3, <2>4, <2>6, <3>1, <3>2 DEF AnswerOrder
  <2>7. QED
    BY <2>5, <2>6
<1>10. QED
  BY <1>8, <1>9 DEF AnswerInv

\* An RBMS answers the first command it owes an answer to.
LEMMA AnswerRbmsReply ==
  ASSUME HubState, PathInv, AnswerInv, NEW r \in Rbms, RbmsReply(r)
  PROVE  AnswerInv'
<1> DEFINE h == Head(owed[r])
           o == Tail(owed[r])
           f == Append(fromRbms[r], h)
<1>1. /\ owed[r] # <<>> /\ UNCHANGED <<dst, answered, replyQueue, delivered>>
      /\ fromRbms' = [fromRbms EXCEPT ![r] = f] /\ owed' = [owed EXCEPT ![r] = o]
  BY DEF RbmsReply, hmiVars, uplinkVars, pathVars
<1>2. /\ Commands' = Commands /\ \A x : For(x)' = For(x)
      /\ Waiting' = Waiting
  BY <1>1, SameCommands DEF Waiting
<1>3. /\ h \in Elements(owed[r]) /\ Elements(owed[r]) = Elements(o) \cup {h}
      /\ \A M : Ordered(owed[r], M) => Ordered(o, M) /\ Before({h}, Elements(o), M)
  BY <1>1, Numbers, TailFacts
<1>4. h \in Nat
  BY <1>3, Numbers, ElementsOf
<1>5. /\ Elements(f) = Elements(fromRbms[r]) \cup {h}
      /\ \A M : Ordered(fromRbms[r], M) /\ Before(Elements(fromRbms[r]), {h}, M) => Ordered(f, M)
  BY <1>4, Numbers, AppendFacts
<1> HIDE DEF h, o, f
<1>6. /\ fromRbms'[r] = f /\ owed'[r] = o
      /\ \A x \in Rbms \ {r} : fromRbms'[x] = fromRbms[x] /\ owed'[x] = owed[x]
  BY <1>1 DEF HubState
<1>7. AnswerMembers'
  BY <1>1, <1>2, <1>3, <1>5, <1>6 DEF AnswerInv, AnswerMembers
<1>8. ASSUME NEW x \in Rbms PROVE AnswerOrder(x, For(x))'
  <2>1. AnswerOrder(x, For(x))
    BY DEF AnswerInv
  <2>2. CASE x # r
    BY <1>1, <1>2, <1>6, <2>1, <2>2 DEF AnswerOrder
  <2>3. CASE x = r
    <3>1. /\ Ordered(o, For(r)) /\ Before({h}, Elements(o), For(r))
          /\ Before(Elements(fromRbms[r]), {h}, For(r))
      BY <1>3, <2>1, <2>3 DEF AnswerOrder, Before
    <3>2. Ordered(f, For(r))
      BY <1>5, <2>1, <2>3, <3>1 DEF AnswerOrder
    <3>3. /\ \A S : Before(S, Elements(owed[r]), For(r)) => Before(S, Elements(o), For(r))
          /\ \A S : Before(S, Elements(fromRbms[r]), For(r)) /\ Before(S, Elements(owed[r]), For(r)) =>
                      Before(S, Elements(f), For(r))
      BY <1>3, <1>5 DEF Before
    <3>4. Before(Elements(f), Elements(o), For(r))
      BY <1>3, <1>5, <2>1, <2>3, <3>1 DEF AnswerOrder, Before
    <3>5. QED
      BY <1>1, <1>2, <1>6, <2>1, <2>3, <3>1, <3>2, <3>3, <3>4 DEF AnswerOrder
  <2>4. QED
    BY <2>2, <2>3
<1>9. QED
  BY <1>7, <1>8 DEF AnswerInv

\* An RBMS sends a frame that answers nothing.
LEMMA AnswerRbmsTelemetry ==
  ASSUME HubState, PathInv, AnswerInv, NEW r \in Rbms, RbmsTelemetry(r)
  PROVE  AnswerInv'
<1> DEFINE f == Append(fromRbms[r], Telemetry)
<1>1. /\ UNCHANGED <<dst, answered, replyQueue, owed, delivered>>
      /\ fromRbms' = [fromRbms EXCEPT ![r] = f]
  BY DEF RbmsTelemetry, hmiVars, uplinkVars, pathVars
<1>2. /\ Commands' = Commands /\ \A x : For(x)' = For(x)
      /\ Waiting' = Waiting
  BY <1>1, SameCommands DEF Waiting
<1>3. /\ Elements(f) = Elements(fromRbms[r]) \cup {Telemetry}
      /\ \A M : Ordered(fromRbms[r], M) /\ Before(Elements(fromRbms[r]), {Telemetry}, M)
           => Ordered(f, M)
  <2>1. Telemetry \in Nat
    BY DEF Telemetry
  <2>2. QED
    BY <2>1, Numbers, AppendFacts
<1> HIDE DEF f
<1>4. fromRbms'[r] = f /\ \A x \in Rbms \ {r} : fromRbms'[x] = fromRbms[x]
  BY <1>1 DEF HubState
<1>5. AnswerMembers'
  BY <1>1, <1>2, <1>3, <1>4 DEF AnswerInv, AnswerMembers
<1>6. ASSUME NEW x \in Rbms PROVE AnswerOrder(x, For(x))'
  <2>1. AnswerOrder(x, For(x)) /\ Telemetry \notin For(x)
    BY BackFacts DEF AnswerInv
  <2>2. CASE x # r
    BY <1>1, <1>2, <1>4, <2>1, <2>2 DEF AnswerOrder
  <2>3. CASE x = r
    <3>1. Ordered(f, For(x))
      BY <1>3, <2>1, <2>3 DEF AnswerOrder, Before
    <3>2. /\ \A S : Before(S, Elements(fromRbms[x]), For(x)) => Before(S, Elements(f), For(x))
          /\ \A T : Before(Elements(fromRbms[x]), T, For(x)) => Before(Elements(f), T, For(x))
      BY <1>3, <2>1, <2>3 DEF Before
    <3>3. QED
      BY <1>1, <1>2, <1>4, <2>1, <2>3, <3>1, <3>2 DEF AnswerOrder
  <2>4. QED
    BY <2>2, <2>3
<1>7. QED
  BY <1>5, <1>6 DEF AnswerInv

\* The uplink send thread sends the first reply that waits, to nobody without a client.
LEMMA AnswerSendReply ==
  ASSUME HubState, PathInv, AnswerInv, SendReply
  PROVE  AnswerInv'
<1> DEFINE h == Head(Waiting)
<1>1. /\ replyQueue # <<>> /\ replyQueue' = Tail(replyQueue)
      /\ UNCHANGED <<dst, fromRbms, owed, delivered>>
      /\ answered' = Append(answered, Head(replyQueue).id) \/ answered' = answered
  BY DEF SendReply, hmiVars, linkVars, pathVars
<1>2. Commands' = Commands /\ \A x : For(x)' = For(x)
  BY <1>1, SameCommands
<1>3. /\ Waiting \in Seq(Nat) /\ Waiting # <<>> /\ Waiting' = Tail(Waiting)
      /\ answered' = Append(answered, h) \/ answered' = answered
  BY <1>1, IdsTail, IdsFacts DEF Waiting, HubState
<1>4. /\ h \in Elements(Waiting) /\ Elements(Waiting) = Elements(Waiting') \cup {h}
      /\ \A M : Ordered(Waiting, M) => Ordered(Waiting', M) /\ Before({h}, Elements(Waiting'), M)
  BY <1>3, TailFacts
<1>5. h \in Nat /\ answered \in Seq(Nat)
  BY <1>3, <1>4, ElementsOf DEF HubState
<1>6. /\ Elements(answered') \subseteq Elements(answered) \cup {h}
      /\ \A M : Ordered(answered, M) /\ Before(Elements(answered), {h}, M) => Ordered(answered', M)
  <2>1. CASE answered' = answered
    BY <2>1
  <2>2. CASE answered' = Append(answered, h)
    <3> HIDE DEF h
    <3>1. QED
      BY <1>5, <2>2, AppendFacts
  <2>3. QED
    BY <1>3, <2>1, <2>2
<1> HIDE DEF h
<1>7. AnswerMembers'
  BY <1>1, <1>2, <1>4, <1>6 DEF AnswerInv, AnswerMembers
<1>8. ASSUME NEW r \in Rbms PROVE AnswerOrder(r, For(r))'
  <2>1. AnswerOrder(r, For(r))
    BY DEF AnswerInv
  <2>2. Before(Elements(answered), {h}, For(r)) /\ Ordered(Waiting', For(r))
        /\ Before({h}, Elements(Waiting'), For(r))
    BY <1>4, <2>1 DEF AnswerOrder, Before
  <2>3. Ordered(answered', For(r))
    BY <1>6, <2>1, <2>2 DEF AnswerOrder
  <2>4. Before(Elements(answered'), Elements(Waiting'), For(r))
    BY <1>4, <1>6, <2>1, <2>2 DEF AnswerOrder, Before
  <2>5. \A T : Before(Elements(answered), T, For(r)) /\ Before(Elements(Waiting), T, For(r)) =>
                 Before(Elements(answered'), T, For(r)) /\ Before(Elements(Waiting'), T, For(r))
    BY <1>4, <1>6 DEF Before
  <2>6. QED
    BY <1>1, <1>2, <2>1, <2>2, <2>3, <2>4, <2>5 DEF AnswerOrder
<1>9. QED
  BY <1>7, <1>8 DEF AnswerInv

\* The other steps leave the way back alone, the commands that wait at least.
LEMMA AnswerSame ==
  ASSUME AnswerInv, UNCHANGED <<dst, answered, Waiting, fromRbms, owed, delivered>>
  PROVE  AnswerInv'
<1>1. Commands' = Commands /\ \A r : For(r)' = For(r)
  BY SameCommands
<1>2. AnswerMembers'
  BY <1>1 DEF AnswerInv, AnswerMembers
<1>3. \A r \in Rbms : AnswerOrder(r, For(r))'
  BY <1>1 DEF AnswerInv, AnswerOrder
<1>4. QED
  BY <1>2, <1>3 DEF AnswerInv

\* Telemetry that overtakes the replies changes none of them.
LEMMA AnswerSendTelemetry ==
  ASSUME HubState, AnswerInv, SendTelemetry
  PROVE  AnswerInv'
<1>1. /\ UNCHANGED <<dst, answered, fromRbms, owed, delivered>>
      /\ \/ replyQueue' = [i \in DOMAIN replyQueue |-> [replyQueue[i] EXCEPT !.overtaken = @ + 1]]
         \/ replyQueue' = replyQueue
  BY DEF SendTelemetry, hmiVars, linkVars, pathVars
<1>2. CASE replyQueue' = [i \in DOMAIN replyQueue |-> [replyQueue[i] EXCEPT !.overtaken = @ + 1]]
  <2> DEFINE p == [i \in DOMAIN replyQueue |-> [replyQueue[i] EXCEPT !.overtaken = @ + 1]]
  <2>1. /\ p \in Seq(Replies) /\ Len(p) = Len(replyQueue) /\ DOMAIN p = DOMAIN replyQueue
        /\ \A i \in DOMAIN replyQueue : p[i].id = replyQueue[i].id
    BY Overtaken DEF HubState
  <2> HIDE DEF p
  <2>2. Ids(p) = Ids(replyQueue)
    BY <2>1 DEF Ids
  <2>3. Waiting' = Waiting
    BY <1>2, <2>2 DEF Waiting, p
  <2>4. QED
    BY <1>1, <2>3, AnswerSame
<1>3. CASE replyQueue' = replyQueue
  <2>1. Waiting' = Waiting
    BY <1>3 DEF Waiting
  <2>2. QED
    BY <1>1, <2>1, AnswerSame
<1>4. QED
  BY <1>1, <1>2, <1>3

\* No step breaks the order of the way back, or answers what was not delivered.
LEMMA AnswerStep == HubState /\ PathInv /\ AnswerInv /\ [Next]_vars => AnswerInv'
<1> SUFFICES ASSUME HubState, PathInv, AnswerInv, [Next]_vars PROVE AnswerInv'
  OBVIOUS
<1> DEFINE Same == UNCHANGED <<dst, answered, replyQueue, fromRbms, owed, delivered>>
<1>1. ASSUME Same PROVE AnswerInv'
  <2>1. Waiting' = Waiting
    BY <1>1 DEF Waiting
  <2>2. QED
    BY <1>1, <2>1, AnswerSame
<1>2. CASE HmiConnect \/ HmiClose
  <2>1. Same
    BY <1>2 DEF HmiConnect, HmiClose, linkVars, uplinkVars, pathVars
  <2>2. QED
    BY <1>1, <2>1
<1>3. ASSUME NEW d \in Destinations, HmiSend(d) PROVE AnswerInv'
  <2>1. dst' = Append(dst, d) /\ UNCHANGED <<answered, replyQueue, fromRbms, owed, delivered>>
    BY <1>3 DEF HmiSend, linkVars, uplinkVars
  <2>2. QED
    BY <2>1, AnswerNewCommand
<1>4. CASE ControlSend
  <2>1. /\ dst' = Append(dst, Broadcast) /\ Broadcast \in Destinations
        /\ UNCHANGED <<answered, replyQueue, fromRbms, owed, delivered>>
    BY <1>4 DEF ControlSend, linkVars, uplinkVars, Destinations
  <2>2. QED
    BY <2>1, AnswerNewCommand
<1>5. CASE UplinkRecv
  <2>1. ASSUME NEW c \in Commands, UplinkRecvForward(c) PROVE Same
    BY <2>1 DEF UplinkRecvForward, linkVars, uplinkVars
  <2>2. CASE UplinkRecvDiscard
    <3>1. Same
      BY <2>2 DEF UplinkRecvDiscard, linkVars, uplinkVars
    <3>2. QED
      BY <1>1, <3>1
  <2>3. QED
    BY <1>1, <1>5, <2>1, <2>2, AnswerRecvSelf DEF UplinkRecv
<1>6. CASE DispatchThread
  <2>1. ASSUME DispatchDequeue PROVE Same
    BY <2>1 DEF DispatchDequeue, hmiVars, linkVars, uplinkVars
  <2>2. ASSUME NEW c \in Commands, NEW r \in Rbms, Dispatch(c, r) PROVE Same
    BY <2>2 DEF Dispatch, hmiVars, linkVars, uplinkVars
  <2>3. ASSUME NEW c \in Commands, DispatchNotFound(c) PROVE Same
    BY <2>3 DEF DispatchNotFound, hmiVars, linkVars, uplinkVars
  <2>4. Same
    BY <1>6, <2>1, <2>2, <2>3 DEF DispatchThread
  <2>5. QED
    BY <1>1, <2>4
<1>7. ASSUME NEW r \in Rbms, LinkThread(r) \/ LinkOpen(r)
      PROVE  AnswerInv'
  <2>1. CASE LinkSend(r) \/ LinkReceive(r) \/ LinkOpen(r)
    BY <2>1, AnswerLinkSend, AnswerLinkReceive, AnswerLinkOpen
  <2>2. CASE LinkConnected(r) \/ LinkNothingToSend(r) \/ LinkSilent(r) \/ LinkError(r)
    <3>1. Same
      BY <2>2 DEF LinkConnected, LinkNothingToSend, LinkSilent, LinkError, pathVars, hmiVars,
         uplinkVars
    <3>2. QED
      BY <1>1, <3>1
  <2>3. QED
    BY <1>7, <2>1, <2>2 DEF LinkThread
<1>8. CASE UplinkSend
  <2>1. CASE SendTop \/ SendRepliesDone
    <3>1. Same
      BY <2>1 DEF SendTop, SendRepliesDone, pathVars, hmiVars, linkVars
    <3>2. QED
      BY <1>1, <3>1
  <2>2. QED
    BY <1>8, <2>1, AnswerSendReply, AnswerSendTelemetry DEF UplinkSend
<1>9. ASSUME NEW r \in Rbms,
             RbmsReply(r) \/ RbmsTelemetry(r) \/ \E how \in {"closed", "reset"} : Break(r, how)
      PROVE  AnswerInv'
  <2>1. CASE \E how \in {"closed", "reset"} : Break(r, how)
    <3>1. Same
      BY <2>1 DEF Break, hmiVars, uplinkVars
    <3>2. QED
      BY <1>1, <3>1
  <2>2. QED
    BY <1>9, <2>1, AnswerRbmsReply, AnswerRbmsTelemetry
<1>10. CASE UNCHANGED vars
  <2>1. Same
    BY <1>10 DEF vars, pathVars, hmiVars, linkVars, uplinkVars
  <2>2. QED
    BY <1>1, <2>1
<1>11. QED
  BY <1>2, <1>3, <1>4, <1>5, <1>6, <1>7, <1>8, <1>9, <1>10 DEF Next, Environment

-----------------------------------------------------------------------------
(* Replies and telemetry.                                                  *)

\* No step lets a second telemetry frame overtake a reply that waits.
LEMMA ReplyStep == HubState /\ ReplyInv /\ [Next]_vars => ReplyInv'
<1> SUFFICES ASSUME HubState, ReplyInv, [Next]_vars PROVE ReplyInv'
  OBVIOUS
<1>0. /\ replyQueue \in Seq(Replies) /\ Len(replyQueue) \in Nat
           /\ DOMAIN replyQueue = 1 .. Len(replyQueue)
      /\ \A i \in DOMAIN replyQueue : replyQueue[i] \in Replies /\ replyQueue[i].overtaken \in Nat
  <2>1. replyQueue \in Seq(Replies)
    BY DEF HubState
  <2>2. \A m \in Replies : m.overtaken \in Nat
    BY DEF Replies
  <2>3. QED
    BY <2>1, <2>2, LenProperties, ElementOfSeq
<1>1. ASSUME replyQueue' = replyQueue, uplink' = uplink
      PROVE  ReplyInv'
  BY <1>1 DEF ReplyInv
<1>2. ASSUME NEW c \in Nat, Answer(c), uplink' = uplink
      PROVE  ReplyInv'
  <2> DEFINE m == [id |-> c, overtaken |-> 0]
  <2>1. m \in Replies /\ m.overtaken = 0
    BY DEF Replies
  <2>2. replyQueue' = replyQueue \/ replyQueue' = Append(replyQueue, m)
    BY <1>0, <1>2, AnswerWaits DEF HubState
  <2> HIDE DEF m
  <2>3. CASE replyQueue' = Append(replyQueue, m)
    <3>1. /\ DOMAIN replyQueue' = 1 .. Len(replyQueue) + 1 /\ replyQueue'[Len(replyQueue) + 1] = m
          /\ \A i \in 1 .. Len(replyQueue) : replyQueue'[i] = replyQueue[i]
          /\ \A i \in 1 .. Len(replyQueue) + 1 : i \in 1 .. Len(replyQueue) \/ i = Len(replyQueue) + 1
      BY <1>0, <2>1, <2>3, AppendProperties, LenProperties
    <3>2. QED
      BY <1>0, <1>2, <2>1, <3>1 DEF ReplyInv
  <2>4. QED
    BY <1>1, <1>2, <2>2, <2>3
<1>3. CASE SendTop
  BY <1>3 DEF SendTop, ReplyInv
<1>4. CASE SendReply
  <2>1. /\ replyQueue # <<>> /\ replyQueue' = Tail(replyQueue) /\ uplink' = uplink
    BY <1>4 DEF SendReply
  <2>2. /\ DOMAIN replyQueue' = 1 .. Len(replyQueue) - 1
        /\ \A i \in 1 .. Len(replyQueue) - 1 : replyQueue'[i] = replyQueue[i + 1]
        /\ \A i \in 1 .. Len(replyQueue) - 1 : i + 1 \in 1 .. Len(replyQueue)
    BY <1>0, <2>1, HeadTailProperties, LenProperties
  <2>3. QED
    BY <1>0, <2>1, <2>2 DEF ReplyInv
<1>5. CASE SendRepliesDone
  BY <1>5 DEF SendRepliesDone, ReplyInv
<1>6. CASE SendTelemetry
  <2>1. /\ uplink = "telemetry" /\ uplink' = "top"
        /\ \/ replyQueue' = [i \in DOMAIN replyQueue |-> [replyQueue[i] EXCEPT !.overtaken = @ + 1]]
           \/ replyQueue' = replyQueue
    BY <1>6 DEF SendTelemetry
  <2>2. \A i \in DOMAIN replyQueue : replyQueue[i].overtaken = 0
    BY <1>0, <2>1 DEF ReplyInv
  <2>3. CASE replyQueue' = [i \in DOMAIN replyQueue |-> [replyQueue[i] EXCEPT !.overtaken = @ + 1]]
    <3>1. /\ DOMAIN replyQueue' = DOMAIN replyQueue
          /\ \A i \in DOMAIN replyQueue : replyQueue'[i].overtaken = replyQueue[i].overtaken + 1
      BY <1>0, <2>3, Overtaken
    <3>2. QED
      BY <2>1, <2>2, <3>1 DEF ReplyInv
  <2>4. CASE replyQueue' = replyQueue
    BY <2>1, <2>2, <2>4 DEF ReplyInv
  <2>5. QED
    BY <2>1, <2>3, <2>4
<1>7. ASSUME NEW c \in Commands, UplinkRecvSelf(c) PROVE ReplyInv'
  BY <1>2, <1>7, Numbers DEF UplinkRecvSelf
<1>8. ASSUME NEW r \in Rbms, LinkReceive(r) PROVE ReplyInv'
  <2>1. Head(fromRbms[r]) \in Nat
    BY <1>8, Numbers, TailFacts, ElementsOf DEF LinkReceive
  <2>2. Answer(Head(fromRbms[r])) \/ replyQueue' = replyQueue
    BY <1>8 DEF LinkReceive
  <2>3. uplink' = uplink
    BY <1>8 DEF LinkReceive
  <2>4. QED
    BY <1>1, <1>2, <2>1, <2>2, <2>3
<1>9. CASE UNCHANGED uplinkVars
  BY <1>1, <1>9 DEF uplinkVars
<1>10. CASE UplinkRecv
  BY <1>7, <1>9, <1>10 DEF UplinkRecv, UplinkRecvForward, UplinkRecvDiscard
<1>11. CASE DispatchThread
  BY <1>9, <1>11 DEF DispatchThread, DispatchDequeue, Dispatch, DispatchNotFound
<1>12. ASSUME NEW r \in Rbms, LinkThread(r) PROVE ReplyInv'
  BY <1>8, <1>9, <1>12 DEF LinkThread, LinkConnected, LinkNothingToSend, LinkSend, LinkSilent,
     LinkError
<1>13. CASE Environment
  BY <1>9, <1>13 DEF Environment, HmiConnect, HmiClose, HmiSend, ControlSend, LinkOpen, RbmsReply,
                     RbmsTelemetry, Break
<1>14. CASE UNCHANGED vars
  BY <1>9, <1>14 DEF vars
<1>15. QED
  BY <1>3, <1>4, <1>5, <1>6, <1>10, <1>11, <1>12, <1>13, <1>14 DEF Next, UplinkSend

-----------------------------------------------------------------------------
(* Sheltered commands.                                                     *)

\* No link has anything to send.
NoneQueued == \A r \in Rbms : rbmsQueue[r] = <<>>

\* Where a sheltered command is.
LEMMA ShelterFacts ==
  ASSUME HubState, PathInv, ShelterInv, NEW c \in sheltered
  PROVE  /\ c \in Commands /\ dst[c] \in Rbms /\ dst[c] < SubLimit /\ dst[c] # Self
         /\ c \notin lost
         /\ c \in Elements(hmiStream) =>
              /\ hmiStream = <<c>> /\ sendQueue = <<>> /\ dispatching = {} /\ NoneQueued
         /\ c \in dispatching => /\ dispatching = {c} /\ NoneQueued
                                 /\ Connected(dst[c])
         /\ \A r \in Rbms : c \in Elements(rbmsQueue[r]) => Connected(dst[c])
<1>1. /\ c \in Commands /\ dst[c] \in Rbms /\ dst[c] < SubLimit /\ c \notin lost
      /\ c \in Elements(delivered[dst[c]]) \/ (Connected(dst[c]) /\ ClearPath(c))
  BY DEF ShelterInv
<1>2. dst[c] # Self
  BY <1>1, RbmsAssumption DEF Self
<1>3. OnePlace(c)
  BY <1>1, <1>2 DEF PathInv
<1>4. c \in Elements(delivered[dst[c]]) => c \in InSome(delivered)
  BY <1>1 DEF InSome
<1>5. \A r \in Rbms : c \in Elements(rbmsQueue[r]) => c \in InSome(rbmsQueue)
  BY DEF InSome
<1>6. /\ sendQueue # <<>> => Head(sendQueue) \in Elements(sendQueue)
      /\ rbmsQueue[dst[c]] # <<>> => Head(rbmsQueue[dst[c]]) \in Elements(rbmsQueue[dst[c]])
  BY <1>1, Numbers, TailFacts DEF HubState
<1>7. ClearPath(c) <=>
        \/ hmiStream = <<c>> /\ sendQueue = <<>> /\ dispatching = {} /\ NoneQueued
        \/ sendQueue # <<>> /\ Head(sendQueue) = c /\ dispatching = {} /\ NoneQueued
        \/ dispatching = {c} /\ NoneQueued
        \/ rbmsQueue[dst[c]] # <<>> /\ Head(rbmsQueue[dst[c]]) = c
  BY DEF ClearPath, NoneQueued
<1>8. /\ c \in Elements(hmiStream) =>
            c \notin Elements(sendQueue) /\ c \notin dispatching /\ c \notin InSome(rbmsQueue)
              /\ c \notin InSome(delivered)
      /\ c \in dispatching =>
            c \notin Elements(hmiStream) /\ c \notin Elements(sendQueue) /\ c \notin InSome(rbmsQueue)
              /\ c \notin InSome(delivered)
      /\ c \in InSome(rbmsQueue) => c \notin InSome(delivered)
  BY <1>3, Alone
<1>9. Elements(<<c>>) = {c}
  BY DEF Elements
<1>10. /\ c \in Elements(hmiStream) =>
             /\ hmiStream = <<c>> /\ sendQueue = <<>> /\ dispatching = {} /\ NoneQueued
  BY <1>1, <1>4, <1>5, <1>6, <1>7, <1>8
<1>11. c \in dispatching => dispatching = {c} /\ NoneQueued /\ Connected(dst[c])
  BY <1>1, <1>4, <1>5, <1>6, <1>7, <1>8, <1>9
<1>12. \A r \in Rbms : c \in Elements(rbmsQueue[r]) => Connected(dst[c])
  BY <1>1, <1>4, <1>5, <1>8
<1>13. QED
  BY <1>1, <1>2, <1>10, <1>11, <1>12

\* The invariant, for one command at a time.
LEMMA ShelterNext ==
  ASSUME sheltered' \subseteq Commands',
         \A r \in Rbms : link'[r] \in {"send", "receive"} => isUsed'[r],
         \A c \in sheltered' :
           /\ dst'[c] \in Rbms /\ dst'[c] < SubLimit /\ c \notin lost'
           /\ c \in Elements(delivered'[dst'[c]])
              \/ (link'[dst'[c]] \in {"send", "receive"} /\ socket'[dst'[c]] = "up" /\ ClearPath(c)')
  PROVE  ShelterInv'
BY DEF ShelterInv, Connected

\* A step of the links alone.
LEMMA ShelterLinks ==
  ASSUME ShelterInv, UNCHANGED <<dst, hmiStream, sendQueue, dispatching, rbmsQueue, delivered, lost>>,
         sheltered' \subseteq sheltered,
         \A r \in Rbms : link'[r] \in {"send", "receive"} => isUsed'[r],
         \A c \in sheltered' : dst[c] \in Rbms /\ Connected(dst[c]) =>
                                 link'[dst[c]] \in {"send", "receive"} /\ socket'[dst[c]] = "up"
  PROVE  ShelterInv'
<1>1. Commands' = Commands
  BY DEF Commands
<1>2. \A c \in sheltered' : ClearPath(c) => ClearPath(c)'
  BY DEF ClearPath
<1>3. QED
  BY <1>1, <1>2, ShelterNext DEF ShelterInv

\* A step that moves commands: the links and what was delivered stay.
LEMMA ShelterMoves ==
  ASSUME ShelterInv, UNCHANGED <<dst, link, isUsed, socket, delivered, sheltered>>,
         \A c \in sheltered : c \notin lost' /\ (dst[c] \in Rbms /\ ClearPath(c) => ClearPath(c)')
  PROVE  ShelterInv'
<1>1. Commands' = Commands
  BY DEF Commands
<1>2. \A c \in sheltered : /\ dst[c] \in Rbms /\ dst[c] < SubLimit
                           /\ c \in Elements(delivered[dst[c]]) \/ (Connected(dst[c]) /\ ClearPath(c))
  BY DEF ShelterInv
<1>3. \A r \in Rbms : link'[r] \in {"send", "receive"} => isUsed'[r]
  BY DEF ShelterInv
<1>4. sheltered' \subseteq Commands'
  BY <1>1 DEF ShelterInv
<1>5. QED
  BY <1>2, <1>3, <1>4, ShelterNext DEF Connected

\* The head of a queue stays when a command joins it.
LEMMA HeadStays ==
  ASSUME NEW s \in Seq(Nat), NEW c \in Nat
  PROVE  /\ Append(s, c) # <<>>
         /\ s # <<>> => Head(Append(s, c)) = Head(s)
         /\ s = <<>> => Head(Append(s, c)) = c /\ Len(s) = 0
<1>1. Append(s, c) \in Seq(Nat) /\ Len(Append(s, c)) = Len(s) + 1 /\ Len(s) \in Nat
  BY LenProperties, AppendProperties
<1>2. Append(s, c) # <<>> /\ Head(Append(s, c)) = Append(s, c)[1]
  BY <1>1, EmptySeq
<1>3. CASE s # <<>>
  <2>1. Len(s) > 0 /\ Head(s) = s[1] /\ 1 \in 1 .. Len(s)
    BY <1>1, <1>3, EmptySeq
  <2>2. QED
    BY <1>2, <1>3, <2>1, AppendProperties
<1>4. CASE s = <<>>
  BY <1>2, <1>4
<1>5. QED
  BY <1>2, <1>3, <1>4

\* The new command is sheltered when nothing is on the way: every place is empty.
LEMMA NothingOnTheWay ==
  ASSUME HubState, PathInv, NEW d, Undisturbed(d)
  PROVE  sendQueue = <<>> /\ dispatching = {} /\ NoneQueued
<1>1. \A c \in Commands : dst[c] # Self => c \in lost \/ c \in InSome(delivered)
  BY DEF Undisturbed, InSome, Elements
<1>2. \A c \in Commands : dst[c] # Self => OnePlace(c)
  BY DEF PathInv
<1>3. \A c \in Commands : dst[c] # Self =>
        c \notin Elements(sendQueue) /\ c \notin dispatching /\ c \notin InSome(rbmsQueue)
  BY <1>1, <1>2, Alone
<1>4. Elements(sendQueue) = {} /\ dispatching = {}
  BY <1>3 DEF PathInv, PathMembers
<1>5. \A r \in Rbms : Elements(rbmsQueue[r]) = {}
  <2>1. \A r \in Rbms : For(r) \subseteq Commands /\ \A c \in For(r) : dst[c] # Self
    BY RbmsAssumption DEF For, Self
  <2>2. QED
    BY <1>3, <2>1 DEF PathInv, PathMembers, InSome
<1>6. \A s \in Seq(Nat) : Elements(s) = {} => s = <<>>
  BY TailFacts
<1>7. QED
  BY <1>4, <1>5, <1>6, Numbers DEF NoneQueued, HubState

\* The HMI sends a command: what it disturbs is no longer sheltered.
LEMMA ShelterHmiSend ==
  ASSUME HubState, PathInv, ShelterInv, NEW d \in Destinations, HmiSend(d)
  PROVE  ShelterInv'
<1> DEFINE n == Len(dst) + 1
<1>1. /\ dst' = Append(dst, d) /\ hmiStream' = Append(hmiStream, n)
      /\ sheltered' = (IF Undisturbed(d) THEN sheltered \cup {n} ELSE sheltered) \ Elements(hmiStream)
      /\ UNCHANGED <<sendQueue, dispatching, rbmsQueue, delivered, lost, link, isUsed, socket>>
  BY DEF HmiSend, linkVars, Elements
<1>2. /\ n \in Nat /\ n \notin Commands /\ Commands' = Commands \cup {n}
      /\ \A c \in Commands : dst'[c] = dst[c]
      /\ dst'[n] = d
  BY <1>1, NewCommand
<1> HIDE DEF n
<1>3. sheltered' \subseteq Commands'
  BY <1>1, <1>2 DEF ShelterInv
<1>4. ASSUME NEW c \in sheltered', c \in sheltered
      PROVE  /\ dst'[c] \in Rbms /\ dst'[c] < SubLimit /\ c \notin lost'
             /\ c \in Elements(delivered'[dst'[c]])
                \/ (link'[dst'[c]] \in {"send", "receive"} /\ socket'[dst'[c]] = "up" /\ ClearPath(c)')
  <2>1. c \in Commands /\ dst'[c] = dst[c] /\ c \notin Elements(hmiStream)
    BY <1>1, <1>2, <1>4 DEF ShelterInv
  <2>2. /\ dst[c] \in Rbms /\ dst[c] < SubLimit /\ c \notin lost
        /\ c \in Elements(delivered[dst[c]]) \/ (Connected(dst[c]) /\ ClearPath(c))
    BY <1>4 DEF ShelterInv
  <2>3. hmiStream # <<c>>
    BY <2>1 DEF Elements
  <2>4. ClearPath(c) => ClearPath(c)'
    BY <1>1, <2>1, <2>3 DEF ClearPath
  <2>5. QED
    BY <1>1, <2>1, <2>2, <2>4 DEF Connected
<1>5. ASSUME NEW c \in sheltered', c \notin sheltered
      PROVE  /\ dst'[c] \in Rbms /\ dst'[c] < SubLimit /\ c \notin lost'
             /\ link'[dst'[c]] \in {"send", "receive"} /\ socket'[dst'[c]] = "up" /\ ClearPath(c)'
  <2>1. c = n /\ Undisturbed(d)
    BY <1>1, <1>5
  <2>2. d \in Rbms /\ d < SubLimit /\ Connected(d) /\ hmiStream = <<>>
    BY <2>1 DEF Undisturbed
  <2>3. sendQueue = <<>> /\ dispatching = {} /\ NoneQueued
    BY <2>1, NothingOnTheWay
  <2>4. hmiStream' = <<c>>
    BY <1>1, <2>1, <2>2
  <2>5. ClearPath(c)'
    BY <1>1, <2>3, <2>4 DEF ClearPath, NoneQueued
  <2>6. c \notin lost
    BY <1>2, <2>1 DEF PathInv, PathMembers
  <2>7. QED
    BY <1>1, <1>2, <2>1, <2>2, <2>5, <2>6 DEF Connected
<1>6. \A r \in Rbms : link'[r] \in {"send", "receive"} => isUsed'[r]
  BY <1>1 DEF ShelterInv
<1>7. QED
  BY <1>3, <1>4, <1>5, <1>6, ShelterNext

\* A thread of the BBMS sends a command, behind those that are queued.
LEMMA ShelterControlSend ==
  ASSUME HubState, PathInv, ShelterInv, ControlSend
  PROVE  ShelterInv'
<1> DEFINE n == Len(dst) + 1
<1>1. /\ dst' = Append(dst, Broadcast)
      /\ \/ sendQueue' = Append(sendQueue, n) /\ lost' = lost
         \/ sendQueue' = sendQueue /\ lost' = lost \cup {n}
      /\ sheltered' = sheltered \ Elements(hmiStream)
      /\ UNCHANGED <<hmiStream, dispatching, rbmsQueue, delivered, link, isUsed, socket>>
  BY DEF ControlSend, linkVars, Elements
<1>2. /\ n \in Nat /\ n \notin Commands /\ Commands' = Commands \cup {n}
      /\ \A c \in Commands : dst'[c] = dst[c]
  <2>1. Broadcast \in Destinations
    BY DEF Destinations
  <2>2. QED
    BY <1>1, <2>1, NewCommand
<1> HIDE DEF n
<1>3. sheltered' \subseteq Commands'
  BY <1>1, <1>2 DEF ShelterInv
<1>4. sendQueue # <<>> => sendQueue' # <<>> /\ Head(sendQueue') = Head(sendQueue)
  <2>1. sendQueue \in Seq(Nat)
    BY DEF HubState
  <2>2. QED
    BY <1>1, <1>2, <2>1, HeadStays
<1>5. ASSUME NEW c \in sheltered'
      PROVE  /\ dst'[c] \in Rbms /\ dst'[c] < SubLimit /\ c \notin lost'
             /\ c \in Elements(delivered'[dst'[c]])
                \/ (link'[dst'[c]] \in {"send", "receive"} /\ socket'[dst'[c]] = "up" /\ ClearPath(c)')
  <2>1. c \in sheltered /\ c \in Commands /\ dst'[c] = dst[c] /\ c \notin Elements(hmiStream) /\ c # n
    BY <1>1, <1>2 DEF ShelterInv
  <2>2. /\ dst[c] \in Rbms /\ dst[c] < SubLimit /\ c \notin lost
        /\ c \in Elements(delivered[dst[c]]) \/ (Connected(dst[c]) /\ ClearPath(c))
    BY <2>1 DEF ShelterInv
  <2>3. hmiStream # <<c>>
    BY <2>1 DEF Elements
  <2>4. ClearPath(c) => ClearPath(c)'
    BY <1>1, <1>4, <2>1, <2>3 DEF ClearPath
  <2>5. QED
    BY <1>1, <2>1, <2>2, <2>4 DEF Connected
<1>6. \A r \in Rbms : link'[r] \in {"send", "receive"} => isUsed'[r]
  BY <1>1 DEF ShelterInv
<1>7. QED
  BY <1>3, <1>5, <1>6, ShelterNext

\* The receive thread passes a sheltered command on: it never discards one, and
\* send_queue has room for it.
LEMMA ShelterUplinkRecv ==
  ASSUME HubState, PathInv, ShelterInv, UplinkRecv
  PROVE  ShelterInv'
<1>1. UNCHANGED <<dst, link, isUsed, socket, delivered, sheltered, dispatching, rbmsQueue>>
  BY DEF UplinkRecv, UplinkRecvForward, UplinkRecvSelf, UplinkRecvDiscard, linkVars, pathVars
<1>2. ASSUME NEW k \in Commands, UplinkRecvForward(k), NEW c \in sheltered
      PROVE  c \notin lost' /\ (dst[c] \in Rbms /\ ClearPath(c) => ClearPath(c)')
  <2>1. hmiStream = <<k>> /\ Elements(hmiStream) = {k} /\ k \in Nat /\ sendQueue \in Seq(Nat)
    BY <1>2, Numbers DEF UplinkRecvForward, Elements, HubState
  <2>2. \/ Len(sendQueue) < SendCap /\ sendQueue' = Append(sendQueue, k) /\ lost' = lost
        \/ ~(Len(sendQueue) < SendCap) /\ sendQueue' = sendQueue /\ lost' = lost \cup {k}
    BY <1>2 DEF UplinkRecvForward
  <2>3. /\ sendQueue' = Append(sendQueue, k) => sendQueue' # <<>>
        /\ sendQueue' = Append(sendQueue, k) /\ sendQueue # <<>> => Head(sendQueue') = Head(sendQueue)
        /\ sendQueue' = Append(sendQueue, k) /\ sendQueue = <<>> => Head(sendQueue') = k
        /\ sendQueue = <<>> => Len(sendQueue) = 0
    BY <2>1, HeadStays
  <2>4. c = k => sendQueue = <<>> /\ Len(sendQueue) < SendCap
    BY <2>1, <2>3, ShelterFacts, Caps
  <2>5. c \notin lost
    BY ShelterFacts
  <2>6. c \notin lost'
    BY <2>2, <2>4, <2>5
  <2>7. ASSUME dst[c] \in Rbms, ClearPath(c) PROVE ClearPath(c)'
    <3>1. CASE hmiStream = <<c>> /\ sendQueue = <<>> /\ dispatching = {}
                 /\ \A r \in Rbms : rbmsQueue[r] = <<>>
      <4>1. c = k
        BY <2>1, <3>1
      <4>2. sendQueue' # <<>> /\ Head(sendQueue') = c
        BY <2>2, <2>3, <2>4, <3>1, <4>1
      <4>3. QED
        BY <1>1, <3>1, <4>2 DEF ClearPath
    <3>2. CASE sendQueue # <<>> /\ Head(sendQueue) = c /\ dispatching = {}
                 /\ \A r \in Rbms : rbmsQueue[r] = <<>>
      BY <1>1, <2>2, <2>3, <3>2 DEF ClearPath
    <3>3. CASE dispatching = {c} /\ \A r \in Rbms : rbmsQueue[r] = <<>>
      BY <1>1, <3>3 DEF ClearPath
    <3>4. CASE rbmsQueue[dst[c]] # <<>> /\ Head(rbmsQueue[dst[c]]) = c
      BY <1>1, <3>4 DEF ClearPath
    <3>5. QED
      BY <2>7, <3>1, <3>2, <3>3, <3>4 DEF ClearPath
  <2>8. QED
    BY <2>6, <2>7
<1>3. ASSUME NEW k \in Commands, UplinkRecvSelf(k), NEW c \in sheltered
      PROVE  c \notin lost' /\ (dst[c] \in Rbms /\ ClearPath(c) => ClearPath(c)')
  <2>1. hmiStream = <<k>> /\ dst[k] = Self /\ sendQueue' = sendQueue /\ lost' = lost
    BY <1>3 DEF UplinkRecvSelf, pathVars
  <2>2. dst[c] # Self /\ c \notin lost
    BY ShelterFacts
  <2>3. hmiStream # <<c>>
    BY <2>1, <2>2
  <2>4. QED
    BY <1>1, <2>1, <2>2, <2>3 DEF ClearPath
<1>4. ASSUME UplinkRecvDiscard, NEW c \in sheltered
      PROVE  c \notin lost' /\ (dst[c] \in Rbms /\ ClearPath(c) => ClearPath(c)')
  <2>1. /\ Len(hmiStream) > 1 \/ (dst[hmiStream[1]] # Self /\ ~ToRbms(hmiStream[1]))
        /\ lost' = lost \cup Elements(hmiStream) /\ sendQueue' = sendQueue
    BY <1>4 DEF UplinkRecvDiscard, Elements
  <2>2. c \notin lost /\ (c \in Elements(hmiStream) => hmiStream = <<c>>)
    BY ShelterFacts
  <2>3. ASSUME hmiStream = <<c>> PROVE FALSE
    <3>1. Len(hmiStream) = 1 /\ hmiStream[1] = c
      BY <2>3
    <3>2. ~ToRbms(c)
      BY <2>1, <3>1
    <3>3. QED
      BY <3>2, ShelterFacts DEF ToRbms
  <2>4. QED
    BY <1>1, <2>1, <2>2, <2>3 DEF ClearPath
<1>5. \A c \in sheltered : c \notin lost' /\ (dst[c] \in Rbms /\ ClearPath(c) => ClearPath(c)')
  BY <1>2, <1>3, <1>4 DEF UplinkRecv
<1>6. QED
  BY <1>1, <1>5, ShelterMoves

\* The dispatch thread takes a sheltered command when no other is queued, finds
\* its RBMS and room in its queue.
LEMMA ShelterDispatchThread ==
  ASSUME HubState, PathInv, ShelterInv, DispatchThread
  PROVE  ShelterInv'
<1>1. UNCHANGED <<dst, link, isUsed, socket, delivered, sheltered, hmiStream>>
  BY DEF DispatchThread, DispatchDequeue, Dispatch, DispatchNotFound, linkVars, hmiVars
<1>2. ASSUME DispatchDequeue, NEW c \in sheltered
      PROVE  c \notin lost' /\ (dst[c] \in Rbms /\ ClearPath(c) => ClearPath(c)')
  <2>1. /\ dispatching = {} /\ sendQueue # <<>> /\ dispatching' = {Head(sendQueue)}
        /\ UNCHANGED <<rbmsQueue, lost>>
    BY <1>2 DEF DispatchDequeue
  <2>2. c \notin lost
    BY ShelterFacts
  <2>3. QED
    BY <1>1, <2>1, <2>2 DEF ClearPath
<1>3. ASSUME NEW k \in Commands, NEW r \in Rbms, Dispatch(k, r), NEW c \in sheltered
      PROVE  c \notin lost' /\ (dst[c] \in Rbms /\ ClearPath(c) => ClearPath(c)')
  <2>1. /\ k \in dispatching /\ dst[k] = r /\ sendQueue' = sendQueue
        /\ \/ Len(rbmsQueue[r]) < RbmsCap /\ rbmsQueue' = [rbmsQueue EXCEPT ![r] = Append(@, k)]
                /\ lost' = lost
           \/ ~(Len(rbmsQueue[r]) < RbmsCap) /\ rbmsQueue' = rbmsQueue /\ lost' = lost \cup {k}
    BY <1>3 DEF Dispatch, Addressed
  <2>2. rbmsQueue[r] \in Seq(Nat) /\ rbmsQueue \in [Rbms -> Seq(Nat)] /\ k \in Nat
    BY Numbers DEF HubState
  <2>3. /\ Append(rbmsQueue[r], k) # <<>>
        /\ rbmsQueue[r] # <<>> => Head(Append(rbmsQueue[r], k)) = Head(rbmsQueue[r])
        /\ rbmsQueue[r] = <<>> => Head(Append(rbmsQueue[r], k)) = k /\ Len(rbmsQueue[r]) = 0
    BY <2>2, HeadStays
  <2>4. c = k => rbmsQueue[r] = <<>> /\ Len(rbmsQueue[r]) < RbmsCap
    BY <2>1, <2>3, ShelterFacts, Caps DEF NoneQueued
  <2>5. c \notin lost
    BY ShelterFacts
  <2>6. c \notin lost'
    BY <2>1, <2>4, <2>5
  <2>7. ASSUME dst[c] \in Rbms, ClearPath(c) PROVE ClearPath(c)'
    <3>1. CASE dispatching = {c} /\ \A x \in Rbms : rbmsQueue[x] = <<>>
      <4>1. c = k /\ dst[c] = r
        BY <2>1, <3>1
      <4>2. rbmsQueue' = [rbmsQueue EXCEPT ![r] = Append(@, k)]
        BY <2>1, <2>4, <4>1
      <4>3. rbmsQueue'[dst[c]] # <<>> /\ Head(rbmsQueue'[dst[c]]) = c
        BY <2>2, <2>3, <2>4, <4>1, <4>2
      <4>4. QED
        BY <1>1, <4>3 DEF ClearPath
    <3>2. CASE rbmsQueue[dst[c]] # <<>> /\ Head(rbmsQueue[dst[c]]) = c
      <4>1. rbmsQueue'[dst[c]] # <<>> /\ Head(rbmsQueue'[dst[c]]) = c
        BY <2>1, <2>2, <2>3, <2>7, <3>2
      <4>2. QED
        BY <1>1, <4>1 DEF ClearPath
    <3>3. QED
      BY <2>1, <2>7, <3>1, <3>2 DEF ClearPath
  <2>8. QED
    BY <2>6, <2>7
<1>4. ASSUME NEW k \in Commands, DispatchNotFound(k), NEW c \in sheltered
      PROVE  c \notin lost' /\ (dst[c] \in Rbms /\ ClearPath(c) => ClearPath(c)')
  <2>1. /\ k \in dispatching /\ lost' = lost \cup {k} /\ UNCHANGED <<sendQueue, rbmsQueue>>
        /\ \A r \in Rbms : ~(isUsed[r] /\ dst[k] = r)
    BY <1>4 DEF DispatchNotFound, Addressed
  <2>2. c \in dispatching => dst[c] \in Rbms /\ Connected(dst[c])
    BY ShelterFacts
  <2>3. \A r \in Rbms : Connected(r) => isUsed[r]
    BY DEF ShelterInv, Connected
  <2>4. c # k /\ c \notin lost /\ c \notin dispatching
    <3>1. c \in dispatching => dispatching = {c}
      BY ShelterFacts
    <3>2. QED
      BY <2>1, <2>2, <2>3, <3>1, ShelterFacts
  <2>5. QED
    BY <1>1, <2>1, <2>4 DEF ClearPath
<1>5. \A c \in sheltered : c \notin lost' /\ (dst[c] \in Rbms /\ ClearPath(c) => ClearPath(c)')
  BY <1>2, <1>3, <1>4 DEF DispatchThread
<1>6. QED
  BY <1>1, <1>5, ShelterMoves

\* A link thread sends a sheltered command over a connection that is up.
LEMMA ShelterLinkSend ==
  ASSUME HubState, PathInv, ShelterInv, NEW r \in Rbms, LinkSend(r)
  PROVE  ShelterInv'
<1> DEFINE h == Head(rbmsQueue[r])
           q == Tail(rbmsQueue[r])
           d == Append(delivered[r], h)
<1>1. /\ link[r] = "send" /\ rbmsQueue[r] # <<>>
      /\ UNCHANGED <<dst, hmiStream, sendQueue, dispatching, isUsed, sheltered>>
      /\ rbmsQueue' = [rbmsQueue EXCEPT ![r] = q] /\ link' = [link EXCEPT ![r] = "receive"]
      /\ \/ socket[r] = "up" /\ delivered' = [delivered EXCEPT ![r] = d] /\ lost' = lost
         \/ socket[r] # "up" /\ delivered' = delivered /\ lost' = lost \cup {h}
  BY DEF LinkSend, hmiVars
<1>2. /\ \A x \in Rbms \ {r} : socket'[x] = socket[x]
      /\ socket[r] = "up" => socket'[r] = "up"
  <2>1. socket \in [Rbms -> {"none", "up", "closed", "reset"}]
    BY DEF HubState
  <2>2. CASE socket[r] = "up"
    BY <2>1, <2>2 DEF LinkSend
  <2>3. CASE socket[r] # "up"
    BY <2>1, <2>3 DEF LinkSend
  <2>4. QED
    BY <2>2, <2>3
<1>3. h \in Elements(rbmsQueue[r]) /\ h \in Nat
  BY <1>1, Numbers, TailFacts, ElementsOf
<1>4. Elements(d) = Elements(delivered[r]) \cup {h}
  BY <1>3, Numbers, AppendFacts
<1> HIDE DEF h, q, d
<1>5. /\ \A x \in Rbms \ {r} : rbmsQueue'[x] = rbmsQueue[x] /\ link'[x] = link[x]
      /\ link'[r] = "receive"
      /\ \A x \in Rbms : Elements(delivered[x]) \subseteq Elements(delivered'[x])
  <2>1. \A x \in Rbms \ {r} : rbmsQueue'[x] = rbmsQueue[x] /\ link'[x] = link[x]
    BY <1>1 DEF HubState
  <2>2. link'[r] = "receive"
    BY <1>1 DEF HubState
  <2>3. \A x \in Rbms : delivered'[x] = delivered[x] \/ (x = r /\ delivered'[x] = d)
    BY <1>1 DEF HubState
  <2>4. QED
    BY <1>4, <2>1, <2>2, <2>3
<1>6. \A x \in Rbms : link'[x] \in {"send", "receive"} => isUsed'[x]
  BY <1>1, <1>5 DEF ShelterInv
<1>7. ASSUME NEW c \in sheltered
      PROVE  /\ dst[c] \in Rbms /\ dst[c] < SubLimit /\ c \notin lost'
             /\ c \in Elements(delivered'[dst[c]])
                \/ (link'[dst[c]] \in {"send", "receive"} /\ socket'[dst[c]] = "up" /\ ClearPath(c)')
  <2>1. /\ dst[c] \in Rbms /\ dst[c] < SubLimit /\ c \notin lost
        /\ c \in Elements(delivered[dst[c]]) \/ (Connected(dst[c]) /\ ClearPath(c))
    BY DEF ShelterInv
  <2>2. c = h => dst[c] = r /\ Connected(r)
    <3>1. h \in For(r)
      BY <1>3 DEF PathInv, PathMembers
    <3>2. QED
      BY <1>3, <3>1, ShelterFacts DEF For
  <2>3. c \notin lost'
    BY <1>1, <2>1, <2>2 DEF Connected
  <2>4. ASSUME Connected(dst[c]), ClearPath(c), c \notin Elements(delivered[dst[c]])
        PROVE  c \in Elements(delivered'[dst[c]])
               \/ (link'[dst[c]] \in {"send", "receive"} /\ socket'[dst[c]] = "up" /\ ClearPath(c)')
    <3>1. rbmsQueue[dst[c]] # <<>> /\ Head(rbmsQueue[dst[c]]) = c
      BY <1>1, <2>4 DEF ClearPath
    <3>2. CASE dst[c] = r
      <4>1. c = h /\ socket[r] = "up"
        BY <2>4, <3>1, <3>2 DEF h, Connected
      <4>2. delivered'[r] = d
        BY <1>1, <4>1 DEF HubState
      <4>3. QED
        BY <1>4, <3>2, <4>1, <4>2
    <3>3. CASE dst[c] # r
      <4>1. rbmsQueue'[dst[c]] = rbmsQueue[dst[c]] /\ link'[dst[c]] = link[dst[c]]
              /\ socket'[dst[c]] = socket[dst[c]]
        BY <1>2, <1>5, <2>1, <3>3
      <4>2. ClearPath(c)'
        BY <1>1, <3>1, <4>1 DEF ClearPath
      <4>3. QED
        BY <2>4, <4>1, <4>2 DEF Connected
    <3>4. QED
      BY <3>2, <3>3
  <2>5. QED
    BY <1>5, <2>1, <2>3, <2>4
<1>8. sheltered' \subseteq Commands' /\ sheltered' = sheltered /\ dst' = dst
  BY <1>1 DEF ShelterInv, Commands
<1>9. QED
  BY <1>6, <1>7, <1>8, ShelterNext

\* A link thread that changes where it is, or a network that breaks a connection.
LEMMA ShelterLinkThread ==
  ASSUME HubState, PathInv, ShelterInv, NEW r \in Rbms,
         LinkThread(r) \/ LinkOpen(r) \/ RbmsReply(r) \/ RbmsTelemetry(r)
           \/ \E how \in {"closed", "reset"} : Break(r, how)
  PROVE  ShelterInv'
<1> DEFINE SamePath == UNCHANGED <<dst, hmiStream, sendQueue, dispatching, rbmsQueue, delivered, lost>>
           Kept == /\ \A x \in Rbms : link'[x] \in {"send", "receive"} => isUsed'[x]
                   /\ \A c \in sheltered' : dst[c] \in Rbms /\ Connected(dst[c]) =>
                        link'[dst[c]] \in {"send", "receive"} /\ socket'[dst[c]] = "up"
<1>1. /\ link \in [Rbms -> {"start", "open", "send", "receive"}]
      /\ socket \in [Rbms -> {"none", "up", "closed", "reset"}]
      /\ isUsed \in [Rbms -> BOOLEAN]
      /\ \A x \in Rbms : link[x] \in {"send", "receive"} => isUsed[x]
  BY DEF HubState, ShelterInv
<1>2. ASSUME SamePath, sheltered' \subseteq sheltered, Kept PROVE ShelterInv'
  BY <1>2, ShelterLinks
<1>3. CASE LinkSend(r)
  BY <1>3, ShelterLinkSend
<1>4. CASE LinkOpen(r)
  <2>1. /\ SamePath /\ sheltered' = sheltered /\ isUsed' = isUsed
        /\ link[r] = "start" /\ link' = [link EXCEPT ![r] = "open"]
             /\ socket' = [socket EXCEPT ![r] = "up"]
    BY <1>4 DEF LinkOpen, hmiVars, pathVars
  <2>2. /\ \A x \in Rbms : x # r => link'[x] = link[x] /\ socket'[x] = socket[x]
        /\ link'[r] = "open"
    BY <1>1, <2>1
  <2>3. Kept
    BY <1>1, <2>1, <2>2 DEF Connected
  <2>4. QED
    BY <1>2, <2>1, <2>3
<1>5. CASE LinkConnected(r)
  <2>1. /\ SamePath /\ sheltered' = sheltered /\ isUsed' = [isUsed EXCEPT ![r] = TRUE]
        /\ link' = [link EXCEPT ![r] = "send"] /\ socket' = socket
    BY <1>5 DEF LinkConnected, hmiVars, pathVars
  <2>2. /\ \A x \in Rbms : x # r => link'[x] = link[x] /\ isUsed'[x] = isUsed[x]
        /\ link'[r] = "send" /\ isUsed'[r] = TRUE
    BY <1>1, <2>1
  <2>3. Kept
    BY <1>1, <2>1, <2>2 DEF Connected
  <2>4. QED
    BY <1>2, <2>1, <2>3
<1>6. CASE LinkNothingToSend(r) \/ LinkSilent(r)
  <2>1. /\ SamePath /\ sheltered' = sheltered /\ isUsed' = isUsed /\ socket' = socket
        /\ link[r] \in {"send", "receive"}
        /\ \E l \in {"send", "receive"} : link' = [link EXCEPT ![r] = l]
    BY <1>6 DEF LinkNothingToSend, LinkSilent, hmiVars, pathVars
  <2>2. /\ \A x \in Rbms : x # r => link'[x] = link[x]
        /\ link'[r] \in {"send", "receive"}
    BY <1>1, <2>1
  <2>3. Kept
    BY <1>1, <2>1, <2>2 DEF Connected
  <2>4. QED
    BY <1>2, <2>1, <2>3
<1>7. CASE LinkError(r)
  <2>1. /\ SamePath /\ sheltered' = sheltered /\ isUsed' = isUsed /\ socket' = socket
        /\ socket[r] = "reset" /\ link' = [link EXCEPT ![r] = "start"]
    BY <1>7 DEF LinkError, hmiVars, pathVars
  <2>2. /\ \A x \in Rbms : x # r => link'[x] = link[x]
        /\ link'[r] = "start"
    BY <1>1, <2>1
  <2>3. Kept
    BY <1>1, <2>1, <2>2 DEF Connected
  <2>4. QED
    BY <1>2, <2>1, <2>3
<1>8. CASE LinkReceive(r) \/ RbmsReply(r) \/ RbmsTelemetry(r)
  <2>1. SamePath /\ sheltered' = sheltered /\ isUsed' = isUsed /\ socket' = socket /\ link' = link
    BY <1>8 DEF LinkReceive, RbmsReply, RbmsTelemetry, hmiVars, pathVars
  <2>2. Kept
    BY <1>1, <2>1 DEF Connected
  <2>3. QED
    BY <1>2, <2>1, <2>2
<1>9. ASSUME NEW how \in {"closed", "reset"}, Break(r, how) PROVE ShelterInv'
  <2>1. /\ SamePath /\ isUsed' = isUsed /\ link' = link /\ socket' = [socket EXCEPT ![r] = how]
        /\ sheltered' = {c \in sheltered : dst[c] # r}
    BY <1>9 DEF Break, hmiVars
  <2>2. \A x \in Rbms : x # r => socket'[x] = socket[x]
    BY <1>1, <2>1
  <2>3. sheltered' \subseteq sheltered /\ \A c \in sheltered' : dst[c] # r
    BY <2>1
  <2>4. Kept
    BY <1>1, <2>1, <2>2, <2>3 DEF Connected
  <2>5. QED
    BY <1>2, <2>1, <2>3, <2>4
<1>10. QED
  BY <1>3, <1>4, <1>5, <1>6, <1>7, <1>8, <1>9 DEF LinkThread

\* No step loses a sheltered command.
LEMMA ShelterStep == HubState /\ PathInv /\ ShelterInv /\ [Next]_vars => ShelterInv'
<1> SUFFICES ASSUME HubState, PathInv, ShelterInv, [Next]_vars PROVE ShelterInv'
  OBVIOUS
<1> DEFINE Same == UNCHANGED <<dst, hmiStream, sendQueue, dispatching, rbmsQueue, delivered, lost,
                               sheltered, link, isUsed, socket>>
<1>1. ASSUME Same PROVE ShelterInv'
  <2>1. \A x \in Rbms : link'[x] \in {"send", "receive"} => isUsed'[x]
    BY <1>1 DEF ShelterInv
  <2>2. QED
    BY <1>1, <2>1, ShelterLinks DEF Connected
<1>2. CASE HmiConnect \/ HmiClose
  <2>1. Same
    BY <1>2 DEF HmiConnect, HmiClose, pathVars, linkVars
  <2>2. QED
    BY <1>1, <2>1
<1>3. CASE UplinkSend
  <2>1. Same
    BY <1>3 DEF UplinkSend, SendTop, SendReply, SendRepliesDone, SendTelemetry, pathVars, hmiVars,
       linkVars
  <2>2. QED
    BY <1>1, <2>1
<1>4. CASE UNCHANGED vars
  <2>1. Same
    BY <1>4 DEF vars, pathVars, hmiVars, linkVars
  <2>2. QED
    BY <1>1, <2>1
<1>5. CASE Environment
  BY <1>2, <1>5, ShelterHmiSend, ShelterControlSend, ShelterLinkThread DEF Environment
<1>6. QED
  BY <1>3, <1>4, <1>5, ShelterUplinkRecv, ShelterDispatchThread, ShelterLinkThread DEF Next

-----------------------------------------------------------------------------
(* The invariant holds in every state.                                     *)

\* All of the invariant holds before the first step: nothing is under way.
LEMMA HubInit == Init => HubInv
<1> SUFFICES ASSUME Init PROVE HubInv
  OBVIOUS
<1> USE DEF Init
<1>1. Commands = {} /\ \A r : For(r) = {}
  BY DEF Commands, For
<1>2. HubState
  <2>1. dst \in Seq(Destinations) /\ Len(dst) = 0 /\ replyQueue \in Seq(Replies) /\ Len(replyQueue) = 0
    OBVIOUS
  <2>2. /\ rbmsQueue \in [Rbms -> Seq(Nat)] /\ \A r \in Rbms : Len(rbmsQueue[r]) = 0
        /\ fromRbms \in [Rbms -> Seq(Nat)] /\ owed \in [Rbms -> Seq(Nat)]
             /\ delivered \in [Rbms -> Seq(Nat)]
    BY EmptyFacts
  <2>3. burst \in [Rbms -> 0 .. MaxBurst] /\ telemetryQueue \in 0 .. TelemetryCap
          /\ breaks \in 0 .. MaxBreaks
    BY Caps
  <2>4. /\ hmiStream \in Seq(Nat) /\ sendQueue \in Seq(Nat) /\ answered \in Seq(Nat)
             /\ Len(sendQueue) = 0
    BY EmptyFacts
  <2>5. /\ isUsed \in [Rbms -> BOOLEAN] /\ isOnline \in [Rbms -> BOOLEAN]
    OBVIOUS
  <2>6. /\ link \in [Rbms -> {"start", "open", "send", "receive"}]
        /\ socket \in [Rbms -> {"none", "up", "closed", "reset"}]
    OBVIOUS
  <2>7. clientUp \in BOOLEAN /\ uplink \in {"top", "replies", "telemetry"}
    OBVIOUS
  <2>8. /\ Len(dst) <= MaxCommands /\ Len(sendQueue) <= SendCap /\ Len(replyQueue) <= ReplyCap
        /\ \A r \in Rbms : Len(rbmsQueue[r]) <= RbmsCap
    BY <2>1, <2>2, <2>4, Caps
  <2> QED
    BY <2>1, <2>2, <2>3, <2>4, <2>5, <2>6, <2>7, <2>8 DEF HubState
<1>3. \A S, T, M : S = {} \/ T = {} => Before(S, T, M)
  BY DEF Before
<1>4. PathInv
  <2>1. PathMembers
    BY <1>1, EmptyFacts DEF PathMembers
  <2>2. \A r \in Rbms : PathOrder(r, For(r))
    BY <1>3, EmptyFacts DEF PathOrder
  <2>3. QED
    BY <1>1, <2>1, <2>2 DEF PathInv
<1>5. AnswerInv
  <2>1. Waiting = <<>> /\ Elements(Waiting) = {}
    BY EmptyFacts DEF Waiting, Ids
  <2>2. AnswerMembers
    BY <1>1, <2>1, EmptyFacts DEF AnswerMembers
  <2>3. \A r \in Rbms : AnswerOrder(r, For(r))
    BY <1>3, <2>1, EmptyFacts DEF AnswerOrder
  <2>4. QED
    BY <2>2, <2>3 DEF AnswerInv
<1>6. ReplyInv
  BY DEF ReplyInv
<1>7. ShelterInv
  BY <1>1 DEF ShelterInv
<1>8. QED
  BY <1>2, <1>4, <1>5, <1>6, <1>7 DEF HubInv

\* The inductive invariant of the hub: whatever the threads, the HMI, the devices and
\* the network do (all of bsp_bms_com.c that is modelled), HubInv holds.
THEOREM HubInvariant == Spec => []HubInv
<1>1. Init => HubInv
  BY HubInit
<1>2. HubInv /\ [Next]_vars => HubInv'
  BY HubStateStep, PathStep, AnswerStep, ReplyStep, ShelterStep DEF HubInv
<1>3. QED
  BY <1>1, <1>2, PTL DEF Spec

-----------------------------------------------------------------------------
(* What the invariant says of the system.                                  *)

\* A sequence whose elements are in a set is a sequence over that set.
LEMMA SeqIn ==
  ASSUME NEW s \in Seq(Nat), NEW S, Elements(s) \subseteq S
  PROVE  s \in Seq(S)
<1>1. Len(s) \in Nat /\ s \in [1 .. Len(s) -> Nat] /\ \A i \in 1 .. Len(s) : s[i] \in S
  BY ElementsOf, LenProperties
<1>2. s \in [1 .. Len(s) -> S]
  BY <1>1
<1>3. QED
  BY <1>1, <1>2, SeqDef

\* Every variable has its type, and no queue of the hub exceeds its capacity
\* (kit_queue_enqueue in bsp_bms_com.c and protocol_bms_hmi.c).
THEOREM HubTypeCorrect == Spec => []TypeOK
<1>1. HubInv => TypeOK
  <2> SUFFICES ASSUME HubInv PROVE TypeOK
    OBVIOUS
  <2>1. HubState /\ PathInv /\ AnswerInv /\ ShelterInv
    BY DEF HubInv
  <2>2. hmiStream \in Seq(Commands) /\ sendQueue \in Seq(Commands) /\ answered \in Seq(Commands)
    BY <2>1, SeqIn DEF HubState, PathInv, PathMembers, AnswerInv, AnswerMembers
  <2>3. ASSUME NEW r \in Rbms
        PROVE  /\ rbmsQueue[r] \in Seq(Commands) /\ delivered[r] \in Seq(Commands)
               /\ fromRbms[r] \in Seq(Commands \cup {Telemetry}) /\ owed[r] \in Seq(Commands)
    <3>1. /\ Elements(rbmsQueue[r]) \subseteq Commands /\ Elements(delivered[r]) \subseteq Commands
      BY <2>1, PathCommands DEF PathInv
    <3>2. /\ Elements(fromRbms[r]) \subseteq Commands \cup {Telemetry}
               /\ Elements(owed[r]) \subseteq Commands
      BY <2>1, BackFacts
    <3>3. QED
      BY <2>1, <3>1, <3>2, SeqIn, Numbers
  <2>4. /\ rbmsQueue \in [Rbms -> Seq(Commands)] /\ delivered \in [Rbms -> Seq(Commands)]
        /\ fromRbms \in [Rbms -> Seq(Commands \cup {Telemetry})] /\ owed \in [Rbms -> Seq(Commands)]
    BY <2>1, <2>3 DEF HubState
  <2>5. replyQueue \in Seq([id : Commands, overtaken : Nat])
    <3>1. replyQueue \in Seq(Replies)
      BY <2>1 DEF HubState
    <3>2. /\ Len(replyQueue) \in Nat /\ DOMAIN replyQueue = 1 .. Len(replyQueue)
          /\ \A i \in 1 .. Len(replyQueue) : replyQueue[i] \in Replies
      BY <3>1, LenProperties, ElementOfSeq
    <3>3. ASSUME NEW i \in 1 .. Len(replyQueue)
                 PROVE replyQueue[i] \in [id : Commands, overtaken : Nat]
      <4>1. replyQueue[i].id \in Elements(Waiting)
        BY <3>2 DEF Waiting, Ids, Elements
      <4>2. replyQueue[i].id \in Commands /\ replyQueue[i] \in [id : Nat, overtaken : Nat]
        BY <2>1, <3>2, <4>1 DEF AnswerInv, AnswerMembers, Replies
      <4>3. QED
        BY <4>2
    <3>4. replyQueue \in [1 .. Len(replyQueue) -> [id : Commands, overtaken : Nat]]
      BY <3>1, <3>2, <3>3, LenProperties
    <3> DEFINE R == [id : Commands, overtaken : Nat]
    <3>5. replyQueue \in [1 .. Len(replyQueue) -> R]
      BY <3>4
    <3> HIDE DEF R
    <3>6. replyQueue \in Seq(R)
      BY <3>2, <3>5, SeqDef
    <3>7. QED
      BY <3>6 DEF R
  <2>6. lost \subseteq Commands /\ sheltered \subseteq Commands /\ dispatching \subseteq Commands
    BY <2>1 DEF PathInv, PathMembers, ShelterInv
  <2>7. QED
    BY <2>1, <2>2, <2>4, <2>5, <2>6 DEF TypeOK, HubState
<1>2. QED
  BY <1>1, HubInvariant, PTL

\* An RBMS receives its own commands only, each once and in the order they were sent,
\* through send_queue, its own queue and any reconnection (bsp_bms_com.c:240-289, 504-535).
THEOREM HubDeliveredInOrder == Spec => []DeliveredInOrder
<1>1. HubInv => DeliveredInOrder
  <2> SUFFICES ASSUME HubInv, NEW r \in Rbms
               PROVE  (\A c \in Elements(delivered[r]) : dst[c] = r) /\ Increasing(delivered[r])
    BY DEF DeliveredInOrder
  <2>1. Elements(delivered[r]) \subseteq For(r) /\ Ordered(delivered[r], For(r))
    BY DEF HubInv, PathInv, PathMembers, PathOrder
  <2>2. QED
    BY <2>1 DEF For, Ordered, Increasing, Elements
<1>2. QED
  BY <1>1, HubInvariant, PTL

\* At most one telemetry frame is sent to the HMI while a reply waits: the send thread
\* empties ctrl_reply_queue first (bsp_bms_com.c:1179).
THEOREM HubRepliesGoFirst == Spec => []RepliesGoFirst
<1>1. HubInv => RepliesGoFirst
  <2> SUFFICES ASSUME HubInv, NEW i \in DOMAIN replyQueue
               PROVE  replyQueue[i].overtaken <= 1
    BY DEF RepliesGoFirst
  <2>1. replyQueue[i] \in Replies
    BY ElementOfSeq, LenProperties DEF HubInv, HubState
  <2>2. replyQueue[i].overtaken \in Nat
          /\ replyQueue[i].overtaken <= (IF uplink = "telemetry" THEN 0 ELSE 1)
    BY <2>1 DEF HubInv, ReplyInv, Replies
  <2>3. QED
    BY <2>2
<1>2. QED
  BY <1>1, HubInvariant, PTL

\* A command that is alone on its way to a connected RBMS is not dropped by the BBMS
\* (bsp_bms_com.c, from the receive callback to drvTcpSend).
THEOREM HubShelteredSurvive == Spec => []ShelteredSurvive
<1>1. HubInv => ShelteredSurvive
  BY DEF HubInv, ShelterInv, ShelteredSurvive
<1>2. QED
  BY <1>1, HubInvariant, PTL

\* The HMI gets the answers of one RBMS in the order of its commands, each once, and
\* none to a command the RBMS did not receive (bsp_bms_com.c, ctrl_reply_queue).
THEOREM HubAnswersInOrder == Spec => []AnswersInOrder
<1>1. HubInv => AnswersInOrder
  <2> SUFFICES ASSUME HubInv, NEW r \in Rbms
               PROVE  LET mine == {i \in DOMAIN answered : dst[answered[i]] = r} IN
                        /\ \A i, j \in mine : i < j => answered[i] < answered[j]
                        /\ \A i \in mine : answered[i] \in Elements(delivered[r])
    BY DEF AnswersInOrder
  <2>1. /\ Elements(answered) \subseteq Commands /\ Ordered(answered, For(r))
        /\ Elements(answered) \cap For(r) \subseteq Elements(delivered[r])
    BY DEF HubInv, AnswerInv, AnswerMembers, AnswerOrder
  <2>2. \A i \in DOMAIN answered : answered[i] \in Elements(answered)
    BY DEF Elements
  <2>3. \A i \in DOMAIN answered : dst[answered[i]] = r => answered[i] \in For(r)
    BY <2>1, <2>2 DEF For
  <2>4. QED
    BY <2>1, <2>2, <2>3 DEF Ordered
<1>2. QED
  BY <1>1, HubInvariant, PTL

-----------------------------------------------------------------------------
(* Counting: how many places hold a command.                               *)

\* A set that holds one thing exactly when S holds c counts as Here.
LEMMA CountIn ==
  ASSUME NEW c, NEW S, NEW P, c \notin S => P = {}, c \in S => \E x : P = {x}
  PROVE  Cardinality(P) = Here(c, S)
BY FS_EmptySet, FS_Singleton DEF Here

\* In a queue without repetition a command is at one index, or at none.
LEMMA CountQueue ==
  ASSUME NEW s, Distinct(s), NEW c
  PROVE  Cardinality({i \in DOMAIN s : s[i] = c}) = Here(c, Elements(s))
<1> DEFINE P == {i \in DOMAIN s : s[i] = c}
<1>1. c \notin Elements(s) => P = {}
  BY DEF Elements
<1>2. ASSUME c \in Elements(s) PROVE \E x : P = {x}
  <2>1. PICK x \in DOMAIN s : s[x] = c
    BY <1>2 DEF Elements
  <2>2. P = {x}
    BY <2>1 DEF Distinct
  <2>3. QED
    BY <2>2
<1> HIDE DEF P
<1>3. Cardinality(P) = Here(c, Elements(s))
  BY <1>1, <1>2, CountIn
<1>4. QED
  BY <1>3 DEF P

\* The same of a set.
LEMMA CountTaken ==
  ASSUME NEW c, NEW S
  PROVE  Cardinality(S \cap {c}) = Here(c, S)
<1>1. c \notin S => S \cap {c} = {}
  OBVIOUS
<1>2. c \in S => S \cap {c} = {c}
  OBVIOUS
<1>3. QED
  BY <1>1, <1>2, CountIn

\* A family of queues in which no command is twice.
LEMMA CountFamily ==
  ASSUME NEW q, NEW n, NEW c,
         \A r \in Rbms : Distinct(q[r]) /\ DOMAIN q[r] \subseteq 1 .. n,
         \A x, y \in Rbms : c \in Elements(q[x]) /\ c \in Elements(q[y]) => x = y
  PROVE  Cardinality({p \in Rbms \X (1 .. n) : p[2] \in DOMAIN q[p[1]] /\ q[p[1]][p[2]] = c})
           = Here(c, InSome(q))
<1> DEFINE P == {p \in Rbms \X (1 .. n) : p[2] \in DOMAIN q[p[1]] /\ q[p[1]][p[2]] = c}
<1>1. ASSUME NEW p \in P
             PROVE p[1] \in Rbms /\ p[2] \in DOMAIN q[p[1]] /\ q[p[1]][p[2]] = c /\ p = <<p[1], p[2]>>
  OBVIOUS
<1>2. ASSUME NEW x \in Rbms, NEW i \in DOMAIN q[x], q[x][i] = c PROVE <<x, i>> \in P
  BY <1>2
<1> HIDE DEF P
<1>3. ASSUME c \notin InSome(q) PROVE P = {}
  BY <1>1, <1>3 DEF InSome, Elements
<1>4. ASSUME c \in InSome(q) PROVE \E x : P = {x}
  <2>1. PICK x \in Rbms : c \in Elements(q[x])
    BY <1>4 DEF InSome
  <2>2. PICK i \in DOMAIN q[x] : q[x][i] = c
    BY <2>1 DEF Elements
  <2>3. <<x, i>> \in P
    BY <1>2, <2>2
  <2>4. ASSUME NEW p \in P PROVE p = <<x, i>>
    <3>1. p[1] \in Rbms /\ p[2] \in DOMAIN q[p[1]] /\ q[p[1]][p[2]] = c /\ p = <<p[1], p[2]>>
      BY <1>1
    <3>2. p[1] = x
      BY <2>1, <3>1 DEF Elements
    <3>3. p[2] = i
      BY <2>2, <3>1, <3>2 DEF Distinct
    <3>4. QED
      BY <3>1, <3>2, <3>3
  <2>5. QED
    BY <2>3, <2>4
<1>5. Cardinality(P) = Here(c, InSome(q))
  BY <1>3, <1>4, CountIn
<1>6. QED
  BY <1>5 DEF P

\* A queue of an RBMS's commands holds none twice, and not more than were given.
LEMMA NoneTwice ==
  ASSUME HubState, NEW s \in Seq(Nat), NEW r, Elements(s) \subseteq For(r), Ordered(s, For(r))
  PROVE  Distinct(s) /\ DOMAIN s \subseteq 1 .. MaxCommands
<1>1. /\ Len(s) \in Nat /\ DOMAIN s = 1 .. Len(s)
      /\ \A i \in 1 .. Len(s) : s[i] \in Nat /\ s[i] \in Elements(s)
  BY ElementsOf
<1>2. Distinct(s)
  <2>1. \A i, j \in 1 .. Len(s) : i < j => s[i] < s[j]
    BY <1>1 DEF Ordered
  <2>2. QED
    BY <1>1, <2>1 DEF Distinct
<1>3. Len(dst) \in Nat /\ Len(dst) <= MaxCommands /\ MaxCommands \in Nat
  BY Numbers, Caps DEF HubState
<1>4. s \in [1 .. Len(s) -> 1 .. Len(dst)]
  <2>1. \A i \in 1 .. Len(s) : s[i] \in 1 .. Len(dst)
    BY <1>1 DEF For, Commands
  <2>2. QED
    BY <1>1, <2>1, LenProperties
<1>5. Len(s) <= Len(dst)
  <2>1. /\ IsFiniteSet(1 .. Len(s)) /\ Cardinality(1 .. Len(s)) = Len(s)
        /\ IsFiniteSet(1 .. Len(dst)) /\ Cardinality(1 .. Len(dst)) = Len(dst)
    <3>1. 1 \in Int /\ Len(s) \in Int /\ Len(dst) \in Int
      BY <1>1, <1>3
    <3>2. /\ IsFiniteSet(1 .. Len(s)) /\ IsFiniteSet(1 .. Len(dst))
          /\ Cardinality(1 .. Len(s)) = (IF 1 > Len(s) THEN 0 ELSE Len(s) - 1 + 1)
          /\ Cardinality(1 .. Len(dst)) = (IF 1 > Len(dst) THEN 0 ELSE Len(dst) - 1 + 1)
      BY <3>1, FS_Interval
    <3>3. QED
      BY <1>1, <1>3, <3>2
  <2>2. ASSUME Len(dst) < Len(s) PROVE FALSE
    <3>1. \E x, y \in 1 .. Len(s) : x # y /\ s[x] = s[y]
      BY <1>4, <2>1, <2>2, FS_PigeonHole
    <3>2. QED
      BY <1>1, <1>2, <3>1 DEF Distinct
  <2>3. QED
    BY <1>1, <1>3, <2>2
<1>6. QED
  BY <1>1, <1>2, <1>3, <1>5

\* A command for the RBMS devices is always in exactly one place of its path, from the
\* frame the HMI sent to its RBMS or to its loss (bsp_bms_com.c, all threads).
THEOREM HubInOnePlace == Spec => []InOnePlace
<1>1. HubInv => InOnePlace
  <2> SUFFICES ASSUME HubInv, NEW c \in Commands, dst[c] # Self
               PROVE  Holders(c) = 1
    BY DEF InOnePlace
  <2>1. HubState /\ PathInv /\ PathMembers /\ OnePlace(c)
    BY DEF HubInv, PathInv
  <2>2. /\ Cardinality({i \in DOMAIN hmiStream : hmiStream[i] = c}) = Here(c, Elements(hmiStream))
        /\ Cardinality({i \in DOMAIN sendQueue : sendQueue[i] = c}) = Here(c, Elements(sendQueue))
    BY <2>1, CountQueue DEF PathMembers
  <2>3. /\ Cardinality(dispatching \cap {c}) = Here(c, dispatching)
        /\ Cardinality(lost \cap {c}) = Here(c, lost)
    BY CountTaken
  <2>4. \A r \in Rbms : /\ Elements(rbmsQueue[r]) \subseteq For(r)
          /\ Elements(delivered[r]) \subseteq For(r)
                        /\ Ordered(rbmsQueue[r], For(r)) /\ Ordered(delivered[r], For(r))
                        /\ rbmsQueue[r] \in Seq(Nat) /\ delivered[r] \in Seq(Nat)
    BY <2>1, Numbers DEF PathInv, PathMembers, PathOrder
  <2>5. /\ \A x, y \in Rbms : c \in Elements(rbmsQueue[x]) /\ c \in Elements(rbmsQueue[y]) => x = y
        /\ \A x, y \in Rbms : c \in Elements(delivered[x]) /\ c \in Elements(delivered[y]) => x = y
    <3>1. \A r \in Rbms : c \in For(r) => dst[c] = r
      BY DEF For
    <3>2. QED
      BY <2>4, <3>1
  <2>6. \A r \in Rbms : Distinct(rbmsQueue[r]) /\ Distinct(delivered[r])
          /\ DOMAIN delivered[r] \subseteq 1 .. MaxCommands
    BY <2>1, <2>4, NoneTwice
  <2>7. \A r \in Rbms : DOMAIN rbmsQueue[r] \subseteq 1 .. RbmsCap
    <3> SUFFICES ASSUME NEW r \in Rbms PROVE DOMAIN rbmsQueue[r] \subseteq 1 .. RbmsCap
      OBVIOUS
    <3>1. /\ Len(rbmsQueue[r]) \in Nat /\ DOMAIN rbmsQueue[r] = 1 .. Len(rbmsQueue[r])
      BY <2>4, ElementsOf
    <3>2. Len(rbmsQueue[r]) <= RbmsCap
      BY <2>1 DEF HubState
    <3>3. QED
      BY <3>1, <3>2, Caps
  <2>8. Cardinality({p \in Rbms \X (1 .. RbmsCap) :
                       p[2] \in DOMAIN rbmsQueue[p[1]]
                         /\ rbmsQueue[p[1]][p[2]] = c}) = Here(c, InSome(rbmsQueue))
    BY <2>5, <2>6, <2>7, CountFamily
  <2>9. Cardinality({p \in Rbms \X (1 .. MaxCommands) :
                       p[2] \in DOMAIN delivered[p[1]]
                         /\ delivered[p[1]][p[2]] = c}) = Here(c, InSome(delivered))
    BY <2>5, <2>6, CountFamily
  <2>10. QED
    BY <2>1, <2>2, <2>3, <2>8, <2>9 DEF Holders, OnePlace
<1>2. QED
  BY <1>1, HubInvariant, PTL
=============================================================================
