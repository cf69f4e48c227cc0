# Verification of the BBMS firmware

This directory models the controller of a battery stack (BBMS) in TLA+, checks
the models with TLC and proves theorems about them with TLAPS. Paths below are
relative to `src/firmware` unless they begin with `src/`.

The firmware is a C program of about twenty threads. It collects data from
battery management systems (RBMS, one per cluster) over TCP and from auxiliary
devices over Modbus and CAN, keeps all of it in a real-time database (RTDB) in
shared memory, supervises and protects the stack, and serves a host computer
(HMI) over TCP and a web backend over the shared memory.

- [Inventory](#inventory) lists the parts, their state and what makes them correct.
- [Modules](#modules) says how each module corresponds to the code.
- [Runs](#runs) gives what TLC checks, with which bounds and fairness.
- [Theorems](#theorems) gives what TLAPS proves and how.
- [Findings](#findings) lists where the code disagrees with its own comments.
- [Not modelled](#not-modelled) and [Plan](#plan) say what is left.

## Inventory

`app/app_task_regedit.c:396-453` starts the threads once, in a fixed order.
They share global variables, bounded queues (`kernel/kit_queue.c`) and the RTDB.

| Component | State | Operations | Interacts with | What is hard | Correct when |
|---|---|---|---|---|---|
| Queue primitive, `kernel/kit_queue.c` | ring buffer, head, tail, count, mutex | enqueue, dequeue, is_empty | every queue of the hub | several producers; test and dequeue are two calls | it is a bounded FIFO; a sole consumer that saw an element gets it |
| Communication hub, `bsp/bsp_bms_com.c`, `protocol/protocol_bms_hmi.c` | `send_queue`, a queue and a link state per RBMS, `ctrl_reply_queue`, `recv_queue`, clients | HMI receive, dispatch, link thread per RBMS, HMI send | HMI and RBMS over TCP; stack control and protection send through it | four kinds of threads, reconnection, full queues | commands reach only their RBMS, once, in order; answers come back in order; queued commands are sent; broken links are noticed |
| Protection chain, `logic/logic_di.c`, `app/app_bms_fault.c`, `logic/logic_do.c` | latched inputs, fault values, fault states with two timers, power limit, outputs | DI scan (20 ms), sample, detect, handle, write outputs (20 ms) | reads RTDB; writes outputs; sends power-off through the hub | wrapping clock, debouncing, unlocked sharing, one-time commands | faults appear and go after their times, no later and no earlier; the limit covers all active faults; a shutdown reaches all RBMS |
| Modbus master, `bsp/bsp_modbus.c` | ring of writes, poll index, transaction number, failure count | scan, send, receive, go offline | RTDB both ways; devices over TCP or serial | late and lost answers, retries, reconnection | no write is lost or undone by a retry; answers are matched to their requests; writing and polling recover |
| Web signs, `bsp/bsp_shm.c`, `app/app_timer.c`, `src/web_frontend/backend/module_device` | a sign per kind of request in shared memory, the configuration each announces | set by the pages, tested and cleared by DI, DO, control, timer and storage threads | web backend and firmware, two processes | load and clear are two steps; waiting with a time-out; restart of one side | no saved change goes unread; one upgrade at a time; an export answers its own request |
| Stack control, `app/app_bms_ctrl.c` | state of the power-on sequence, list of clusters chosen, master, pending cluster, timer | every 100 ms one pass of the central or the distributed machine; load of the configuration | RTDB, hub, web signs | many cycles, time-outs, clusters that drop out while others close, a mode that changes in between | clusters are connected only when voltages agree; as many as possible are; the count agrees with the selection |
| Data storage, `app/app_data_storage.c`, `kernel/kit_db.c` | last stored values, cycle count, SQLite connections, day of the last export | change detection, insertion in batches, deletion by age, copies of the configuration at boot, export | RTDB, SQLite, web signs | failing SQLite calls, error paths without rollback, restarts, an export that lasts minutes | each change is stored once; rows stay for their period; the copies are complete |
| TMS over CAN, `bsp/bsp_can_sched.c`, `protocol/protocol_can_tms.c`, `app/app_cool_ctrl.c` | CAN queue, last content of five frames, mode of the strategy | receive, dispatch of one message per pass, temperature strategy | CAN, RTDB | full queue, silence, hysteresis | values shown never get older; the strategy does not chatter |
| Statistics, `app/app_bms_statistics.c` | none of its own | about eighty sums, extremes, places and states over the racks, every second | RTDB; publishes the fault list and limits beside the DO thread | offline racks, order of the racks | an offline rack leaves no trace, a bad rack shows |
| Real-time database, `bsp/bsp_shm.c`, `bsp/bsp_rtdb.c` | arrays of doubles | read, write | all | unlocked sharing between processes | a read returns a value that was written |
| EMS Modbus server, `protocol/protocol_ems_modbus_*.c`, `bsp/bsp_modbusSlave.c` | clock | read inputs and registers, set the clock | EMS, RTDB | borders of ranges; its thread is commented out (`app/app_task_regedit.c:437`) | what is read does not depend on the range asked for; the clock set is the clock read |
| RBMS and HMI tables, `protocol/protocol_bms_rbms.c`, `protocol/protocol_bms_hmi.c` | none | frames to RTDB points and back | hub, RTDB | bit fields, signs, short frames | decoders and encoders agree |
| Device drivers, `driver/` | descriptors, client table | open, send, receive | hub, Modbus, CAN, DI, DO | one failing client of several | every client gets the frame |
| Utilities, `kernel/`; start; NTP; Redis; web administration; web frontend | | | | | |

`PROJECT.json` lists the same components with their status, and under `hazards`
each place of the code that is hard to test, with the properties aimed at it.

## Modules

| Module | Models | Role |
|---|---|---|
| `Fifo` | what a queue promises | abstract bounded FIFO with atomic operations |
| `KitQueue` | `kernel/kit_queue.c` | ring buffer at the grain of its writes; implements `Fifo` |
| `KitQueue_proofs` | | theorems about `KitQueue`, refinement included |
| `MCKitQueue` | | instance for TLC |
| `BbmsCom` | `bsp/bsp_bms_com.c`, the HMI callback, `ControlSend` of `app/app_bms_ctrl.c` | the hub with all its threads |
| `BbmsCom_proofs` | | theorems about `BbmsCom` |
| `SafetyChain` | `logic/logic_di.c`, `app/app_bms_fault.c`, `logic/logic_do.c` | protection chain, with the dispatcher's treatment of its power-off frames |
| `SafetyChain_proofs` | | theorems about `SafetyChain` |
| `MCSafetyChain` | | tables of faults and inputs for TLC |
| `ModbusMaster` | `bsp/bsp_modbus.c` | one device, its thread and its line, TCP or serial |
| `ModbusMaster_proofs` | | theorems about `ModbusMaster` |
| `ModbusShared` | `bsp/bsp_modbus.c` | several devices behind one TCP connection |
| `ModbusPoints` | `bsp/bsp_modbus.c` | operators: points to requests, answers to points |
| `WebSign` | `bsp/bsp_shm.c`, the readers of its signs, `kernel/kit_db.c` | requests of the web backend to the firmware |
| `SqliteConn`, `Storage` | `kernel/kit_db.c`, `app/app_data_storage.c` | a SQLite connection, and the storage tasks that use it |
| `Storage_proofs` | | theorems about `Storage`, with the induction they need |
| `BankFaults` | `app/app_bms_fault.c`, `app/app_bms_statistics.c` | what two threads publish for the stack |
| `Ranking` | the bubble sorts of `app/app_bms_ctrl.c` and `bsp/bsp_modbus.c` | operator: a set in an order |
| `ClusterChoice`, `StackCtrl` | `app/app_bms_ctrl.c` | operators that choose clusters, and the power-on machines |
| `Stack_proofs` | | theorems about `BankFaults`, `ClusterChoice` and `StackCtrl` |
| `TmsCan`, `TmsStrategy` | `bsp/bsp_can_sched.c`, `protocol/protocol_can_tms.c`, `app/app_cool_ctrl.c` | reception from the TMS, and the operator that computes its command |
| `Uplink` | `bsp/bsp_bms_com.c`, `driver/drv_tcp_server.c` | the table of HMI clients and the sending to all of them |
| `Statistics` | `app/app_bms_statistics.c` | operators on the racks |
| `EmsMap` | `protocol/protocol_ems_modbus_*.c`, `bsp/bsp_modbusSlave.c` | operators: register map and requests |
| `BmsFrames` | `protocol/protocol_bms_rbms.c`, `protocol/protocol_bms_hmi.c` | operators: frames and their tables |
| `MCServices` | | the seven services `Storage`, `WebSign`, `BankFaults`, `StackCtrl`, `TmsCan`, `Uplink`, `ModbusShared` together |
| `Services_proofs` | | theorems about `TmsCan`, `ModbusShared`, `Uplink`, `WebSign` and `MCServices` |
| `Algorithms` | | the six modules of operators, each with a constant for its inputs |
| `Algorithms_proofs` | | theorems about `Algorithms` |
| `MCAlgorithms` | | sets of inputs for TLC |

### KitQueue

A thread in `kit_queue_enqueue` locks, returns on a full queue, copies the
element, then moves `tail` and `count` and unlocks; `kit_queue_dequeue` is the
mirror image. `EnqLock`, `EnqFull`, `EnqCopy`, `EnqCommit` and their `Deq`
counterparts are these steps, `IsEmpty` is `kit_queue_is_empty`, and a consumer
dequeues after it saw an element, as every caller does. The refinement maps
`Fifo`'s sequence to the `count` slots from `head` on; the results of the calls
are the same in both. `is_full` and `count` have no caller.

### BbmsCom

A frame is the identifier of its command; commands are numbered as they are
issued. Each queue is an atomic bounded sequence, which `RefinesFifo` justifies.
`UplinkRecv*` is one pass of `uplink_recv_thread_func`, `Dispatch*` of
`send_queue_dequeue_thread_func` (its dequeued message is the variable
`dispatching`), `Link*` the states of a link thread (start, open, send,
receive), and `Send*` the three phases of `uplink_send_thread_func`.
`RbmsReply`, `RbmsTelemetry`, `Break` and `HmiSend` are the environment.
History variables `delivered`, `answered`, `lost` and `sheltered` let the
properties relate what was sent to what arrived.

Simplifications: one HMI client; TCP delivers whole frames, and one `recv` of
the HMI's socket takes all that are pending, as the code does; the HMI closes
after its frames were read; a link that dies without a reset is not modelled.
`bbms_info_queue` is filled and drained by the same thread and left out.

### SafetyChain

`DiScan` handles one row of `di_config`, as the loop body of `logic_di_ctrl`
does. The DO thread is `DoSample` (`bms_update_m_fault_value`), `DoDetect`
(`detect_m_fault` for every fault, then `execute_fault_handle`) and `DoOutput`.
A pass of the detection takes one instant of the clock; between two passes at
most `MaxGap` ticks elapse. `now` counts modulo `Wrap` and differences are taken
modulo `Wrap`, as `uint32_t` does. `Off` is an inactive timer. `persist` and
`calm` are history: how long the trigger and the recovery condition have really
held in the passes of the detection. `DispatchOff` is the dispatcher with the
power-off frames.

Simplifications: power-off frames form a set; an RBMS is not switched on again;
the A-core faults and the fault bitmaps are in `BankFaults`, the reload of the
configuration in `WebSign`; a
measured value is one of three representatives (below the recovery threshold,
between the two thresholds, above).

### ModbusMaster

`Transmit` is the top of the loop: `mbScanCtrlCmdInputList` puts a write into
the ring for each point that changed (`NewWrites`, `Filled`), then the oldest
write or else the next poll is sent. `Timeout` and `Receive` are the two ends of
`drvTcpRecv`; one `recv` takes everything that arrived and the parser looks at
the first frame, so later ones are gone. `Accepted` is `modbusTcpCmdAnalize` or
`modbusRtuCmdAnalize`; `Pop` removes an answered write; `Offline` closes the
connection and keeps the ring. The device (`DeviceAnswer`, `DeviceRefuse`), the
line (`Lose`) and the network (`Break`) are external.

The values of a point are 1, 2, ... in the order they are wanted, so a greater
value is a later one. On a serial line the length of a frame is all that tells
the answer to a write from the answer to a poll, and it is modelled as the kind
of the frame. Several devices behind a connection are `ModbusShared`, requests and
answers in detail `ModbusPoints`. Left out: several devices behind one serial line, and
an overflow of the ring (`MaxPending` keeps the pending writes within it; see the
findings).

### ModbusShared

Devices behind a gateway have one thread (`creatNetModbusMultTaskEntry`), one
connection, one transaction number and one clock of silence, but their own lists
of requests and counts of misses. `SendRequest`, `NoAnswer` and `AnswerArrives`
are a turn of the loop, `Judge` is the end of it, where devices that were silent
go offline and the connection may be given up; the two callbacks of start and
offline are actions. `onWire` holds requests and answers in order: one that is
there when the next receive begins is a late answer. No ring of writes exists
(see the findings), so there are no writes.

### ModbusPoints

`initPointModbus`, `modbusSort`, `modbusMergeAddr` and the two parsers are operators on a
list of points. The byte of a register is its own number, so that a stored value tells
where it was read. `PointsShowTheirRegisters` states the result for all
configurations that `Readable` describes: points that do not overlap, coils of one
bit, and no register read as a single byte, for which the parser would consume one
byte of the two (`bsp/bsp_modbus.c`, `mbParseFunc03Fun04Respond`).

### WebSign

A page saves a configuration (`SaveConfig`) and then writes the sign (`TellConfig`). DI and DO
clear the sign before they load (`SeeConfig`, `LoadConfig`), the control thread
afterwards (`SeeControl`, `readBmsCtrlFromDb`, `ClearControl`). The
configuration is a version number; `Limits` tells which versions differ in the
limits that are sent. The upgrade is `SeeUpgrade`, `ClearUpgrade`, `BeginUpgrade`
and the worker; the export thread reads a clock of ticks of 20 seconds. Either
process may start again (`initWebSignShm`), which clears all signs.

### Storage and SqliteConn

`SqliteConn` is the library as the code uses it: `Insertions` gives every outcome of
an insertion in batches, with the call that fails (BEGIN, a row, COMMIT, BEGIN of the next
batch) and whether SQLite undid the transaction, and `Deletions` those of a deletion.
`Storage` boots (four copies of configuration tables), then runs the cycles of
`oneSecondTaskHandle` or `recordDataTaskHandle`. These two share neither a connection nor
variables, hence the variable `task`. A restart loses what was not committed.
The values of timed rows do not matter and are all `Unknown`. A deletion keeps the rows of a set, as
its `WHERE` does (`Only`).

### BankFaults

Here M-core faults come and go as they like (their detection is
`SafetyChain`), and what counts is the order of the unlocked writes: the DO thread
reads the pulse limit, writes the continuous limit, detects the A-core faults, clears the
bitmap, sets its bits and publishes the list; the timer thread writes the two
sums, copies the bitmap and publishes its copy. The unit of time of the A-core
timers is a pass of the DO thread.

### StackCtrl and ClusterChoice

Each state of `bmsCentralRunControl` and `bmsDistributedRunControl` is an action; `GridOn` of
the central machine is two, with and without a pending cluster. The timer counts passes.
`told` keeps the last command meant for a cluster; how commands
travel is in `BbmsCom`. The inputs (`syncClustersFromRtdb`, `LoseCluster`) and the mode
(`ReadMode`) change between passes. As built nobody calls
`syncClustersFromRtdb`, and the behaviours of the firmware are those in which that
action is never taken; the module shows what the machines do once it is called.

What the loops of the choice compute is stated without them. The bubble sort gives the candidates
in the order of their voltages, equal ones in the order of their numbers: `Ranked` puts
each candidate at the place that the number of those before it gives. The two pointers give the first
longest window: `Window` takes the earliest head that `tail` allows, where the code's head stops
because it only moves forward over ascending voltages.

### TmsCan and TmsStrategy

The receive thread puts what it reads into the queue, and on a time-out puts the
message it read last, or its uninitialised variable, into the queue again: content
number 0 stands for that. `protocol_can_poll` takes one message and publishes the
last content of all five frames. `TmsStrategy` is `tms_strategy_step` as a function
of the state and the temperatures.

### Uplink

The receiving thread accepts clients and moves the entries up when one leaves
(`CloseFd`, `MoveUp`, one entry per step), the sending thread walks the same table
(`drvTcpServerSend`, one client per step), without a lock. Descriptors are reused, least
first. A send to a client that left succeeds and resets the connection; the next
one ends the process by SIGPIPE (`BrokenPipe`), after which no behaviour goes on.

### Statistics, EmsMap, BmsFrames

`Statistics` computes every point of the stack from a sequence of racks, loop by loop
(`OnlineValues` are the values that each loop visits, `SumOf` adds, `++` puts the points of two
loops beside each other); a table (`SummedPowers`, `GreatestOf`, ...) says
which point of the racks a point of the stack comes from. `EmsMap` gives for
every register the point it shows, and for requests the registers or the refusal.
`BmsFrames` has the table walk of the RBMS parser, of the HMI parser, and of the two encoders.
Coefficients are integers, and types wider than 16 bits behave like those of 16.

## Runs

| Run | Bounds | What it shows |
|---|---|---|
| `kit_queue` | 2 producers, 1 consumer, 3 slots, 2 elements, symmetry over producers and elements | Refinement of `Fifo`, and that the consumer's dequeue after `is_empty` succeeds. The state invariants of the queue are proved for every instance instead |
| `bbms_com` | 2 RBMS, all queues of one slot, 2 commands, 1 broken connection | Each command is in one place, reaches its own RBMS once and in order; a loss needs a broken link or another frame; answers keep the order |
| `bbms_com_live` | 1 RBMS, 2 commands, bursts of one telemetry frame, 1 broken connection | Queued commands are handed over, resets noticed, replies go before telemetry |
| `com_stream` (violated) | 1 RBMS that never pauses | The receive loop starves the queued command |
| `com_close` (violated) | 1 RBMS that closes its connection | The closed connection is never noticed |
| `safety_chain` | 2 faults, 2 inputs (normally open and closed), clock modulo 4, at most 1 tick between passes | Debouncing, timeliness, the power limit, the outputs |
| `chain_shutdown` (violated) | 2 RBMS | The power-off frame reaches nobody |
| `chain_recovery` (violated) | as `safety_chain` | A fault below its recovery threshold stays |
| `mb_tcp` | 2 control points with 2 changes each, 2 polls, ring of 2, 2 retries, numbers modulo 5, 2 faults (late, lost or refused answers, broken connections) | No write is lost, undone or wrongly completed; polls are stored as themselves; writing, polling and the online state recover |
| `mb_serial` (violated) | the same, on a serial line | A late answer removes the next write unexecuted |
| `services` | below | Storage, web signs, publication for the stack, power-on machines, CAN reception, client table and shared connection |
| `algorithms` | below | Statistics, choice of clusters, temperature control, EMS map, Modbus points and frames, each for every input of a set |

The seven services share no variable. `MCServices` is their sum, not their product: the
variable `part` chooses the one that moves, which is enough for invariants and
action properties of one service. Its behaviours end where a bound is reached or the
process ends, so deadlock is not checked there; nor in `Algorithms`, where a behaviour is
one step that chooses an algorithm and an input.

| Property of `services` | Says |
|---|---|
| `ChangesStoredOnce` | without a failing call every change of a fault or event is one row, across restarts and deletions |
| `KeptForItsPeriod` | a committed row stays, in its place, until its period is over, whatever fails |
| `MirrorsFollow` | a boot without errors leaves complete copies of the configuration, none older than the one before |
| `ChangesNoticed` | a saved DI or DO configuration is loaded, or about to be; the control thread sends the limits it uses |
| `RequestsServedOnce` | a confirmation begins one upgrade at most; the nightly export of yesterday happens once |
| `StackFaultsAgree` | a pass without interference publishes the right list and limit; all racks are not lost before one is |
| `SelectionCounted` | the count that the power-on machine compares is the number of selected clusters |
| `NeverOlder` | no TMS value in the RTDB is replaced by an older one |
| `QuietFrameReachesAll` | after any history of clients, an undisturbed frame reaches each of them once |
| `StoredForItsDevice` | an answer is stored for the device and request it answers |

### Why these bounds

- `kit_queue`: with three slots and three threads the ring wraps, fills up and
  empties while others wait for the lock. The theorems hold for any number.
- `bbms_com`: one slot makes every queue full with the first frame, so each
  overflow happens; two commands are the fewest that can change order, two RBMS
  the fewest that can be confused, and one break covers a break in each state
  of the link. A third command meets the same states of the queues.
- `safety_chain`: the clock wraps every fourth tick, with trigger and recovery
  times of one and two ticks, so timers start on either side of a wrap. The code
  has times of some seconds against 49 days and passes 20 ms apart. Two faults
  give the different kinds: fed by an input or measured, with and without recovery
  time, with and without a limit. Theorems again hold for every table.
- `mb_tcp`: the ring of two wraps; two faults allow a late answer together with a
  break, a loss with a refusal, and a late answer that outlives a retry. The
  transaction number returns after five requests, with at most three frames in
  flight; the code's 65535 makes this distance greater.
- `services`:
  - storage: batches of two with three rows, so an insertion has a complete batch, a
    partial one, and a BEGIN between them; one failing call, at each of its places; two
    runs of the firmware; two periods, one of zero seconds; cycles that wrap every second one.
  - signs: four changes of a configuration, three requests or four confirmations, two
    restarts and two failing queries; a day of nine ticks with a minute 00:10 of three,
    longer than one wait and not longer than the wait after an export, as in the code.
  - stack: two racks, two changes of a rack or fault, a fault with derating and one without.
  - control: three clusters with voltages of which some pairs agree, a minimum of two,
    four changes of clusters or mode; time-outs of one pass, so each state can outlast them.
  - CAN: two frames, a queue of three and four frames, so that it overflows.
  - clients: two places, three connections, two frames; the third connection waits or takes
    the place and descriptor of another.
  - shared connection: two devices, two requests each, three faults; numbers modulo seven
    against at most four requests in flight.
- `algorithms`: up to three racks, four clusters with five voltages, three Modbus points
  and tables of two fields; temperatures on both sides of each threshold; ranges that
  begin or end at each border of the EMS map; dates at the ends of months. One value per rack
  for all of its points suffices, since no statistic combines two points of a rack.

### Fairness

The threads are loops with short sleeps that neither wait for each other nor
hold a lock across a wait, so each is given weak fairness: the threads of the
hub in `bbms_com_live`, `com_stream` and `com_close`; the clock, the DI and the
DO thread and the dispatcher in the runs of the chain; the master in `mb_tcp`.
The environment gets none, with one exception: the Modbus device answers the
requests it receives, without which no write could be promised to arrive. What
may go wrong there is bounded by `MaxFaults`. HMI, RBMS telemetry, network
failures, measurements and inputs are never forced to happen. The hub's
`BbmsCom` lets telemetry come in bursts of `MaxBurst` frames, so that
the silent second that ends the receive loop comes; `Streams` removes this
restriction and refutes the comment in the code. The runs `services` and
`algorithms` check safety only and need no fairness.

## Theorems

| Theorem | Property of a run | States |
|---|---|---|
| `KitQueue_proofs!TypeCorrect` |  | Type correctness of the ring buffer for every capacity, set of threads and set of elements |
| `KitQueue_proofs!MutualExclusion` |  | At most one thread is inside a queue, and the slot or element it works on stays as it found it |
| `KitQueue_proofs!IndicesAgree` |  | head, tail and count agree modulo the capacity in every reachable state |
| `KitQueue_proofs!CheckThenDequeue` | `CheckThenDequeueHolds` | With a single consumer a dequeue after a negative is_empty never fails, for any number of producers |
| `KitQueue_proofs!RefinementHolds` | `RefinesFifo` | The ring buffer implements the atomic bounded FIFO of module Fifo for every value of the constants |
| `SafetyChain_proofs!TypeCorrect` | `TypeOK` | Type correctness of the protection chain for every table of faults and inputs |
| `SafetyChain_proofs!LimitCovers` | `LimitCoversFaults` | The power limit is never above the ratio of an active fault |
| `SafetyChain_proofs!RaisePersists` | `FaultNeedsPersistence` | A fault appears only after its condition held for its trigger time, whatever the clock's modulus |
| `SafetyChain_proofs!ClearPersists` | `ClearNeedsPersistence` | A fault disappears only after its recovery condition held for its recovery time |
| `SafetyChain_proofs!RaiseInTime` | `FaultRaisedInTime` | No wrap-around of the clock hides a condition that held for its trigger time |
| `BbmsCom_proofs!HubInvariant` |  | The inductive invariant of the hub: the commands of a link lie on the path from the HMI in the order they were issued, each in one place; the answers lie on the way back in order; what waits in a queue of a sheltered command is protected |
| `BbmsCom_proofs!HubTypeCorrect` | `TypeOK` | Type correctness of the hub for every set of RBMS devices and every capacity of its queues |
| `BbmsCom_proofs!HubDeliveredInOrder` | `DeliveredInOrder` | Every RBMS receives only its own commands, each once and in the order they were issued, whatever breaks and reconnects |
| `BbmsCom_proofs!HubInOnePlace` | `InOnePlace` | Every command is in exactly one place: in a queue, in the hands of a thread, delivered or counted as lost |
| `BbmsCom_proofs!HubAnswersInOrder` | `AnswersInOrder` | The HMI gets the answers of an RBMS in the order of the commands |
| `BbmsCom_proofs!HubRepliesGoFirst` | `RepliesGoFirst` | A reply is overtaken by one telemetry frame at most |
| `BbmsCom_proofs!HubShelteredSurvive` | `ShelteredSurvive` | A command that was sent while nothing could lose it is not lost |
| `Services_proofs!TmsTypeCorrect` |  | Type correctness of the reception from the TMS for every size of the CAN queue |
| `Services_proofs!TmsNeverOlder` | `NeverOlder` | No value of the TMS in the RTDB is replaced by an older one, for every size of the queue and every set of frames |
| `Services_proofs!SharedTypeCorrect` |  | Type correctness of the shared Modbus connection for any number of devices and requests |
| `Services_proofs!SharedStoredForItsDevice` | `StoredForItsDevice` | An answer is stored for the device and the request it answers, however late answers arrive, as long as fewer faults occur than there are transaction numbers |
| `Services_proofs!UplinkTypeCorrect` |  | Type correctness of the client table for every number of places and connections |
| `Services_proofs!UplinkQuietFrameReachesAll` | `QuietFrameReachesAll` | After any history of clients a frame whose sending nothing disturbs reaches every client once |
| `Algorithms_proofs!TmsControlSettles` |  | With any thresholds and any temperatures the temperature control settles at once while its inputs stay as they are (StrategySettles) |
| `Algorithms_proofs!EmsReadsOneMap` |  | For up to 20 racks a range of input registers is answered just when each of its registers is and all belong to the same part of the stack, and with the same values (EmsReadsAgree) |
| `Algorithms_proofs!EmsTablesTellTheSame` |  | For any number of racks and any faults the fault bits of the stack and those of its racks tell the same (EmsTablesAgree) |
| `Algorithms_proofs!EmsSetsTheClock` |  | Any date and time that the EMS writes register by register is what the clock shows then, if the clock had a day that every month has (EmsClockSet) |
| `Stack_proofs!BankTypeCorrect` |  | Type correctness of what the two threads publish for the stack |
| `Stack_proofs!BankQuietPassRepairs` |  | A pass of the DO thread that the timer thread does not disturb publishes the list of the active faults and the derated limit, whatever interference came before |
| `Stack_proofs!BankFaultsAgree` | `StackFaultsAgree` | The same, and the fault of all racks lost implies that of one, for every set of racks and faults in which the second is enabled if the first is |
| `Stack_proofs!LargestSetIsChosen` |  | For any number of clusters and any voltages the set that the central mode connects may be connected, and no larger set may (LargestSetChosen) |
| `Stack_proofs!CtrlTypeCorrect` |  | Type correctness of the power-on machines for every number of clusters, all voltages and time-outs |
| `Stack_proofs!CtrlSelectionCounted` | `SelectionCounted` | The count that the power-on machines compare is the number of clusters selected, through time-outs, skipped clusters and changes of the mode, and the master is selected while it closes |
| `Services_proofs!SignTypeCorrect` |  | Type correctness of the web signs for every length of the day and of the export |
| `Services_proofs!SignChangesNoticed` | `ChangesNoticed` | A saved configuration of DI or DO is loaded or about to be; the control thread has sent the limits it uses |
| `Services_proofs!SignRequestsServedOnce` | `RequestsServedOnce` | A confirmation begins one upgrade at most, one runs at a time, and a night without a request exports yesterday exactly once |
| `ModbusMaster_proofs!MasterTypeCorrect` | `TypeOK` | Type correctness of the master of a Modbus device for every size of its ring of writes |
| `ModbusMaster_proofs!AnswersReachTheirPolls` | `StoredFromItsPoll` | Over TCP what is stored for a poll is the answer to it, if fewer requests can be late than there are transaction numbers |
| `ModbusMaster_proofs!WritesAreKept` | `NoWriteForgotten` | Over TCP a write leaves the ring only after the device executed it, with answers late, lost or refused and connections broken |
| `ModbusMaster_proofs!ValuesOnlyAdvance` | `NoOlderValue` | Over TCP and over a serial line, retries and reconnections never bring an older value of a point back, if the ring is not overrun |
| `ModbusMaster_proofs!NothingPendingIsLost` | `Settled` | Over TCP the device has every scanned value when the ring is empty |
| `Storage_proofs!StoreTypeCorrect` |  | Type correctness of the storage tasks for all tables of points, batch sizes and periods, the rows inside an open transaction included |
| `Storage_proofs!ChangesAreStoredOnce` | `ChangesStoredOnce` | As long as no call of SQLite fails, each change of a fault or an event is one row and the last row is the value the task knows, over any number of cycles, deletions and restarts |
| `Storage_proofs!MirrorsAreCopies` | `MirrorsFollow` | A boot without a failing call leaves four complete copies of the configuration tables, none older than the one made before it |
| `Storage_proofs!RowsAreKept` | `KeptForItsPeriod` | No step removes a committed row before the period of its table is over, whichever call fails and wherever the firmware stops, and the rows keep their order |
| `Services_proofs!ServicesTypeCorrect` | `ServicesTypeOK` | Type correctness of the seven services, whichever of them runs and whatever the constants are |
| `Services_proofs!ServicesHoldTogether` |  | Every property that the run services checks holds of MCServices for all values of the constants: the service that runs keeps its own, and a step of it leaves the others as they are |
| `Algorithms_proofs!StackShowsTheRacks` | `StackShowsItsRacks` | For any number of racks with any values the statistics are those of the racks online, as if the others did not exist, and the worst rack online is not hidden |
| `Algorithms_proofs!PointsShowWhatTheyRead` | `PointsReadRight` | For any configuration of points that do not overlap, in any order and cut into any groups, each point shows its own registers after a round of polls, and an alarm point bits of the register it names |
| `Algorithms_proofs!ClusterChoiceIsLargest` | `ChosenSetIsLargest` | LargestSetIsChosen for every table of clusters that the algorithms are given |
| `Algorithms_proofs!ControlSettlesAtOnce` | `ControlSettles` | TmsControlSettles for every mode and input of the temperature control |
| `Algorithms_proofs!EmsSeesTheStack` | `EmsSeesOneStack` | The three theorems about the map of the EMS for every request, fault table and date it is given |

All hold for every value of the constants under the named assumptions of the modules, which
TLC evaluates in the runs. Beyond types (a capacity is positive, a list is finite) these
assumptions say:

- `KitQueue`: `NoThread` and `NoData` are outside the threads and the data;
  `CheckThenDequeueHolds` itself carries the premise that there is one consumer.
- `SafetyChain`: the times of a fault plus `MaxGap` stay below `Wrap`, thresholds are
  integers, ratios are percentages, the tables of inputs are well-formed.
- `ModbusShared`: fewer faults occur than there are transaction numbers. The code has 65535
  numbers and closes a connection after some silent requests, long before a number returns.
- `ClusterChoice`: clusters are counted by a `uint8_t`; the allowed difference and the minimum of
  clusters are not negative. `StackCtrl`: the voltages are integers.
- `WebSign`: the minute 00:10 is shorter than the wait after an export, and the day does not
  begin with it (`creat_data_export_thread` in `app/app_data_storage.c`: looks every 20 s, waits 60 s).
- `Algorithms`: the inputs are what the code can be given. A rack has a number for each of its points,
  at most 20 racks are configured (`kCon_RBMSNum`; more would overlap the registers of the periphery from
  60100 on), a request carries up to 125 registers, clocks are dates and the one to be set lies in 2000 to
  2100, the points of a Modbus device are of four types and four functions.
- `Storage`: an array of points names each point of a device once, and a point is a fault or an
  event, not both (`kit_get_faults_config` and `kit_get_event_config` in `kernel/kit_db.c` select
  by one group each).

Some theorems carry hypotheses of their own:

- `BankFaultsAgree` needs that the loss of one rack is enabled whenever the loss of all is;
  `a_fault_configs` (`app/app_bms_fault.c:119-120`) enables both.
- `ServicesHoldTogether` needs the same, for the sake of `StackFaultsAgree`.
- `LargestSetIsChosen` is about any measured voltages (`Measured`: they are integers).
- `EmsReadsOneMap` is about the 125 registers a request can carry: a longer range could reach over the
  registers of the clock inside the first rack.
- `EmsTablesTellTheSame` needs that the faults of the racks are sets of numbers, `EmsSetsTheClock`
  that the clock and the new time are dates, the new one from 2000 to 2100.
- `AnswersReachTheirPolls`, `WritesAreKept` and `NothingPendingIsLost` are about TCP and about
  fewer faults than transaction numbers. On a serial line they are false: that is the
  finding of `mb_serial`.
- `ValuesOnlyAdvance` and `NothingPendingIsLost` need that the ring is not overrun
  (`MaxPending <= Size`, 1000 writes in the code), which the code does not test.

### How they are proved

Every proof about a state machine finds an inductive invariant, which TLC has checked on the instance of the run,
and shows it action by action; those about operators follow the conditions of the code. What each adds:

**Queue.** `IInv` of `KitQueue` adds three parts to the invariants:
`CellsInv` (the slots in use hold elements), `CallInv` (a thread inside enqueue has
an element to store) and `SawInv` (what the only consumer saw in `is_empty` is
still there, for others only add). `MutexInv` itself says what the thread between
lock and unlock relies on: a free slot it has filled, or an element it has
copied. That is needed because `EnqCommit` and `DeqCommit` move the indices
without a test of their own; that they may follows only from the test under the
same lock. The refinement maps each commit to an operation of `Fifo` and every
other step to a stutter; its core are the lemmas about the window of slots from
`head` on, `StoreAppends` and `FetchRemoves`.

**Chain.** `IInv == TypeOK /\ TimerInv /\ LimitCoversFaults`. `TimerInv` ties
each timer to the history of the condition: a trigger timer runs exactly while the
condition holds, excludes the recovery timer, and measures no more than the true
duration; before the fault is raised it measures the true duration and is below
the trigger time plus the ticks since the last pass, so it cannot have wrapped. A
recovery timer runs only for a raised fault and measures no more than the true
duration. Without it nothing connects the timers
with elapsed time, and the three action properties do not follow. The
arithmetic is in the lemmas `Difference` and `DifferenceAfterTick`.

**Hub.** `HubInv` has five parts. `HubState` gives types and capacities. `PathInv` orders
the commands of each RBMS along the whole path (HMI stream, common queue, the message the
dispatcher holds, queue of the RBMS, delivered): within each queue and from each queue to
the next, and counts that each command is in one of six places. Delivery in order is its last link, but no
single queue's order is inductive, because a frame moves from one queue into
the next. `AnswerInv` does the same for the way back, including the replies an
RBMS still owes. `ReplyInv` bounds by how many frames a waiting reply was overtaken, by the
phase of the sender. `ShelterInv` says what keeps a command alive that was sent into an idle
hub: its RBMS is connected, and everything before it on the path is empty.

**Modbus master.** `MasterState` holds the types and that the write the thread waits for is
the oldest of the ring. `WireInv` dates the frames on the line: `LateForFaults` says that the
age of a frame's number plus its position is at most the number of faults, so a
number cannot return while its old frame is under way; `OneIsPending` then says that
a frame with the present number is the request the thread waits for, unless the connection is
about to be closed. `OrderInv` orders the values of each point through device, line and ring:
what is executed next is never older than what the device has, because a retry
repeats the oldest write of the ring and the line holds nothing newer. Its lemmas
`RingScan` and `RingPop` say what the two index operations do to the ring as a sequence.
`DoneInv` says that a scanned value is in the device or in the ring.

**Services.** For the TMS, `TmsOrdered` lets the numbers of the frames grow along socket buffer,
local message, queue, status and RTDB. For the shared connection, `WaitsForFaults` and
`OneIsAsked` are the counterparts of the master's invariants, with several devices asking in turn.
For the client table, `TableInv` describes the table while entries are moved: all
entries but the one being overwritten are distinct and cover the open descriptors; `WalkInv`
says who got the frame when the sender is at entry n and nobody has come or gone. In `MCServices` a step of
one service leaves the variables of the others as they are (`EachServiceKept`), so the specification of
each is implied, and with it every theorem about it.

**Temperature control and EMS map.** `ModeIsKept` is why the control does not chatter: a mode that is
chosen is chosen again, and one that is kept is kept. For the map, `RangeRead` says which ranges are
answered and with which registers, `AreasDiffer` and `ServedTogether` that a range is inside one area
just when each of its addresses is. `OneRegisterMore` follows the clock through the six
registers: at each of them the day stays within the month.

**Statistics.** An offline rack leaves no trace because `Ranked` lists the racks online in their
order (`OnlineInOrder`): the set of values, the first and the last rack with a state are then the same
with and without the others (`ExtremesInOrder`, `StatusThere`, `ChargingThere`). For the sums,
`OnlineSums` runs over the racks and compares the sum so far with the sum over as many of the list
as were online so far; that partial sums exist for a list of any length (`ListSumsExist`)
is induction again. `OneStatistic` and `BankShows` find a point in the tables that are put side by side.

**Modbus points.** The list of a function is sorted and its points do not overlap, so each begins
behind the one before it (`ListFacts`). `MergeFacts` is the invariant of the merging loop:
the groups closed so far cover the points before the open one, each point in one group, without gaps inside
a group. Hence the place of a point's bytes in the answer is twice its distance from the start of the
group (`RegistersAnswered`), the answer to a group changes nothing of the others
(`GroupAnswered`), and after the groups polled so far their points show their registers (`PolledFacts`).

**Faults of the bank.** `PassSoFar` records what a pass has achieved at each of its six points
if the timer thread left it alone. `OneLeadsAll` compares the timers: those of the loss of one rack
are never behind those of the loss of all, and recover no earlier. This is what makes
"all lost implies one lost" inductive.

**Choice of clusters.** `RankedFacts` shows that counting the elements before each one numbers a
set without gaps in any strict total order, so that the sorted list holds each
candidate once. `NoLargerFits` is the argument for the choice: the positions of a connectable set lie
between its first and its last, hence inside the window that ends at the last, which is no
longer than the best one.

**Power-on machines.** `CtrlInv` adds to the types and `SelectionCounted` the part `ListChosen`: in
`Prepare` the list that was chosen one pass earlier is not empty and names no cluster twice, which
is why the number of clusters that `Prepare` selects is the length of the list. It
rests on the facts about the choice, and holds although the inputs change between the passes.

**Web signs.** `ChangesNoticed` is inductive with the types. `UpgradesInv` counts: upgrades begun,
about to begin and still asked for are no more than the confirmations. `ExportsInv` places an
undisturbed day before, in or after its export, with bounds on when the thread
looks at the clock next; the assumption about the minute 00:10 is used there.

**Storage.** `Only(s, K)`, the rows of `s` that are in `K`, is a recursive function, and what it
returns is shown by induction: `AllNumbers` and `AllSequences` take a set in place of a
predicate and follow from `<` being well-founded, and `OnlyPicks` unfolds the function. On
these rest the lemmas of what `Only` keeps of a concatenation, of an ordered sequence and of
a second selection (`OnlyConcat`, `OnlyTheEnd`, `OnlyTwice`). `StoreInv` adds to the types `BootInv` (the
copies made so far are complete and in order, if nothing failed), `RowsInv` (the rows
stand in the order of their times, each with a point of its own array) and `StoredOnce`. `RowsInv`
carries the argument about deletions: because times ascend, what expires of a point is the oldest of
its rows, so a deletion creates no two equal neighbours. `KeptForItsPeriod` needs no failure-free
past: each outcome of a call deletes expired rows of some tables and appends others.

### With TLC only

- All liveness (`SignalOpensPcs`, `ResetNoticed`, `CommandHandedOver`, `WritesArrive`,
  `PollsGoOn`): it rests on fairness and `ENABLED`.
- `FramesDecodeRight`: it is about bits, powers of two and folds over tables.

`TypeCorrect`, `MutualExclusion` and `IndicesAgree` of the queue are
proved and not run: a run on one instance would add nothing to them.

## Findings

Shown by a run:

- `com_stream`: a comment says queued commands are sent first; an RBMS that never
  pauses for a second keeps its link in the receive loop (`bsp/bsp_bms_com.c:538`).
- `com_close`: a disconnect is documented to return -1 and returns the value of a
  time-out (`bsp/bsp_bms_com.c:428`).
- `chain_shutdown`: shutdown commands carry sub-address 0, which no RBMS has, and
  the dispatcher drops them (`app/app_bms_ctrl.c:168`).
- `chain_recovery`: recovery is tested with the comparison of the trigger
  (`app/app_bms_fault.c:543`).
- `mb_serial`: a late answer on the serial line completes the wrong write
  (`bsp/bsp_modbus.c:1114`).

Met while modelling, with the quoted lines in `PROJECT.json`:

- Hub: sub-address 0 of the HMI is said to be multicast and is dropped (stated as
  `BroadcastReachesAll`). HMI settings with repeated fields set one point only;
  replies are longer than their tables.
- Protection: a normally closed input raises nothing (`ClosedInputRaises`); the values of
  `UPSCommLost` and `EnergyMeterCommLost` are not inverted; a fault with number 0 is refused
  and read as active by the EMS.
- Stack control: the inputs of the machines are never refreshed; the distributed machine passes
  the wrong cluster to its command.
- Modbus: devices behind a shared connection never get a write; the ring of writes may overflow;
  an alarm point without a parent uses an index that was never set, one whose parent has an
  offset gets the wrong bits.
- Statistics: the greatest current, cell voltages and their places are those of the last or first
  rack; the continuous charging power is summed from the pulse power; the place of the hottest
  cell is that of the highest voltage; SOC and SOH of the stack stay 0.
- CAN: periods of the control frames and of the supervision never elapse; recovery is not limited to
  three attempts.
- EMS: table of discrete inputs is indexed by the address itself; ranges in 500 to 699 are
  refused inside rack 0.
- Storage: a late answer of the export makes the nightly one export the wrong day.

## Not modelled

- The text and rows of tables: CSV files, fault and point tables, scaling of EMS registers, parsing of
  Modbus configurations. They are data.
- The fault recorder and queries that only read; logging; NTP; the unused Redis client; the
  default Modbus server, which nothing starts.
- Recovery of the CAN interface and the wireless modules, which run system commands.
- The control frames and the supervision of the TMS, which are never reached as built.
- Several devices behind one serial line.
- Single reads and writes of the RTDB, which appear inside the modules that use them.
- The web frontend, and the administration part of the web backend.

## Plan

1. Liveness of the shared connection: a first device that is dead makes the loop give the connection up
   before the others are asked.
2. The serial line with several devices; the fault recorder; recovery of the CAN interface.
