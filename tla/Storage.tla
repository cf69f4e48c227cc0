------------------------------- MODULE Storage -------------------------------
(* The boot of the databases and the copies of the configuration tables        *)
(* (kit_db.c), then the task that writes business.db - it stores real-time     *)
(* values, faults and events and deletes old rows - or the one that writes     *)
(* record.db (app_data_storage.c).  The two tasks share no connection and no   *)
(* mutex, so a behaviour follows one of them.  Time counts seconds of the      *)
(* task; a row keeps the second and the run of the firmware it was stored in.  *)
EXTENDS SqliteConn, SequencesExt

CONSTANTS
  TimedPoints, FaultPoints, EventPoints,  \* the arrays timedDataConfigs, ...
  Values,                                 \* values of a point in the RTDB
  RealEvery, EventEvery, DayEvery,        \* 60, 5 and 86400 cycles
  PurgeEvery,                             \* 30 cycles
  KeepTimed, KeepFaults, KeepRecord,      \* 14 days, 180 days and 30 minutes
  ConfigRows,                             \* rows of a table of sqlite3.db
  Unknown,                                \* 123.456, the value before the first sample
  MaxNow, MaxRuns, MaxStoreFailures, MaxConf   \* bounds

\* A point of an array is one point of one device; its group is that of the
\* faults or that of the events.
ASSUME StoreAssumption ==
  /\ DayEvery \in Nat \ {0} /\ ConfigRows \in Nat
  /\ KeepTimed \in Nat /\ KeepFaults \in Nat /\ KeepRecord \in Nat
  /\ MaxNow \in Nat /\ MaxRuns \in Nat \ {0} /\ MaxStoreFailures \in Nat /\ MaxConf \in Nat \ {0}
  /\ TimedPoints \in Seq(Range(TimedPoints))
  /\ FaultPoints \in Seq(Range(FaultPoints)) /\ EventPoints \in Seq(Range(EventPoints))
  /\ IsInjective(FaultPoints) /\ IsInjective(EventPoints)
  /\ Range(FaultPoints) \cap Range(EventPoints) = {}

VARIABLES
  task,      \* the task followed, "business" or "record"
  biz,       \* the database it writes
  mirror,    \* the copies of device and point in business.db and record.db
  conf,      \* version of the configuration tables, changed by the web
  boot,      \* copies of kit_init_db still to make
  todo,      \* calls of this cycle still to make
  exeCount,  \* cycles
  now,       \* seconds
  last,      \* p_config->faultsValue
  run,       \* run of the firmware
  failures   \* calls that failed so far

storeVars == <<task, biz, mirror, conf, boot, todo, exeCount, now, last, run, failures>>

Copies == <<"device", "point", "record point", "record device">>
ChangePoints == Range(FaultPoints) \cup Range(EventPoints)
Row == [table: {"timed", "faults", "events", "record"}, value: Values \cup {Unknown}, at: 0 .. MaxNow,
        point: ChangePoints \cup Range(TimedPoints), run: 1 .. MaxRuns]

\* The calls of a cycle, in their order.
Due(n) == SelectSeq(IF task = "business" THEN <<"real", "faults", "events", "delete">>
                    ELSE <<"record", "purge">>,
            LAMBDA s : CASE s = "real" -> n % RealEvery = 0
                         [] s \in {"faults", "events"} -> n % EventEvery = 0
                         [] s = "delete" -> n % DayEvery = 0
                         [] s = "record" -> TRUE
                         [] s = "purge" -> n % PurgeEvery = 0)

\* The configuration of the points, read when the firmware starts: no value of
\* a point is known.
kit_get_faults_config == [p \in Range(FaultPoints) |-> Unknown]
kit_get_event_config == [p \in Range(EventPoints) |-> Unknown]
FirstValues ==
  [p \in ChangePoints |-> IF p \in Range(FaultPoints) THEN kit_get_faults_config[p]
                                                      ELSE kit_get_event_config[p]]

StoreInit ==
  /\ task \in {"business", "record"}
  /\ biz = EmptyConn
  /\ mirror = [t \in Range(Copies) |-> [version |-> 0, rows |-> 0]]
  /\ conf = 1
  /\ boot = Copies
  /\ todo = <<>>
  /\ exeCount = 0
  /\ now = 0
  /\ last = FirstValues
  /\ run = 1
  /\ failures = 0

Failing(ret) == /\ ret = 1 => failures < MaxStoreFailures \/ biz.tx
                /\ failures' = IF ret = 1 /\ ~biz.tx THEN failures + 1 ELSE failures

\* mutant of SyncTable: the last row of the table is not copied.
SyncTableShort(t) ==
  /\ boot # <<>>
  /\ Head(boot) = t
  /\ boot' = Tail(boot)
  /\ mirror' = [mirror EXCEPT ![t] = [version |-> conf, rows |-> ConfigRows - 1]]
  /\ todo' = IF boot' = <<>> THEN Due(0) ELSE todo
  /\ UNCHANGED <<task, biz, conf, exeCount, now, last, run, failures>>

\* A copy of a configuration table: DELETE, then one INSERT per row, each its
\* own transaction.  Its result is not used by kit_init_db; a stop of the
\* firmware in the middle is a failure followed by a restart.
SyncTable(t) ==
  /\ boot # <<>>
  /\ Head(boot) = t
  /\ boot' = Tail(boot)
  /\ \/ /\ mirror' = [mirror EXCEPT ![t] = [version |-> conf, rows |-> ConfigRows]]
        /\ Failing(0)
     \/ /\ \E n \in 0 .. ConfigRows - 1 :
             mirror' \in {mirror, [mirror EXCEPT ![t] = [version |-> conf, rows |-> n]]}
        /\ Failing(1)
  /\ todo' = IF boot' = <<>> THEN Due(0) ELSE todo
  /\ UNCHANGED <<task, biz, conf, exeCount, now, last, run>>

kit_sync_dev_data == SyncTable("device")
kit_sync_point_data == SyncTable("point")
kit_sync_record_point_data == SyncTable("record point")
kit_sync_record_dev_data == SyncTable("record device")

\* The call at the head of the cycle.
Doing(call) == boot = <<>> /\ todo # <<>> /\ Head(todo) = call /\ todo' = Tail(todo)

\* Inserts rows, if any, into business.db.
InsertInto(new) ==
  IF new = <<>> THEN UNCHANGED <<biz, failures>>
  ELSE \E o \in Insertions(biz, new) : biz' = o.conn /\ Failing(o.ret)

kit_insert_timed_data(new) == InsertInto(new)
kit_insert_faults_data(new) == InsertInto(new)
kit_insert_events_data(new) == InsertInto(new)
kit_insert_record_data(new) == InsertInto(new)

\* Each table is written by its own function.
InsertTable(t, new) == CASE t = "timed"  -> kit_insert_timed_data(new)
                         [] t = "faults" -> kit_insert_faults_data(new)
                         [] t = "events" -> kit_insert_events_data(new)
                         [] t = "record" -> kit_insert_record_data(new)

NewRow(t, p, v) == [table |-> t, point |-> p, value |-> v, at |-> now, run |-> run]

SavePoints(t) ==
  /\ InsertTable(t, [i \in DOMAIN TimedPoints |-> NewRow(t, TimedPoints[i], Unknown)])
  /\ UNCHANGED <<task, mirror, conf, boot, exeCount, now, last, run>>

saveRealDataInterval == Doing("real") /\ SavePoints("timed")
saveRecordDataInterval == Doing("record") /\ SavePoints("record")

\* mutant of SaveChanges: the change is not noted.
SaveChangesUnnoted(t, points) ==
  \E rtdb \in [Range(points) -> Values] :
    LET changed == Only(points, {p \in Range(points) : rtdb[p] # last[p]}) IN
    /\ InsertTable(t, [i \in DOMAIN changed |-> NewRow(t, changed[i], rtdb[changed[i]])])
    /\ UNCHANGED <<task, mirror, conf, boot, exeCount, now, last, run>>

\* Stores the points whose value in the RTDB changed, after the changes are noted.
SaveChanges(t, points) ==
  \E rtdb \in [Range(points) -> Values] :
    LET changed == Only(points, {p \in Range(points) : rtdb[p] # last[p]}) IN
    /\ last' = [p \in ChangePoints |-> IF p \in DOMAIN rtdb THEN rtdb[p] ELSE last[p]]
    /\ InsertTable(t, [i \in DOMAIN changed |-> NewRow(t, changed[i], rtdb[changed[i]])])
    /\ UNCHANGED <<task, mirror, conf, boot, exeCount, now, run>>

saveFaultsDataInterval == Doing("faults") /\ SaveChanges("faults", FaultPoints)
saveEventDataInterval == Doing("events") /\ SaveChanges("events", EventPoints)

\* A row is deleted from its table when it is older than the table's period.
Period(t) == CASE t = "timed" -> KeepTimed [] t = "record" -> KeepRecord [] OTHER -> KeepFaults
Expired(row) == row.at + Period(row.table) < now

DeleteFrom(t, c) == Deletions(c, {r \in Row : r.table # t \/ ~Expired(r)})

kit_del_timed_data_by_date(c) == DeleteFrom("timed", c)
\* mutant of kit_del_faults_data_by_date: a row exactly as old as the period is deleted.
DeleteFaultsEarly(c) ==
  Deletions(c, {r \in Row : r.table # "faults" \/ r.at + KeepFaults > now})
kit_del_faults_data_by_date(c) == DeleteFrom("faults", c)
kit_del_events_data_by_date(c) == DeleteFrom("events", c)
kit_del_record_data_by_date(c) == DeleteFrom("record", c)

\* The three deletions follow each other; one that fails does not stop the rest.
delDbBusDataInterval ==
  /\ Doing("delete")
  /\ \E t \in kit_del_timed_data_by_date(biz) :
       \E f \in kit_del_faults_data_by_date(t.conn) :
         \E e \in kit_del_events_data_by_date(f.conn) :
           /\ biz' = e.conn
           /\ Failing(IF <<t.ret, f.ret, e.ret>> = <<0, 0, 0>> THEN 0 ELSE 1)
  /\ UNCHANGED <<task, mirror, conf, boot, exeCount, now, last, run>>

delRecordDataInterval ==
  /\ Doing("purge")
  /\ \E o \in kit_del_record_data_by_date(biz) : biz' = o.conn /\ Failing(o.ret)
  /\ UNCHANGED <<task, mirror, conf, boot, exeCount, now, last, run>>

\* mutant of NextCycle: the cycle count does not wrap.
NextCyclePast ==
  /\ boot = <<>>
  /\ todo = <<>>
  /\ now < MaxNow
  /\ now' = now + 1
  /\ exeCount' = exeCount + 1
  /\ todo' = Due(exeCount')
  /\ UNCHANGED <<task, biz, mirror, conf, boot, last, run, failures>>

\* The end of the loop of oneSecondTaskHandle and recordDataTaskHandle: the
\* cycle count wraps at MAX_EXE_COUNT, a day, and a second passes.
NextCycle ==
  /\ boot = <<>>
  /\ todo = <<>>
  /\ now < MaxNow
  /\ now' = now + 1
  /\ exeCount' = (exeCount + 1) % DayEvery
  /\ todo' = Due(exeCount')
  /\ UNCHANGED <<task, biz, mirror, conf, boot, last, run, failures>>

oneSecondTaskHandle == task = "business" /\ NextCycle
recordDataTaskHandle == task = "record" /\ NextCycle

\* The rest of the system: the web edits the configuration, the firmware stops
\* at any point and is started again.
EditConfiguration ==
  /\ conf < MaxConf
  /\ boot # <<>>      \* only a boot reads it; a later edit waits for the next
  /\ conf' = conf + 1
  /\ UNCHANGED <<task, biz, mirror, boot, todo, exeCount, now, last, run, failures>>

kit_init_db ==
  /\ run < MaxRuns
  /\ run' = run + 1
  /\ biz' = Reopened(biz)
  /\ boot' = Copies
  /\ todo' = <<>>
  /\ exeCount' = 0
  /\ last' = FirstValues
  /\ UNCHANGED <<task, mirror, conf, now, failures>>

StoreNext ==
  \/ kit_sync_dev_data
  \/ kit_sync_point_data
  \/ kit_sync_record_point_data
  \/ kit_sync_record_dev_data
  \/ saveRealDataInterval
  \/ saveRecordDataInterval
  \/ saveFaultsDataInterval
  \/ saveEventDataInterval
  \/ delDbBusDataInterval
  \/ delRecordDataInterval
  \/ oneSecondTaskHandle
  \/ recordDataTaskHandle
  \/ EditConfiguration
  \/ kit_init_db

StoreSpec == StoreInit /\ [][StoreNext]_storeVars

-----------------------------------------------------------------------------
(* Properties.                                                               *)

\* Types of the state.
StoreTypeOK ==
  /\ biz \in Conn(Row)
  /\ mirror \in [Range(Copies) ->
                   [version : 0 .. MaxConf, rows : 0 .. ConfigRows]]
  /\ now \in 0 .. MaxNow /\ exeCount \in 0 .. DayEvery - 1 /\ run \in 1 .. MaxRuns
  /\ last \in [ChangePoints -> Values \cup {Unknown}]
  /\ failures \in 0 .. MaxStoreFailures

\* The rows of a fault or event stored by one run of the firmware.
RowsOf(p, r) ==
  Only(biz.rows, {row \in Row : row.table \in {"faults", "events"} /\ row.point = p /\ row.run = r})

\* As long as no call has failed, a fault or an event is stored once per change:
\* two following rows of a point differ, the last one is the value the task
\* knows, and no transaction is left open between the calls, restarts and
\* deletions included.
ChangesStoredOnce ==
  failures = 0 =>
    /\ ~biz.tx
    /\ \A p \in ChangePoints, r \in 1 .. run :
         LET s == RowsOf(p, r) IN
         /\ \A i \in 1 .. Len(s) - 1 : s[i].value # s[i + 1].value
         /\ r = run /\ s # <<>> => s[Len(s)].value = last[p]

\* A committed row stays until its table's period is over, whatever call fails
\* and whenever the firmware stops: an insertion, a deletion of another table
\* and a rollback touch none of them, and their order stays.
KeptForItsPeriod ==
  [][\E purged \in SUBSET {"timed", "faults", "events", "record"} :
       LET kept == Only(biz.rows, {r \in Row : r.table \notin purged \/ ~Expired(r)})
       IN  IsPrefix(kept, biz.rows')]_storeVars

\* A boot without a failing call leaves the four copies complete, and none is
\* older than the copy made before it.
MirrorsFollow ==
  failures = 0 /\ boot = <<>> =>
    /\ \A t \in DOMAIN mirror : mirror[t].rows = ConfigRows
    /\ \A i \in 1 .. Len(Copies) - 1 :
         mirror[Copies[i]].version <= mirror[Copies[i + 1]].version
=============================================================================
