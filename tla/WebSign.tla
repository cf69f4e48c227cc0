------------------------------- MODULE WebSign -------------------------------
(* The signs in shared memory by which a page of the web backend tells a      *)
(* thread of the firmware what to do (bsp_shm.c): load a changed              *)
(* configuration (logic_di.c, logic_do.c, app_bms_ctrl.c, kit_db.c), upgrade  *)
(* the firmware (app_timer.c) or export the day's data (app_data_storage.c).  *)
(* The signs do not interact, so a behaviour follows one of them.             *)
EXTENDS Integers

CONSTANTS
  Day,          \* a day, in ticks of 20 seconds
  Night,        \* the ticks of the minute 00:10
  MaxSaves,     \* bound: changes, requests or confirmations of the pages
  MaxStarts,    \* bound: starts of the firmware and of the web backend
  MaxQueries,   \* bound: queries that fail
  MaxExport     \* bound: ticks an export lasts

WaitAfterExport == 3    \* 60 seconds

\* The minute is no longer than the wait after an export, and ends no earlier
\* than that wait does when it began before midnight.
ASSUME SignAssumption ==
  /\ Day \in Nat \ {0} /\ MaxSaves \in Nat \ {0} /\ MaxExport \in Nat
  /\ \E first, last \in Night :
       /\ Night = first .. last /\ Night \subseteq 0 .. Day - 1
       /\ last - first < WaitAfterExport /\ last + 1 >= WaitAfterExport

VARIABLES
  kind,         \* what the sign is about
  sign,         \* 0, 1 or 100
  page,         \* what the pages have saved, and whether the sign was written since
  reader,       \* the thread that reads the sign: where it is, what it has loaded
  sent,         \* the limits last sent to the RBMS devices
  upgrades,     \* confirmed by the page, begun, and still running
  exports,      \* the export thread and its clock
  starts, queries   \* so far: starts of the backend, of both, failed queries

signVars == <<kind, sign, page, reader, sent, upgrades, exports, starts, queries>>

Configs == {"di", "do", "ctrl"}
Empty == 0                     \* a configuration after the memset
Limits(version) == version \div 2    \* every other change alters one of the limits

SignInit ==
  /\ kind \in Configs \cup {"upgrade", "export"}
  /\ sign = 0
  /\ page = [saved |-> 1, told |-> TRUE]
  /\ reader = [at |-> "start", has |-> Empty]
  /\ sent = Limits(Empty)
  /\ upgrades = [confirmed |-> 0, begun |-> 0, running |-> 0]
  /\ exports = [wait |-> 0, tick |-> 0, day |-> "none", flag |-> 0, long |-> 0, done |-> 0, alone |-> TRUE]
  /\ starts = [web |-> 0, all |-> 0]
  /\ queries = 0

writeWebSignShm(val) == sign' = val
readWebSignShm == sign

-----------------------------------------------------------------------------
(* The pages.                                                                *)

\* A page saves a configuration, then it writes the sign.
SaveConfig ==
  /\ kind \in Configs
  /\ page.saved < MaxSaves
  /\ page' = [saved |-> page.saved + 1, told |-> FALSE]
  /\ UNCHANGED <<kind, sign, reader, sent, upgrades, exports, starts, queries>>

TellConfig ==
  /\ ~page.told
  /\ page' = [page EXCEPT !.told = TRUE]
  /\ writeWebSignShm(1)
  /\ UNCHANGED <<kind, reader, sent, upgrades, exports, starts, queries>>

ConfirmUpgrade ==
  /\ kind = "upgrade"
  /\ upgrades.confirmed < MaxSaves
  /\ upgrades' = [upgrades EXCEPT !.confirmed = @ + 1]
  /\ writeWebSignShm(1)
  /\ UNCHANGED <<kind, page, reader, sent, exports, starts, queries>>

AskExport ==
  /\ kind = "export"
  /\ page.saved < MaxSaves
  /\ page' = [page EXCEPT !.saved = @ + 1]
  /\ writeWebSignShm(1)
  /\ exports' = [exports EXCEPT !.alone = FALSE]
  /\ UNCHANGED <<kind, reader, sent, upgrades, starts, queries>>

\* Either process clears the signs when it starts; the firmware also starts
\* its threads again.
initWebSignShm ==
  /\ starts.all < MaxStarts
  /\ writeWebSignShm(0)
  /\ \/ /\ reader' = [at |-> "start", has |-> Empty]
        /\ sent' = Limits(Empty)
        /\ upgrades' = [upgrades EXCEPT !.running = 0]
        /\ exports' = [exports EXCEPT !.wait = 0, !.day = "none", !.alone = FALSE]
        /\ starts' = [starts EXCEPT !.all = @ + 1]
     \/ /\ starts' = [web |-> starts.web + 1, all |-> starts.all + 1]
        /\ UNCHANGED <<reader, sent, upgrades, exports>>
  /\ UNCHANGED <<kind, page, queries>>

-----------------------------------------------------------------------------
(* Configurations.                                                           *)

Load(version) == reader' = [at |-> "poll", has |-> version]
QueryFails == queries < MaxQueries /\ queries' = queries + 1

\* A query that fails leaves the configuration empty.
kit_db_get_di_config ==
  \/ Load(page.saved) /\ UNCHANGED queries
  \/ Load(Empty) /\ QueryFails
kit_db_get_do_config ==
  \/ Load(page.saved) /\ UNCHANGED queries
  \/ Load(Empty) /\ QueryFails

LoadConfig ==
  /\ reader.at \in {"start", "load"}
  /\ \/ kind = "di" /\ kit_db_get_di_config
     \/ kind = "do" /\ kit_db_get_do_config
  /\ UNCHANGED <<kind, sign, page, sent, upgrades, exports, starts>>

\* mutant of SeeConfig: the configuration is loaded before its sign is cleared.
SeeConfigLate ==
  /\ kind \in {"di", "do"}
  /\ \/ /\ reader.at = "poll" /\ readWebSignShm # 0
        /\ reader' = [at |-> "clear", has |-> page.saved]
        /\ UNCHANGED sign
     \/ /\ reader.at = "clear"
        /\ reader' = [reader EXCEPT !.at = "poll"]
        /\ writeWebSignShm(0)
  /\ UNCHANGED <<kind, page, sent, upgrades, exports, starts, queries>>

\* The DI and the DO thread clear the sign, then load.
SeeConfig ==
  /\ kind \in {"di", "do"}
  /\ reader.at = "poll"
  /\ readWebSignShm # 0
  /\ reader' = [reader EXCEPT !.at = "load"]
  /\ writeWebSignShm(0)
  /\ UNCHANGED <<kind, page, sent, upgrades, exports, starts, queries>>

\* The control thread loads, sends limits that differ, then clears the sign.
SeeControl ==
  /\ kind = "ctrl"
  /\ reader.at = "poll"
  /\ readWebSignShm # 0
  /\ reader' = [reader EXCEPT !.at = "load"]
  /\ UNCHANGED <<kind, sign, page, sent, upgrades, exports, starts, queries>>

\* Two queries, the system configuration and the control configuration.
kit_get_bms_config_sys(ret) == IF ret = 0 THEN UNCHANGED queries ELSE QueryFails
kit_get_bms_config_ctrl(ret) == IF ret = 0 THEN UNCHANGED queries ELSE QueryFails

readBmsCtrlFromDb ==
  /\ kind = "ctrl"
  /\ reader.at \in {"start", "load"}
  /\ \E ret \in 0 .. 1 :
       /\ kit_get_bms_config_sys(ret) \/ kit_get_bms_config_ctrl(ret)
       /\ reader' = [at  |-> IF reader.at = "start" THEN "poll" ELSE "clear",
                     has |-> IF ret = 0 THEN page.saved ELSE reader.has]
       /\ sent' = IF ret = 0 /\ Limits(page.saved) # Limits(reader.has)
                    THEN Limits(page.saved) ELSE sent
  /\ UNCHANGED <<kind, sign, page, upgrades, exports, starts>>

ClearControl ==
  /\ kind = "ctrl"
  /\ reader.at = "clear"
  /\ reader' = [reader EXCEPT !.at = "poll"]
  /\ writeWebSignShm(0)
  /\ UNCHANGED <<kind, page, sent, upgrades, exports, starts, queries>>

-----------------------------------------------------------------------------
(* Upgrade: timer1s_task.                                                    *)

StartTimer ==
  /\ kind = "upgrade"
  /\ reader.at = "start"
  /\ reader' = [reader EXCEPT !.at = "poll"]
  /\ UNCHANGED <<kind, sign, page, sent, upgrades, exports, starts, queries>>

SeeUpgrade ==
  /\ kind = "upgrade"
  /\ reader.at = "poll"
  /\ readWebSignShm = 1
  /\ reader' = [reader EXCEPT !.at = "clear"]
  /\ UNCHANGED <<kind, sign, page, sent, upgrades, exports, starts, queries>>

\* mutant of ClearUpgrade: the sign is left for the worker to clear.
ClearUpgradeNot ==
  /\ kind = "upgrade"
  /\ reader.at = "clear"
  /\ reader' = [reader EXCEPT !.at = "begin"]
  /\ UNCHANGED <<kind, sign, page, sent, upgrades, exports, starts, queries>>

ClearUpgrade ==
  /\ kind = "upgrade"
  /\ reader.at = "clear"
  /\ reader' = [reader EXCEPT !.at = "begin"]
  /\ writeWebSignShm(0)
  /\ UNCHANGED <<kind, page, sent, upgrades, exports, starts, queries>>

\* A worker thread is created; its creation may fail.
BeginUpgrade ==
  /\ kind = "upgrade"
  /\ reader.at = "begin"
  /\ reader' = [reader EXCEPT !.at = "poll"]
  /\ upgrades' \in {upgrades, [upgrades EXCEPT !.begun = @ + 1, !.running = @ + 1]}
  /\ UNCHANGED <<kind, sign, page, sent, exports, starts, queries>>

\* The installation of a package ends without replacing the firmware (no
\* package, several of them, or an error of dpkg); otherwise the firmware stops.
app_scu_soft_update ==
  /\ upgrades.running > 0
  /\ upgrades' = [upgrades EXCEPT !.running = @ - 1]
  /\ UNCHANGED <<kind, sign, page, reader, sent, exports, starts, queries>>

-----------------------------------------------------------------------------
(* Export: creat_data_export_thread.  Time advances while it sleeps or works. *)

\* The half hour before the start is exported.
StartExports ==
  /\ kind = "export"
  /\ reader.at = "start"
  /\ reader' = [reader EXCEPT !.at = "poll"]
  /\ UNCHANGED <<kind, sign, page, sent, upgrades, exports, starts, queries>>

\* Any sign but 0 exports the current day, the 100 of an older answer included.
SeeExport ==
  /\ kind = "export"
  /\ reader.at = "poll"
  /\ exports.wait = 0
  /\ IF exports.tick \in Night \/ readWebSignShm = 1
       THEN /\ reader' = [reader EXCEPT !.at = "export"]
            /\ exports' = [exports EXCEPT
                 !.day = IF readWebSignShm = 0 THEN "yesterday" ELSE "today",
                 !.flag = readWebSignShm, !.long = 0]
       ELSE /\ exports' = [exports EXCEPT !.wait = 1]
            /\ UNCHANGED reader
  /\ UNCHANGED <<kind, sign, page, sent, upgrades, starts, queries>>

EndExport ==
  /\ kind = "export"
  /\ reader.at = "export"
  /\ reader' = [reader EXCEPT !.at = "poll"]
  /\ IF exports.flag = 1 THEN writeWebSignShm(100) ELSE UNCHANGED sign
  /\ exports' = [exports EXCEPT !.wait = WaitAfterExport, !.day = "none",
                   !.done = IF exports.day = "yesterday" THEN @ + 1 ELSE @]
  /\ UNCHANGED <<kind, page, sent, upgrades, starts, queries>>

PassTime ==
  /\ kind = "export"
  /\ \/ reader.at = "poll" /\ exports.wait > 0
     \/ reader.at = "export" /\ exports.long < MaxExport
  /\ exports' = [exports EXCEPT
       !.tick = (@ + 1) % Day,
       !.wait = IF @ > 0 THEN @ - 1 ELSE 0,
       !.long = IF reader.at = "export" THEN @ + 1 ELSE 0,
       !.done = IF exports.tick = Day - 1 THEN 0 ELSE @,
       !.alone = IF exports.tick = Day - 1 THEN sign = 0 /\ reader.at # "export" ELSE @]
  /\ UNCHANGED <<kind, sign, page, reader, sent, upgrades, starts, queries>>

SignNext ==
  \/ SaveConfig \/ TellConfig \/ ConfirmUpgrade \/ AskExport \/ initWebSignShm
  \/ LoadConfig \/ SeeConfig \/ SeeControl \/ readBmsCtrlFromDb \/ ClearControl
  \/ StartTimer \/ SeeUpgrade \/ ClearUpgrade \/ BeginUpgrade \/ app_scu_soft_update
  \/ StartExports \/ SeeExport \/ EndExport \/ PassTime

SignSpec == SignInit /\ [][SignNext]_signVars

-----------------------------------------------------------------------------
(* Properties.                                                               *)

\* Types of the state.
SignTypeOK ==
  /\ kind \in Configs \cup {"upgrade", "export"}
  /\ sign \in {0, 1, 100}
  /\ page \in [saved: 1 .. MaxSaves, told: BOOLEAN]
  /\ reader \in [at: {"start", "poll", "load", "clear", "begin", "export"}, has: 0 .. MaxSaves]
  /\ upgrades.running <= upgrades.begun
  /\ exports.tick \in 0 .. Day - 1

\* A change of the inputs or outputs is never forgotten: as long as no query
\* failed and the web backend did not start again, a configuration that differs
\* from the saved one is about to be loaded or announced.  The command of the
\* control thread has the limits that it uses.
ChangesNoticed ==
  /\ kind \in {"di", "do"} /\ reader.has # page.saved /\ queries = 0 /\ starts.web = 0 =>
       ~page.told \/ sign # 0 \/ reader.at \in {"start", "load"}
  /\ kind = "ctrl" => sent = Limits(reader.has)

\* A confirmation begins one upgrade at most, however the page, the timer
\* thread and the workers interleave.
UpgradeOncePerRequest == upgrades.begun <= upgrades.confirmed

\* The data of yesterday are exported in the minute 00:10, once, if nobody asks
\* for an export and the firmware is not started again that day.
NightExportedOnce ==
  exports.alone /\ exports.day # "yesterday" /\ (\A t \in Night : t < exports.tick) =>
    exports.done = (IF kind = "export" THEN 1 ELSE 0)

\* A request written into a sign is served once: a confirmed upgrade begins
\* once, and the nightly export is made once (app_timer.c, app_data_storage.c).
RequestsServedOnce == UpgradeOncePerRequest /\ NightExportedOnce
=============================================================================
