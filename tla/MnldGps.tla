------------------------------ MODULE MnldGps ------------------------------
(***************************************************************************)
(* The GPS session engine of the mnld daemon: the main thread and its      *)
(* state machine (mnld.c), the GPS control thread (gps_controller.c), the  *)
(* two datagram sockets between them, the watchdog timers and the MNL      *)
(* library (libmnl, external).                                             *)
(*                                                                         *)
(* Main-thread handlers run one at a time, so each of them is one step.    *)
(* A client message is handled in the step in which it is received.  A     *)
(* cleared need_*_ack flag stands for the acknowledgement being sent.      *)
(***************************************************************************)
EXTENDS Naturals, Sequences

CONSTANTS
  Clients,        \* the GPS clients, a subset of AllClients
  Bits,           \* the aiding-data bits of delete_aiding_flag
  NamedRestarts,  \* the bit sets that have a restart type of their own
  Offload,        \* mnl_offload_is_enabled()
  SuplEnabled,    \* mnl_config.SUPL_enabled
  StartFailures,  \* the ways in which mnld_gps_start() may fail
  StopMayFail,    \* whether mtk_gps_sys_uninit() may fail
  MainCap,        \* datagrams the main socket holds
  GpsCap          \* datagrams the control socket holds

AllClients == {"hal", "agps", "flp", "flp_test", "at_cmd_test", "factory"}

\* Clients whose start and stop requests are acknowledged.
AckClients == {"hal", "agps", "flp"}

ASSUME ClientsAssumption == Clients \subseteq AllClients
ASSUME OffloadAssumption == Offload \in BOOLEAN /\ SuplEnabled \in BOOLEAN
ASSUME FailureAssumption ==
  StartFailures \subseteq {"pwrctl", "init", "late"} /\ StopMayFail \in BOOLEAN
ASSUME CapAssumption == MainCap \in Nat \ {0} /\ GpsCap \in Nat \ {0}

VARIABLES
  gps_state,    \* gps_status.gps_state
  gs,           \* client flags, delete_aiding_flag; ghosts owed and hot
  timers,       \* the timers that are armed
  waitFix,      \* gps_status.wait_first_location
  mainq,        \* MNLD_MAIN_SOCKET
  gpsq,         \* MNLD_GPS_CONTROL_SOCKET
  mnl,          \* the MNL library
  ctl,          \* the control thread: idle, or inside mnld_gps_start()
  drv,          \* the state attribute of the GPS driver (sysfs)
  wakelock,     \* the wakelock the HAL holds for mnld
  crashed,      \* why the process died, if it did
  rebooted      \* history: the process has died before

vars == <<gps_state, gs, timers, waitFix, mainq, gpsq, mnl, ctl, drv,
          wakelock, crashed, rebooted>>

States == {"IDLE", "STARTING", "STARTED", "STOPPING"}

Timers == {"start", "stop", "reset", "nmea"}

GpsMsgs == [cmd : {"START", "STOP", "RESET", "NMEA"}, flags : SUBSET Bits]

MainMsgs == {"START_DONE", "STOP_DONE", "RESET_DONE", "NMEA_TIMEOUT", "LOCATION"}

GsType == [used : SUBSET Clients, open : SUBSET Clients, close : SUBSET Clients,
           reset : BOOLEAN, flag : SUBSET Bits,
           owed : SUBSET Bits, hot : SUBSET Bits]

TypeOK ==
  /\ gps_state \in States
  /\ gs \in GsType
  /\ timers \in SUBSET Timers
  /\ waitFix \in BOOLEAN
  /\ mainq \in Seq(MainMsgs)
  /\ gpsq \in Seq(GpsMsgs)
  /\ mnl \in {"off", "booting", "ready"}
  /\ ctl \in {"idle", "starting"}
  /\ drv \in {"INIT", "START", "PWROFF"}
  /\ wakelock \in BOOLEAN
  /\ crashed \in {"no", "unexpected", "timeout"}
  /\ rebooted \in BOOLEAN

InitGs == [used |-> {}, open |-> {}, close |-> {}, reset |-> FALSE,
           flag |-> {}, owed |-> {}, hot |-> {}]

Init ==
  /\ gps_state = "IDLE"
  /\ gs = InitGs
  /\ timers = {}
  /\ waitFix = FALSE
  /\ mainq = <<>>
  /\ gpsq = <<>>
  /\ mnl = "off"
  /\ ctl = "idle"
  /\ drv = "PWROFF"
  /\ wakelock = FALSE
  /\ crashed = "no"
  /\ rebooted = FALSE

(***************************************************************************)
(* safe_sendto: a datagram that finds the socket full is dropped once the  *)
(* retries are used up, and the callers ignore the result.                 *)
(***************************************************************************)
SendMain(m) == IF Len(mainq) < MainCap THEN Append(mainq, m) ELSE mainq

SendGps(q, m) == IF Len(q) < GpsCap THEN Append(q, m) ELSE q

GpsCmd(c, f) == [cmd |-> c, flags |-> f]

\* The flags leave delete_aiding_flag with the command that carries them; a
\* command that is dropped takes them with it.
FlagsSent(s, q) ==
  [s EXCEPT !.flag = {},
            !.owed = IF Len(q) < GpsCap THEN @ ELSE @ \ s.flag]

(***************************************************************************)
(* The acknowledgement handlers of the main thread, as functions of the    *)
(* client flags.                                                           *)
(***************************************************************************)
\* Faulty variant: acknowledging a reset also forgets the pending deletion.
do_gps_reset_hdlr_ClearFlag(s) == [s EXCEPT !.reset = FALSE, !.flag = {}]

do_gps_reset_hdlr(s) == [s EXCEPT !.reset = FALSE]

\* Faulty variant: a completed start answers no open request.
do_gps_started_hdlr_NoOpenAck(s) ==
  IF s.flag = {} THEN do_gps_reset_hdlr(s) ELSE FlagsSent(do_gps_reset_hdlr(s), gpsq)

\* Acknowledge every pending open, then the reset, then send the deletion
\* that is still waiting.
do_gps_started_hdlr(s) ==
  LET acked == do_gps_reset_hdlr([s EXCEPT !.open = {}])
  IN  IF s.flag = {} THEN acked ELSE FlagsSent(acked, gpsq)

StartedQueue(s) ==
  IF s.flag = {} THEN gpsq ELSE SendGps(gpsq, GpsCmd("RESET", s.flag))

\* Faulty variant: a reset is sent without its watchdog.
StartedTimers_Unwatched(s) == timers

StartedTimers(s) == IF s.flag = {} THEN timers ELSE timers \cup {"reset"}

do_gps_stopped_hdlr(s) == do_gps_reset_hdlr([s EXCEPT !.close = {}])

\* Faulty variants: the test clients are forgotten; a client whose close is still
\* to be acknowledged counts as a user.
is_all_gps_client_exit_DaemonsOnly(s) == s.used \cap AckClients = {}

is_all_gps_client_exit_PendingClose(s) == s.used = {} /\ s.close = {}

is_all_gps_client_exit(s) == s.used = {}

is_a_gps_client_exist(s) == s.used # {}

\* Faulty variant: the user mask is tested for the HAL only.
OffloadOnly_NoHal(s) == "hal" \notin s.used

\* Only FLP or the offload test use GPS and the GPS chip runs offloaded.
OffloadOnly(s) == s.used \subseteq {"flp", "flp_test"} /\ Offload

WithStartTimer(s, t) == IF OffloadOnly(s) THEN t ELSE t \cup {"start"}

(***************************************************************************)
(* The state machine.  s is the value of gs with the caller's changes      *)
(* already made.                                                           *)
(***************************************************************************)
\* Faulty variant: the session begins without asking the HAL for the wakelock.
BeginSession_NoWakelock(s) ==
  /\ waitFix' = TRUE
  /\ gps_state' = "STARTING"
  /\ timers' = WithStartTimer(s, timers)
  /\ gpsq' = SendGps(gpsq, GpsCmd("START", s.flag))
  /\ gs' = FlagsSent(s, gpsq)
  /\ UNCHANGED <<wakelock, crashed>>

BeginSession(s) ==
  /\ wakelock' = TRUE
  /\ waitFix' = TRUE
  /\ gps_state' = "STARTING"
  /\ timers' = WithStartTimer(s, timers)
  /\ gpsq' = SendGps(gpsq, GpsCmd("START", s.flag))
  /\ gs' = FlagsSent(s, gpsq)
  /\ UNCHANGED crashed

fsm_gps_state_idle(event, s) ==
  \/ event = "START" /\ BeginSession(s)
  \/ /\ event \in {"STOP", "RESET"}
     /\ gs' = IF event = "STOP" THEN do_gps_stopped_hdlr(s) ELSE do_gps_reset_hdlr(s)
     /\ UNCHANGED <<gps_state, timers, gpsq, wakelock, waitFix, crashed>>
  \/ /\ event \in {"START_DONE", "STOP_DONE"}
     /\ gs' = s
     /\ UNCHANGED <<gps_state, timers, gpsq, wakelock, waitFix, crashed>>

fsm_gps_state_starting(event, s) ==
  \/ /\ event \in {"START", "STOP", "RESET"}
     /\ gs' = s
     /\ UNCHANGED <<gps_state, timers, gpsq, wakelock, waitFix, crashed>>
  \/ /\ event = "START_DONE"
     /\ gs' = do_gps_started_hdlr(s)
     /\ IF is_all_gps_client_exit(s)
        THEN /\ gps_state' = "STOPPING"
             /\ timers' = (StartedTimers(s) \ {"start"}) \cup {"stop"}
             /\ gpsq' = SendGps(StartedQueue(s), GpsCmd("STOP", {}))
        ELSE /\ gps_state' = "STARTED"
             /\ timers' = StartedTimers(s) \ {"start"}
             /\ gpsq' = StartedQueue(s)
     /\ UNCHANGED <<wakelock, waitFix, crashed>>
  \/ /\ event = "STOP_DONE"
     /\ crashed' = "unexpected"
     /\ gs' = s
     /\ UNCHANGED <<gps_state, timers, gpsq, wakelock, waitFix>>

fsm_gps_state_started(event, s) ==
  \/ /\ event = "START"
     /\ gs' = do_gps_started_hdlr(s)
     /\ timers' = StartedTimers(s)
     /\ gpsq' = StartedQueue(s)
     /\ UNCHANGED <<gps_state, wakelock, waitFix, crashed>>
  \/ /\ event = "STOP"
     /\ is_all_gps_client_exit(s)
     /\ gps_state' = "STOPPING"
     /\ timers' = timers \cup {"stop"}
     /\ gpsq' = SendGps(gpsq, GpsCmd("STOP", {}))
     /\ gs' = s
     /\ UNCHANGED <<wakelock, waitFix, crashed>>
  \/ /\ event = "STOP"
     /\ ~is_all_gps_client_exit(s)
     /\ gs' = do_gps_stopped_hdlr(s)
     /\ UNCHANGED <<gps_state, timers, gpsq, wakelock, waitFix, crashed>>
  \/ /\ event = "RESET"
     /\ gs' = IF s.flag = {} THEN s ELSE FlagsSent(s, gpsq)
     /\ timers' = StartedTimers(s)
     /\ gpsq' = StartedQueue(s)
     /\ UNCHANGED <<gps_state, wakelock, waitFix, crashed>>
  \/ /\ event = "START_DONE"      \* MNL restarted by itself
     /\ gs' = s
     /\ UNCHANGED <<gps_state, timers, gpsq, wakelock, waitFix, crashed>>
  \/ /\ event = "STOP_DONE"
     /\ crashed' = "unexpected"
     /\ gs' = s
     /\ UNCHANGED <<gps_state, timers, gpsq, wakelock, waitFix>>

fsm_gps_state_stopping(event, s) ==
  \/ /\ event \in {"START", "STOP", "START_DONE"}
     /\ gs' = s
     /\ UNCHANGED <<gps_state, timers, gpsq, wakelock, waitFix, crashed>>
  \/ /\ event = "RESET"
     /\ gs' = do_gps_reset_hdlr(s)
     /\ UNCHANGED <<gps_state, timers, gpsq, wakelock, waitFix, crashed>>
  \/ /\ event = "STOP_DONE"
     /\ is_a_gps_client_exist(s)
     /\ gps_state' = "STARTING"
     /\ timers' = WithStartTimer(s, timers \ {"stop"})
     /\ gpsq' = SendGps(gpsq, GpsCmd("START", s.flag))
     /\ gs' = FlagsSent(do_gps_stopped_hdlr(s), gpsq)
     /\ UNCHANGED <<wakelock, waitFix, crashed>>
  \/ /\ event = "STOP_DONE"
     /\ ~is_a_gps_client_exist(s)
     /\ gps_state' = "IDLE"
     /\ timers' = timers \ {"stop"}
     /\ wakelock' = FALSE
     /\ waitFix' = FALSE
     /\ gs' = do_gps_stopped_hdlr(s)
     /\ UNCHANGED <<gpsq, crashed>>

mnld_fsm(event, s) ==
  \/ gps_state = "IDLE" /\ fsm_gps_state_idle(event, s)
  \/ gps_state = "STARTING" /\ fsm_gps_state_starting(event, s)
  \/ gps_state = "STARTED" /\ fsm_gps_state_started(event, s)
  \/ gps_state = "STOPPING" /\ fsm_gps_state_stopping(event, s)

Alive == crashed = "no"

(***************************************************************************)
(* Requests of the clients (hal_, agps_, flp2mnl_, flp_test2mnl_,          *)
(* at_test2mnl_ and factory_ handlers), each run by the main thread.       *)
(***************************************************************************)
ClientFrame == UNCHANGED <<mainq, mnl, ctl, drv, rebooted>>

\* Only an AckClient waits for the acknowledgement of a start or a stop.
ClientStart(c) ==
  /\ Alive
  /\ mnld_fsm("START", [gs EXCEPT !.used = @ \cup {c},
                                  !.open = @ \cup ({c} \cap AckClients),
                                  !.close = @ \ {c}])
  /\ ClientFrame

ClientStop(c) ==
  /\ Alive
  /\ mnld_fsm("STOP", [gs EXCEPT !.used = @ \ {c},
                                 !.open = @ \ {c},
                                 !.close = @ \cup ({c} \cap AckClients)])
  /\ ClientFrame

\* The client process restarted: its session ends and nobody awaits an answer.
ClientReboot(c) ==
  /\ Alive
  /\ c \in AckClients
  /\ mnld_fsm("STOP", [gs EXCEPT !.used = @ \ {c},
                                 !.open = @ \ {c},
                                 !.close = @ \ {c},
                                 !.reset = @ /\ c # "agps"])
  /\ ClientFrame

hal_gps_init ==
  /\ Alive
  /\ "hal" \in Clients
  /\ drv' = "INIT"
  /\ UNCHANGED <<gps_state, gs, timers, waitFix, mainq, gpsq, mnl, ctl, wakelock,
                 crashed, rebooted>>

hal_gps_delete_aiding_data(f) ==
  /\ Alive
  /\ "hal" \in Clients
  /\ mnld_fsm("RESET", [gs EXCEPT !.flag = @ \cup f, !.owed = @ \cup f])
  /\ ClientFrame

\* A request without flags is acknowledged at once and changes nothing.
agps_reset_gps_req(f) ==
  /\ Alive
  /\ "agps" \in Clients
  /\ f # {}
  /\ mnld_fsm("RESET", [gs EXCEPT !.flag = @ \cup f, !.owed = @ \cup f,
                                  !.reset = TRUE])
  /\ ClientFrame

(***************************************************************************)
(* main_event_hdlr: the main thread takes one internal event.              *)
(***************************************************************************)
TakeMain(m) ==
  /\ Alive
  /\ mainq # <<>>
  /\ Head(mainq) = m
  /\ mainq' = Tail(mainq)
  /\ UNCHANGED <<mnl, ctl, drv, rebooted>>

TakeStartDone == TakeMain("START_DONE") /\ mnld_fsm("START_DONE", gs)

TakeStopDone == TakeMain("STOP_DONE") /\ mnld_fsm("STOP_DONE", gs)

\* Faulty variant: the watchdog is stopped and AGPS is not answered.
TakeResetDone_TimerOnly ==
  /\ TakeMain("RESET_DONE")
  /\ timers' = timers \ {"reset"}
  /\ UNCHANGED <<gps_state, gs, waitFix, gpsq, wakelock, crashed>>

TakeResetDone ==
  /\ TakeMain("RESET_DONE")
  /\ timers' = timers \ {"reset"}
  /\ gs' = do_gps_reset_hdlr(gs)
  /\ UNCHANGED <<gps_state, waitFix, gpsq, wakelock, crashed>>

\* mtk_gps_clear_gps_user() clears gps_used and leaves the ack flags alone.
TakeNmeaTimeout ==
  /\ TakeMain("NMEA_TIMEOUT")
  /\ IF gps_state = "STARTED"
     THEN mnld_fsm("STOP", [gs EXCEPT !.used = {}])
     ELSE UNCHANGED <<gps_state, gs, timers, waitFix, gpsq, wakelock, crashed>>

TakeLocation ==
  /\ TakeMain("LOCATION")
  /\ waitFix' = FALSE
  /\ UNCHANGED <<gps_state, gs, timers, gpsq, wakelock, crashed>>

(***************************************************************************)
(* gps_control_event_hdlr: the control thread takes one command.  It is    *)
(* busy until mnld_gps_start() returns, while MNL already runs.            *)
(***************************************************************************)
TakeGps(c) ==
  /\ Alive
  /\ ctl = "idle"
  /\ gpsq # <<>>
  /\ Head(gpsq).cmd = c
  /\ gpsq' = Tail(gpsq)
  /\ UNCHANGED <<gps_state, waitFix, wakelock, crashed, rebooted>>

\* The deletion asked for in a START is done on the way, or given up with a
\* start that fails.
mnld_gps_start ==
  /\ TakeGps("START")
  /\ gs' = [gs EXCEPT !.owed = @ \ Head(gpsq).flags, !.hot = @ \ Head(gpsq).flags]
  /\ \/ mnl' = "booting" /\ ctl' = "starting"
     \/ StartFailures \cap {"pwrctl", "init"} # {} /\ mnl' = "off" /\ UNCHANGED ctl
  /\ UNCHANGED <<timers, mainq, drv>>

\* linux_gps_init() returns the status of mtk_gps_delete_nv_data(), and the
\* signal handler is set up last: a start may be undone while MNL runs.
mnld_gps_start_return ==
  /\ Alive
  /\ ctl = "starting"
  /\ ctl' = "idle"
  /\ \/ drv' = "START" /\ UNCHANGED mnl
     \/ "late" \in StartFailures /\ mnl' = "off" /\ UNCHANGED drv
  /\ UNCHANGED <<gps_state, gs, timers, waitFix, mainq, gpsq, wakelock, crashed,
                 rebooted>>

\* Faulty variants: completion is reported before MNL has stopped; it is reported
\* twice; the driver is left in its START state.
mnld_gps_stop_Early ==
  /\ TakeGps("STOP")
  /\ timers' = timers \ {"nmea"}
  /\ drv' = "PWROFF"
  /\ mainq' = SendMain("STOP_DONE")
  /\ UNCHANGED <<gs, ctl, mnl>>

mnld_gps_stop_Twice ==
  /\ TakeGps("STOP")
  /\ timers' = timers \ {"nmea"}
  /\ mnl' = "off"
  /\ drv' = "PWROFF"
  /\ mainq' = Append(SendMain("STOP_DONE"), "STOP_DONE")
  /\ UNCHANGED <<gs, ctl>>

mnld_gps_stop_KeepState ==
  /\ TakeGps("STOP")
  /\ timers' = timers \ {"nmea"}
  /\ mnl' = "off"
  /\ mainq' = SendMain("STOP_DONE")
  /\ UNCHANGED <<gs, ctl, drv>>

mnld_gps_stop ==
  /\ TakeGps("STOP")
  /\ timers' = timers \ {"nmea"}
  /\ mnl' = "off"
  /\ \/ drv' = "PWROFF" /\ mainq' = SendMain("STOP_DONE")
     \/ StopMayFail /\ UNCHANGED <<drv, mainq>>
  /\ UNCHANGED <<gs, ctl>>

\* A bit set without a restart type of its own is served by a hot restart,
\* which deletes nothing.
mnld_gps_delete_aiding_data ==
  /\ TakeGps("RESET")
  /\ gs' = IF Head(gpsq).flags \in NamedRestarts
           THEN [gs EXCEPT !.owed = @ \ Head(gpsq).flags]
           ELSE [gs EXCEPT !.hot = @ \cup Head(gpsq).flags]
  /\ mainq' = SendMain("RESET_DONE")
  /\ UNCHANGED <<timers, mnl, ctl, drv>>

mnld_gps_controller_mnl_nmea_timeout ==
  /\ TakeGps("NMEA")
  /\ timers' = timers \cup {"nmea"}
  /\ UNCHANGED <<gs, mainq, mnl, ctl, drv>>

(***************************************************************************)
(* The MNL library (external): it announces that it is ready, may announce *)
(* it again when it restarts by itself, reports its NMEA output (which     *)
(* re-arms the monitor) and locations, and may ask to be restarted when it *)
(* runs offloaded.                                                         *)
(***************************************************************************)
MnlFrame == UNCHANGED <<gps_state, gs, timers, waitFix, ctl, drv, wakelock, crashed,
                        rebooted>>

mtk_gps_sys_agps_disaptcher_callback ==
  /\ Alive
  /\ mnl # "off"
  /\ mnl' = "ready"
  /\ mainq' = IF SuplEnabled THEN SendMain("START_DONE") ELSE mainq
  /\ UNCHANGED gpsq
  /\ MnlFrame

send_active_notify ==
  /\ Alive
  /\ mnl # "off"
  /\ ~OffloadOnly(gs)
  /\ gpsq' = SendGps(gpsq, GpsCmd("NMEA", {}))
  /\ UNCHANGED <<mainq, mnl>>
  /\ MnlFrame

mnld_gps_update_location ==
  /\ Alive
  /\ mnl # "off"
  /\ mainq' = SendMain("LOCATION")
  /\ UNCHANGED <<gpsq, mnl>>
  /\ MnlFrame

mtk_gps_ofl_sys_rst_stpgps_req ==
  /\ Alive
  /\ mnl # "off"
  /\ Offload
  /\ mainq' = SendMain("NMEA_TIMEOUT")
  /\ UNCHANGED <<gpsq, mnl>>
  /\ MnlFrame

(***************************************************************************)
(* Timers.  Time is not modelled: an armed timer may expire at any moment. *)
(* The watchdogs crash the process on purpose, and init restarts it.  The  *)
(* wakelock is held by the HAL process and survives.                       *)
(***************************************************************************)
Watchdogs == {"start", "stop", "reset"}

WatchdogTimeout(t) ==
  /\ Alive
  /\ t \in timers
  /\ crashed' = "timeout"
  /\ UNCHANGED <<gps_state, gs, timers, waitFix, mainq, gpsq, mnl, ctl, drv, wakelock,
                 rebooted>>

gps_mnld_restart_mnl_process ==
  /\ Alive
  /\ "nmea" \in timers
  /\ timers' = timers \ {"nmea"}
  /\ mainq' = SendMain("NMEA_TIMEOUT")
  /\ UNCHANGED <<gps_state, gs, waitFix, gpsq, mnl, ctl, drv, wakelock, crashed, rebooted>>

Restart ==
  /\ ~Alive
  /\ gps_state' = "IDLE"
  /\ gs' = InitGs
  /\ timers' = {}
  /\ waitFix' = FALSE
  /\ mainq' = <<>>
  /\ gpsq' = <<>>
  /\ mnl' = "off"
  /\ ctl' = "idle"
  /\ drv' = "PWROFF"
  /\ crashed' = "no"
  /\ rebooted' = TRUE
  /\ UNCHANGED wakelock

MainThread ==
  TakeStartDone \/ TakeStopDone \/ TakeResetDone \/ TakeNmeaTimeout \/ TakeLocation

ControlThread ==
  \/ mnld_gps_start \/ mnld_gps_start_return \/ mnld_gps_stop
  \/ mnld_gps_delete_aiding_data \/ mnld_gps_controller_mnl_nmea_timeout

Requests ==
  \/ \E c \in Clients : ClientStart(c) \/ ClientStop(c) \/ ClientReboot(c)
  \/ \E f \in SUBSET Bits : hal_gps_delete_aiding_data(f) \/ agps_reset_gps_req(f)
  \/ hal_gps_init

Library ==
  \/ mtk_gps_sys_agps_disaptcher_callback \/ send_active_notify
  \/ mnld_gps_update_location \/ mtk_gps_ofl_sys_rst_stpgps_req

Next ==
  \/ Requests \/ MainThread \/ ControlThread \/ Library
  \/ \E t \in Watchdogs : WatchdogTimeout(t)
  \/ gps_mnld_restart_mnl_process \/ Restart

Spec == Init /\ [][Next]_vars

\* Both threads are always scheduled, a watchdog that stays armed expires in
\* the end, and init restarts a dead daemon.
Fairness ==
  /\ WF_vars(MainThread)
  /\ WF_vars(ControlThread)
  /\ \A t \in Watchdogs : WF_vars(WatchdogTimeout(t))
  /\ WF_vars(Restart)

FairSpec == Spec /\ Fairness

(***************************************************************************)
(* Properties.                                                             *)
(***************************************************************************)
HasCmd(q, c) == \E i \in 1..Len(q) : q[i].cmd = c

HasEvent(q, m) == \E i \in 1..Len(q) : q[i] = m

InGps(c) == HasCmd(gpsq, c)

InMain(m) == HasEvent(mainq, m)

\* Behind command c there are only NMEA notifications, behind event m only
\* NMEA timeouts.
LastCmd(q, c) ==
  \A i, j \in 1..Len(q) : q[i].cmd = c /\ i < j => q[j].cmd = "NMEA"

LastEvent(q, m) ==
  \A i, j \in 1..Len(q) : q[i] = m /\ i < j => q[j] = "NMEA_TIMEOUT"

\* MNL runs, or a start was undone after it announced itself.
Runs == mnl # "off" \/ "late" \in StartFailures

\* The main thread never meets the STOP_DONE that fsm_gps_state_starting() and
\* fsm_gps_state_started() answer with CRASH_TO_DEBUG: the daemon only ever
\* dies of a watchdog.
NoUnexpectedStopDone == crashed # "unexpected"

\* When the state machine is idle the engine is really off: MNL is stopped,
\* the driver is not in its START state, the control thread is not inside a
\* start, and no command that would switch anything is still on its way.
EngineOffWhenIdle ==
  gps_state = "IDLE" =>
    /\ mnl = "off" /\ ctl = "idle" /\ drv # "START"
    /\ ~InGps("START") /\ ~InGps("STOP") /\ ~InGps("RESET")

\* The control thread starts MNL only when it is off, and stops or restarts it
\* only when it runs (unless a start was undone after MNL announced itself).
CommandsMatchEngine ==
  (ctl = "idle" /\ gpsq # <<>>) =>
    /\ Head(gpsq).cmd = "START" => mnl = "off"
    /\ Head(gpsq).cmd \in {"STOP", "RESET"} => Runs

\* Whenever mnld_is_gps_started_done() answers yes, MNL runs and somebody uses
\* it; the exception is a start that linux_gps_init() undoes late.
StartedMeansRunning ==
  gps_state = "STARTED" => gs.used # {} /\ Runs

\* "need to call mnld_gps_start_done() when GPS is started"
\* (gps_controller.c): the main thread considers GPS started only while MNL runs.
StartDoneMeansStarted == gps_state = "STARTED" => mnl # "off"

\* Every start and every stop in progress is supervised by its watchdog, and no
\* watchdog of a finished start or stop is left to kill the daemon.
WatchdogsMatchState ==
  /\ "start" \in timers => gps_state = "STARTING"
  /\ gps_state = "STARTING" => "start" \in timers \/ Offload
  /\ "stop" \in timers <=> gps_state = "STOPPING"

\* The phone is kept awake as long as a session is in progress, and only a
\* death of the daemon can leave the wakelock of an idle daemon behind.
WakelockMatchesState ==
  /\ gps_state # "IDLE" => wakelock
  /\ wakelock => gps_state # "IDLE" \/ rebooted

\* An open request waits only for a start or stop in progress and only for a
\* client that still wants GPS; a close request never waits for a client that
\* came back; an idle daemon owes nobody an answer.
AcksMatchState ==
  /\ gs.open \subseteq gs.used
  /\ gs.close \cap gs.used = {}
  /\ gs.open # {} => gps_state \in {"STARTING", "STOPPING"}
  /\ gps_state = "IDLE" => gs.close = {} /\ ~gs.reset

\* A reset that AGPS waits for is supervised: by the reset watchdog, or by the
\* start in progress whose completion answers it.
ResetAckSupervised == gs.reset => "reset" \in timers \/ gps_state = "STARTING"

\* A session never sees an event of an earlier one: as long as its START has
\* not been taken, no completion and no location is waiting for the main
\* thread (an NMEA timeout may be).
NoStaleEvents ==
  (gps_state = "IDLE" \/ InGps("START")) =>
    \A m \in MainMsgs \ {"NMEA_TIMEOUT"} : ~InMain(m)

\* Aiding data a client asked to delete is still to be asked for, on its way to
\* the control thread, or was turned into a hot restart there: the state
\* machine forgets no request, whatever state it arrives in.
AidingAccounted ==
  gs.owed \subseteq gs.flag \cup gs.hot \cup UNION {gpsq[i].flags : i \in 1..Len(gpsq)}

(***************************************************************************)
(* The conversation between the two threads, state by state: which         *)
(* commands and completions can be under way, in which order, and what MNL *)
(* does meanwhile.                                                         *)
(***************************************************************************)
IdleInv ==
  gps_state = "IDLE" =>
    /\ mnl = "off" /\ ctl = "idle" /\ drv # "START"
    /\ ~InGps("START") /\ ~InGps("STOP") /\ ~InGps("RESET")
    /\ ~InMain("START_DONE") /\ ~InMain("STOP_DONE")
    /\ ~InMain("RESET_DONE") /\ ~InMain("LOCATION")

StartingInv ==
  gps_state = "STARTING" =>
    /\ ~InGps("STOP") /\ ~InGps("RESET")
    /\ ~InMain("STOP_DONE") /\ ~InMain("RESET_DONE")
    /\ InGps("START") =>
         /\ mnl = "off" /\ ctl = "idle" /\ drv # "START"
         /\ ~InMain("START_DONE") /\ ~InMain("LOCATION")
    /\ InMain("START_DONE") => Runs

StartedInv ==
  gps_state = "STARTED" =>
    /\ ~InGps("START") /\ ~InGps("STOP") /\ ~InMain("STOP_DONE")
    /\ gs.used # {} /\ Runs

StoppingInv ==
  gps_state = "STOPPING" =>
    /\ ~InGps("START")
    /\ InGps("STOP") => Runs /\ ~InMain("STOP_DONE")
    /\ InMain("STOP_DONE") =>
         /\ mnl = "off" /\ ctl = "idle" /\ drv # "START" /\ ~InGps("RESET")

\* The two threads agree on where the session is: no state of the main thread
\* can be reached by a command or a completion that belongs to another one.
SessionInv ==
  /\ NoUnexpectedStopDone
  /\ IdleInv /\ StartingInv /\ StartedInv /\ StoppingInv
  /\ LastCmd(gpsq, "START") /\ LastCmd(gpsq, "STOP")
  /\ LastEvent(mainq, "STOP_DONE")
  /\ InGps("RESET") => Runs
  /\ ctl = "starting" => mnl # "off"

\* What the clients rely on, taken together: the watchdogs, the wakelock and the
\* pending acknowledgements fit the state of the session.
ClientInv ==
  WatchdogsMatchState /\ WakelockMatchesState /\ AcksMatchState /\ ResetAckSupervised

\* GPS is stopped only when nobody uses it (an NMEA timeout first takes it away
\* from everybody), and the state machine moves only around its cycle.
StoppedOnlyWhenUnused ==
  [][/\ gps_state' = "STOPPING" /\ gps_state # "STOPPING" => gs'.used = {}
     /\ gps_state' = "IDLE" /\ gps_state # "IDLE" =>
          ~Alive \/ (gps_state = "STOPPING" /\ gs'.used = {})]_vars

\* Once nobody uses GPS it is switched off and every close request has been
\* answered, unless somebody comes back.
UnusedGpsStops ==
  []<>(gs.used # {} \/ (gps_state = "IDLE" /\ gs.close = {}))

\* An open request is answered, withdrawn or ended by a restart of the daemon.
OpenResolves == \A c \in Clients : []<>(c \notin gs.open)

\* So is a reset request of AGPS.
ResetResolves == []<>(~gs.reset)
=============================================================================
