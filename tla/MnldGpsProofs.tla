--------------------------- MODULE MnldGpsProofs ---------------------------
(***************************************************************************)
(* Machine-checked proofs about MnldGps, for every set of clients and      *)
(* aiding bits, every capacity of the sockets and every combination of     *)
(* failures.                                                               *)
(***************************************************************************)
EXTENDS MnldGps, TLAPS

(***************************************************************************)
(* The sockets: what sending and taking a datagram does to the commands    *)
(* and events under way.                                                   *)
(***************************************************************************)

\* A command that is sent is the only one added, and it is added at the end
\* (SendGps, safe_sendto on the control socket).
LEMMA SendGpsFacts ==
  ASSUME NEW q \in Seq(GpsMsgs), NEW m \in GpsMsgs
  PROVE  /\ SendGps(q, m) \in Seq(GpsMsgs)
         /\ \A c : HasCmd(SendGps(q, m), c) => HasCmd(q, c) \/ m.cmd = c
         /\ \A c : LastCmd(q, c) /\ (m.cmd = "NMEA" \/ ~HasCmd(q, c))
                     => LastCmd(SendGps(q, m), c)
  BY CapAssumption DEF SendGps, HasCmd, LastCmd

\* Taking the first command leaves the others in their order; behind a START or
\* a STOP that is taken there is nothing but NMEA notifications.
LEMMA TakeGpsFacts ==
  ASSUME NEW q \in Seq(GpsMsgs), q # <<>>
  PROVE  /\ Head(q) \in GpsMsgs /\ HasCmd(q, Head(q).cmd)
         /\ Tail(q) \in Seq(GpsMsgs)
         /\ \A c : HasCmd(Tail(q), c) => HasCmd(q, c)
         /\ \A c : LastCmd(q, c) => LastCmd(Tail(q), c)
         /\ LastCmd(q, Head(q).cmd) => \A c : HasCmd(Tail(q), c) => c = "NMEA"
  BY DEF HasCmd, LastCmd

\* The same for the events of the main socket.
LEMMA SendMainFacts ==
  ASSUME mainq \in Seq(MainMsgs), NEW m \in MainMsgs
  PROVE  /\ SendMain(m) \in Seq(MainMsgs)
         /\ \A e : HasEvent(SendMain(m), e) => HasEvent(mainq, e) \/ m = e
         /\ \A e : LastEvent(mainq, e) /\ (m = "NMEA_TIMEOUT" \/ ~HasEvent(mainq, e))
                     => LastEvent(SendMain(m), e)
  BY CapAssumption DEF SendMain, HasEvent, LastEvent

\* And for the event the main thread takes.
LEMMA TakeMainFacts ==
  ASSUME mainq \in Seq(MainMsgs), mainq # <<>>
  PROVE  /\ Head(mainq) \in MainMsgs /\ HasEvent(mainq, Head(mainq))
         /\ Tail(mainq) \in Seq(MainMsgs)
         /\ \A e : HasEvent(Tail(mainq), e) => HasEvent(mainq, e)
         /\ \A e : LastEvent(mainq, e) => LastEvent(Tail(mainq), e)
         /\ LastEvent(mainq, Head(mainq))
              => \A e : HasEvent(Tail(mainq), e) => e = "NMEA_TIMEOUT"
  BY DEF HasEvent, LastEvent

(***************************************************************************)
(* Type correctness.                                                       *)
(***************************************************************************)
FsmTypes ==
  /\ gps_state \in States /\ gs \in GsType /\ timers \in SUBSET Timers
  /\ waitFix \in BOOLEAN /\ gpsq \in Seq(GpsMsgs) /\ wakelock \in BOOLEAN
  /\ crashed \in {"no", "unexpected", "timeout"}

\* The handlers of the client flags return client flags, and the queue and
\* timers they leave behind are well formed.
LEMMA HandlerTypes ==
  ASSUME TypeOK, NEW s \in GsType
  PROVE  /\ do_gps_reset_hdlr(s) \in GsType
         /\ do_gps_started_hdlr(s) \in GsType
         /\ do_gps_stopped_hdlr(s) \in GsType
         /\ FlagsSent(s, gpsq) \in GsType
         /\ StartedQueue(s) \in Seq(GpsMsgs)
         /\ SendGps(gpsq, GpsCmd("START", s.flag)) \in Seq(GpsMsgs)
         /\ SendGps(gpsq, GpsCmd("STOP", {})) \in Seq(GpsMsgs)
         /\ SendGps(StartedQueue(s), GpsCmd("STOP", {})) \in Seq(GpsMsgs)
         /\ StartedTimers(s) \in SUBSET Timers
         /\ \A t \in SUBSET Timers : WithStartTimer(s, t) \in SUBSET Timers
<1>1. GpsCmd("START", s.flag) \in GpsMsgs /\ GpsCmd("STOP", {}) \in GpsMsgs
      /\ GpsCmd("RESET", s.flag) \in GpsMsgs
  BY DEF GpsCmd, GpsMsgs, GsType
<1>2. gpsq \in Seq(GpsMsgs)
  BY DEF TypeOK
<1>3. StartedQueue(s) \in Seq(GpsMsgs)
  BY <1>1, <1>2, SendGpsFacts DEF StartedQueue
<1>4. \A q \in Seq(GpsMsgs) : /\ SendGps(q, GpsCmd("START", s.flag)) \in Seq(GpsMsgs)
                              /\ SendGps(q, GpsCmd("STOP", {})) \in Seq(GpsMsgs)
  BY <1>1, SendGpsFacts
<1>5. \A r \in GsType : FlagsSent(r, gpsq) \in GsType
  BY Zenon DEF FlagsSent, GsType
<1>6. /\ do_gps_reset_hdlr(s) \in GsType /\ do_gps_stopped_hdlr(s) \in GsType
      /\ do_gps_reset_hdlr([s EXCEPT !.open = {}]) \in GsType
  BY Zenon DEF do_gps_reset_hdlr, do_gps_stopped_hdlr, GsType
<1>7. do_gps_started_hdlr(s) \in GsType
  BY <1>5, <1>6 DEF do_gps_started_hdlr
<1>8. /\ StartedTimers(s) \in SUBSET Timers
      /\ \A t \in SUBSET Timers : WithStartTimer(s, t) \in SUBSET Timers
  BY DEF TypeOK, StartedTimers, WithStartTimer, Timers
<1> QED
  BY <1>2, <1>3, <1>4, <1>5, <1>6, <1>7, <1>8

\* A step of the state machine keeps everything it touches well formed.
LEMMA FsmTypeStep ==
  ASSUME TypeOK, NEW e, NEW s \in GsType, mnld_fsm(e, s)
  PROVE  FsmTypes'
<1> USE HandlerTypes DEF TypeOK, FsmTypes, States
<1>1. CASE gps_state = "IDLE" /\ fsm_gps_state_idle(e, s)
  BY <1>1, Zenon DEF fsm_gps_state_idle, BeginSession
<1>2. CASE gps_state = "STARTING" /\ fsm_gps_state_starting(e, s)
  BY <1>2, ZenonT(30) DEF fsm_gps_state_starting, Timers
<1>3. CASE gps_state = "STARTED" /\ fsm_gps_state_started(e, s)
  BY <1>3, ZenonT(30) DEF fsm_gps_state_started, Timers
<1>4. CASE gps_state = "STOPPING" /\ fsm_gps_state_stopping(e, s)
  BY <1>4, ZenonT(30) DEF fsm_gps_state_stopping, Timers
<1> QED
  BY <1>1, <1>2, <1>3, <1>4 DEF mnld_fsm

\* The flags a client request hands to the state machine are well formed.
LEMMA RequestTypes ==
  ASSUME gs \in GsType, NEW c \in Clients, NEW f \in SUBSET Bits
  PROVE  /\ [gs EXCEPT !.used = @ \cup {c}, !.open = @ \cup ({c} \cap AckClients),
                       !.close = @ \ {c}] \in GsType
         /\ [gs EXCEPT !.used = @ \ {c}, !.open = @ \ {c},
                       !.close = @ \cup ({c} \cap AckClients)] \in GsType
         /\ [gs EXCEPT !.used = @ \ {c}, !.open = @ \ {c}, !.close = @ \ {c},
                       !.reset = @ /\ c # "agps"] \in GsType
<1>1. (gs.reset /\ c # "agps") \in BOOLEAN
  BY Zenon
<1> QED
  BY <1>1, Zenon DEF GsType

\* So are the flags of a request to delete aiding data and of the NMEA timeout.
LEMMA DeleteTypes ==
  ASSUME gs \in GsType, NEW f \in SUBSET Bits
  PROVE  /\ [gs EXCEPT !.flag = @ \cup f, !.owed = @ \cup f] \in GsType
         /\ [gs EXCEPT !.flag = @ \cup f, !.owed = @ \cup f, !.reset = TRUE] \in GsType
         /\ [gs EXCEPT !.used = {}] \in GsType
         /\ [gs EXCEPT !.owed = @ \ f, !.hot = @ \ f] \in GsType
         /\ [gs EXCEPT !.owed = @ \ f] \in GsType
         /\ [gs EXCEPT !.hot = @ \cup f] \in GsType
         /\ do_gps_reset_hdlr(gs) \in GsType
  BY Zenon DEF GsType, do_gps_reset_hdlr

\* Requests of the clients keep the types.
LEMMA RequestTypeStep == TypeOK /\ Requests => TypeOK'
<1> SUFFICES ASSUME TypeOK, Requests PROVE TypeOK'
  OBVIOUS
<1>0. gs \in GsType
  BY DEF TypeOK
<1>1. ASSUME NEW c \in Clients, ClientStart(c) PROVE TypeOK'
  <2>1. FsmTypes'
    BY <1>0, <1>1, RequestTypes, FsmTypeStep, Zenon DEF ClientStart
  <2> QED
    BY <1>1, <2>1 DEF TypeOK, FsmTypes, ClientStart, ClientFrame
<1>2. ASSUME NEW c \in Clients, ClientStop(c) PROVE TypeOK'
  <2>1. FsmTypes'
    BY <1>0, <1>2, RequestTypes, FsmTypeStep, Zenon DEF ClientStop
  <2> QED
    BY <1>2, <2>1 DEF TypeOK, FsmTypes, ClientStop, ClientFrame
<1>3. ASSUME NEW c \in Clients, ClientReboot(c) PROVE TypeOK'
  <2>1. FsmTypes'
    BY <1>0, <1>3, RequestTypes, FsmTypeStep, Zenon DEF ClientReboot
  <2> QED
    BY <1>3, <2>1 DEF TypeOK, FsmTypes, ClientReboot, ClientFrame
<1>4. ASSUME NEW f \in SUBSET Bits, hal_gps_delete_aiding_data(f) PROVE TypeOK'
  <2>1. FsmTypes'
    BY <1>0, <1>4, DeleteTypes, FsmTypeStep, Zenon DEF hal_gps_delete_aiding_data
  <2> QED
    BY <1>4, <2>1 DEF TypeOK, FsmTypes, hal_gps_delete_aiding_data, ClientFrame
<1>5. ASSUME NEW f \in SUBSET Bits, agps_reset_gps_req(f) PROVE TypeOK'
  <2>1. FsmTypes'
    BY <1>0, <1>5, DeleteTypes, FsmTypeStep, Zenon DEF agps_reset_gps_req
  <2> QED
    BY <1>5, <2>1 DEF TypeOK, FsmTypes, agps_reset_gps_req, ClientFrame
<1>6. CASE hal_gps_init
  BY <1>6 DEF TypeOK, hal_gps_init
<1> QED
  BY <1>1, <1>2, <1>3, <1>4, <1>5, <1>6 DEF Requests

\* Steps of the main thread keep the types.
LEMMA MainTypeStep == TypeOK /\ MainThread => TypeOK'
<1> SUFFICES ASSUME TypeOK, MainThread PROVE TypeOK'
  OBVIOUS
<1>0. /\ gs \in GsType /\ mainq \in Seq(MainMsgs)
      /\ mainq # <<>> => Tail(mainq) \in Seq(MainMsgs)
  BY DEF TypeOK
<1>1. CASE TakeStartDone
  <2>1. FsmTypes'
    BY <1>0, <1>1, FsmTypeStep DEF TakeStartDone
  <2> QED
    BY <1>0, <1>1, <2>1 DEF TypeOK, FsmTypes, TakeStartDone, TakeMain
<1>2. CASE TakeStopDone
  <2>1. FsmTypes'
    BY <1>0, <1>2, FsmTypeStep DEF TakeStopDone
  <2> QED
    BY <1>0, <1>2, <2>1 DEF TypeOK, FsmTypes, TakeStopDone, TakeMain
<1>3. CASE TakeResetDone
  BY <1>0, <1>3, DeleteTypes, ZenonT(30) DEF TypeOK, TakeResetDone, TakeMain
<1>4. CASE TakeNmeaTimeout
  <2>1. FsmTypes'
    <3>1. CASE gps_state = "STARTED"
      BY <1>0, <1>4, <3>1, DeleteTypes, FsmTypeStep, Zenon DEF TakeNmeaTimeout
    <3>2. CASE gps_state # "STARTED"
      BY <1>4, <3>2 DEF TypeOK, FsmTypes, TakeNmeaTimeout
    <3> QED
      BY <3>1, <3>2
  <2> QED
    BY <1>0, <1>4, <2>1 DEF TypeOK, FsmTypes, TakeNmeaTimeout, TakeMain
<1>5. CASE TakeLocation
  BY <1>0, <1>5, Zenon DEF TypeOK, TakeLocation, TakeMain
<1> QED
  BY <1>1, <1>2, <1>3, <1>4, <1>5 DEF MainThread

\* Steps of the control thread keep the types.
LEMMA ControlTypeStep == TypeOK /\ ControlThread => TypeOK'
<1> SUFFICES ASSUME TypeOK, ControlThread PROVE TypeOK'
  OBVIOUS
<1>0. /\ gs \in GsType /\ mainq \in Seq(MainMsgs) /\ gpsq \in Seq(GpsMsgs)
      /\ gpsq # <<>> => Tail(gpsq) \in Seq(GpsMsgs) /\ Head(gpsq).flags \in SUBSET Bits
  BY TakeGpsFacts, Zenon DEF TypeOK, GpsMsgs
<1>1. CASE mnld_gps_start
  BY <1>0, <1>1, DeleteTypes, Zenon DEF TypeOK, mnld_gps_start, TakeGps
<1>2. CASE mnld_gps_start_return
  BY <1>2 DEF TypeOK, mnld_gps_start_return
<1>3. CASE mnld_gps_stop
  <2>1. SendMain("STOP_DONE") \in Seq(MainMsgs)
    BY <1>0, SendMainFacts DEF MainMsgs
  <2> QED
    BY <1>0, <1>3, <2>1 DEF TypeOK, mnld_gps_stop, TakeGps
<1>4. CASE mnld_gps_delete_aiding_data
  <2>1. SendMain("RESET_DONE") \in Seq(MainMsgs)
    BY <1>0, SendMainFacts DEF MainMsgs
  <2> QED
    BY <1>0, <1>4, <2>1, DeleteTypes, Zenon DEF TypeOK, mnld_gps_delete_aiding_data, TakeGps
<1>5. CASE mnld_gps_controller_mnl_nmea_timeout
  BY <1>0, <1>5 DEF TypeOK, mnld_gps_controller_mnl_nmea_timeout, TakeGps, Timers
<1> QED
  BY <1>1, <1>2, <1>3, <1>4, <1>5 DEF ControlThread

\* A fresh process has well-formed flags and empty sockets.
LEMMA FreshTypes ==
  InitGs \in GsType /\ <<>> \in Seq(MainMsgs) /\ <<>> \in Seq(GpsMsgs)
<1>1. InitGs \in GsType
  BY DEF InitGs, GsType
<1> QED
  BY <1>1

\* Every variable of the daemon stays in its type, in every reachable state.
THEOREM TypeCorrect == Spec => []TypeOK
<1>1. Init => TypeOK
  BY FreshTypes, Zenon DEF Init, TypeOK, States
<1>2. TypeOK /\ [Next]_vars => TypeOK'
  <2> SUFFICES ASSUME TypeOK, [Next]_vars PROVE TypeOK'
    OBVIOUS
  <2>0. /\ mainq \in Seq(MainMsgs) /\ gpsq \in Seq(GpsMsgs)
        /\ \A m \in MainMsgs : SendMain(m) \in Seq(MainMsgs)
        /\ SendGps(gpsq, GpsCmd("NMEA", {})) \in Seq(GpsMsgs)
    BY SendMainFacts, SendGpsFacts, Zenon DEF TypeOK, GpsCmd, GpsMsgs
  <2>1. CASE Requests
    BY <2>1, RequestTypeStep
  <2>2. CASE MainThread
    BY <2>2, MainTypeStep
  <2>3. CASE ControlThread
    BY <2>3, ControlTypeStep
  <2>4. CASE Library
    BY <2>0, <2>4 DEF TypeOK, Library, mtk_gps_sys_agps_disaptcher_callback,
       send_active_notify, mnld_gps_update_location, mtk_gps_ofl_sys_rst_stpgps_req,
       MnlFrame, MainMsgs
  <2>5. CASE \E t \in Watchdogs : WatchdogTimeout(t)
    BY <2>5 DEF TypeOK, WatchdogTimeout
  <2>6. CASE gps_mnld_restart_mnl_process
    BY <2>0, <2>6 DEF TypeOK, gps_mnld_restart_mnl_process, MainMsgs
  <2>7. CASE Restart
    BY <2>7, FreshTypes, Zenon DEF TypeOK, Restart, States
  <2>8. CASE UNCHANGED vars
    BY <2>8 DEF TypeOK, vars
  <2> QED
    BY <2>1, <2>2, <2>3, <2>4, <2>5, <2>6, <2>7, <2>8 DEF Next
<1> QED
  BY <1>1, <1>2, PTL DEF Spec

(***************************************************************************)
(* The two threads agree on the session.                                   *)
(***************************************************************************)

\* No acknowledgement handler changes who uses GPS.
LEMMA HandlerUsed ==
  ASSUME NEW s \in GsType
  PROVE  /\ do_gps_started_hdlr(s).used = s.used
         /\ do_gps_stopped_hdlr(s).used = s.used
         /\ do_gps_reset_hdlr(s).used = s.used
         /\ FlagsSent(s, gpsq).used = s.used
         /\ FlagsSent(do_gps_stopped_hdlr(s), gpsq).used = s.used
<1>1. /\ do_gps_stopped_hdlr(s) \in GsType /\ do_gps_stopped_hdlr(s).used = s.used
      /\ do_gps_reset_hdlr(s).used = s.used
      /\ do_gps_reset_hdlr([s EXCEPT !.open = {}]) \in GsType
      /\ do_gps_reset_hdlr([s EXCEPT !.open = {}]).used = s.used
  BY Zenon DEF do_gps_stopped_hdlr, do_gps_reset_hdlr, GsType
<1>2. \A r \in GsType : FlagsSent(r, gpsq).used = r.used
  BY DEF FlagsSent, GsType
<1>3. do_gps_started_hdlr(s).used = s.used
  BY <1>1, <1>2 DEF do_gps_started_hdlr
<1> QED
  BY <1>1, <1>2, <1>3

\* What the state machine may put on the control socket: a START, a RESET, a
\* STOP, or a RESET followed by a STOP.
LEMMA FsmQueues ==
  ASSUME gpsq \in Seq(GpsMsgs), NEW s \in GsType
  PROVE  /\ \A c : HasCmd(SendGps(gpsq, GpsCmd("START", s.flag)), c)
                    => HasCmd(gpsq, c) \/ c = "START"
         /\ \A c : LastCmd(gpsq, c) /\ ~HasCmd(gpsq, c)
                    => LastCmd(SendGps(gpsq, GpsCmd("START", s.flag)), c)
         /\ \A c : HasCmd(SendGps(gpsq, GpsCmd("STOP", {})), c)
                    => HasCmd(gpsq, c) \/ c = "STOP"
         /\ \A c : LastCmd(gpsq, c) /\ ~HasCmd(gpsq, c)
                    => LastCmd(SendGps(gpsq, GpsCmd("STOP", {})), c)
         /\ \A c : HasCmd(StartedQueue(s), c) => HasCmd(gpsq, c) \/ c = "RESET"
         /\ \A c : LastCmd(gpsq, c) /\ ~HasCmd(gpsq, c) => LastCmd(StartedQueue(s), c)
         /\ \A c : HasCmd(SendGps(StartedQueue(s), GpsCmd("STOP", {})), c)
                    => HasCmd(gpsq, c) \/ c \in {"RESET", "STOP"}
         /\ \A c : LastCmd(gpsq, c) /\ ~HasCmd(gpsq, c) /\ c # "RESET"
                    => LastCmd(SendGps(StartedQueue(s), GpsCmd("STOP", {})), c)
<1> DEFINE st == GpsCmd("START", s.flag)
           sp == GpsCmd("STOP", {})
           rs == GpsCmd("RESET", s.flag)
<1>1. /\ st \in GpsMsgs /\ st.cmd = "START"
      /\ sp \in GpsMsgs /\ sp.cmd = "STOP"
      /\ rs \in GpsMsgs /\ rs.cmd = "RESET"
  BY DEF GpsCmd, GpsMsgs, GsType
<1> HIDE DEF st, sp, rs
<1>2. /\ \A c : HasCmd(SendGps(gpsq, st), c) => HasCmd(gpsq, c) \/ c = "START"
      /\ \A c : LastCmd(gpsq, c) /\ ~HasCmd(gpsq, c) => LastCmd(SendGps(gpsq, st), c)
  BY <1>1, SendGpsFacts, Zenon
<1>3. \A q \in Seq(GpsMsgs) :
        /\ \A c : HasCmd(SendGps(q, sp), c) => HasCmd(q, c) \/ c = "STOP"
        /\ \A c : LastCmd(q, c) /\ ~HasCmd(q, c) => LastCmd(SendGps(q, sp), c)
  BY <1>1, SendGpsFacts, Zenon
<1>4. /\ SendGps(gpsq, rs) \in Seq(GpsMsgs)
      /\ \A c : HasCmd(SendGps(gpsq, rs), c) => HasCmd(gpsq, c) \/ c = "RESET"
      /\ \A c : LastCmd(gpsq, c) /\ ~HasCmd(gpsq, c) => LastCmd(SendGps(gpsq, rs), c)
  BY <1>1, SendGpsFacts, Zenon
<1>5. /\ StartedQueue(s) \in Seq(GpsMsgs)
      /\ \A c : HasCmd(StartedQueue(s), c) => HasCmd(gpsq, c) \/ c = "RESET"
      /\ \A c : LastCmd(gpsq, c) /\ ~HasCmd(gpsq, c) => LastCmd(StartedQueue(s), c)
  BY <1>4 DEF StartedQueue, rs
<1>6. /\ \A c : HasCmd(SendGps(StartedQueue(s), sp), c)
               => HasCmd(gpsq, c) \/ c \in {"RESET", "STOP"}
      /\ \A c : LastCmd(gpsq, c) /\ ~HasCmd(gpsq, c) /\ c # "RESET"
               => LastCmd(SendGps(StartedQueue(s), sp), c)
  BY <1>3, <1>5
<1> QED
  BY <1>2, <1>3, <1>5, <1>6, Zenon DEF st, sp

\* No event of the main thread can break the agreement, whatever it does to the
\* client flags, as long as it does not take the last user away from GPS
\* without a STOP, and a completion is handled in the state that awaits it.
LEMMA FsmSession ==
  ASSUME TypeOK, SessionInv, NEW e, NEW s \in GsType, mnld_fsm(e, s),
         UNCHANGED <<mnl, ctl, drv>>,
         \A m : HasEvent(mainq', m) => HasEvent(mainq, m),
         LastEvent(mainq', "STOP_DONE"),
         e # "STOP" /\ gs.used # {} => s.used # {},
         e = "START_DONE" => HasEvent(mainq, "START_DONE"),
         e = "STOP_DONE" => /\ HasEvent(mainq, "STOP_DONE")
                            /\ \A m : HasEvent(mainq', m) => m = "NMEA_TIMEOUT"
  PROVE  SessionInv'
<1> USE DEF SessionInv, InGps, InMain, Runs, NoUnexpectedStopDone
<1>0. gpsq \in Seq(GpsMsgs)
  BY SMTT(30) DEF TypeOK
<1>1. CASE gps_state = "IDLE" /\ fsm_gps_state_idle(e, s)
  BY <1>0, <1>1, FsmQueues, Zenon DEF fsm_gps_state_idle, BeginSession, IdleInv,
     StartingInv, StartedInv,
     StoppingInv
<1>2. CASE gps_state = "STARTING" /\ fsm_gps_state_starting(e, s)
  BY <1>0, <1>2, FsmQueues, HandlerUsed, SMTT(30) DEF fsm_gps_state_starting, IdleInv,
     StartingInv,
     StartedInv, StoppingInv, is_all_gps_client_exit
<1>3. CASE gps_state = "STARTED" /\ fsm_gps_state_started(e, s)
  BY <1>0, <1>3, FsmQueues, HandlerUsed, SMTT(30) DEF fsm_gps_state_started, IdleInv,
     StartingInv,
     StartedInv, StoppingInv, is_all_gps_client_exit
<1>4. CASE gps_state = "STOPPING" /\ fsm_gps_state_stopping(e, s)
  BY <1>0, <1>4, FsmQueues, ZenonT(30) DEF fsm_gps_state_stopping, IdleInv, StartingInv,
     StartedInv, StoppingInv
<1> QED
  BY <1>1, <1>2, <1>3, <1>4 DEF mnld_fsm

\* Requests of the clients keep the agreement.
LEMMA RequestSession == TypeOK /\ SessionInv /\ Requests => SessionInv'
<1> SUFFICES ASSUME TypeOK, SessionInv, Requests PROVE SessionInv'
  OBVIOUS
<1>0. /\ gs \in GsType /\ LastEvent(mainq, "STOP_DONE")
  BY DEF TypeOK, SessionInv
<1>1. ASSUME NEW c \in Clients, ClientStart(c) PROVE SessionInv'
  <2> DEFINE s == [gs EXCEPT !.used = @ \cup {c}, !.open = @ \cup ({c} \cap AckClients),
                             !.close = @ \ {c}]
  <2>1. s \in GsType /\ s.used # {}
    BY <1>0, RequestTypes, Zenon DEF GsType
  <2>2. mnld_fsm("START", s) /\ UNCHANGED <<mainq, mnl, ctl, drv>>
    BY <1>1 DEF ClientStart, ClientFrame
  <2> HIDE DEF s
  <2> QED
    BY <1>0, <2>1, <2>2, FsmSession
<1>2. ASSUME NEW c \in Clients, ClientStop(c) PROVE SessionInv'
  <2> DEFINE s == [gs EXCEPT !.used = @ \ {c}, !.open = @ \ {c},
                             !.close = @ \cup ({c} \cap AckClients)]
  <2>1. s \in GsType
    BY <1>0, RequestTypes, Zenon
  <2>2. mnld_fsm("STOP", s) /\ UNCHANGED <<mainq, mnl, ctl, drv>>
    BY <1>2 DEF ClientStop, ClientFrame
  <2> HIDE DEF s
  <2> QED
    BY <1>0, <2>1, <2>2, FsmSession
<1>3. ASSUME NEW c \in Clients, ClientReboot(c) PROVE SessionInv'
  <2> DEFINE s == [gs EXCEPT !.used = @ \ {c}, !.open = @ \ {c}, !.close = @ \ {c},
                             !.reset = @ /\ c # "agps"]
  <2>1. s \in GsType
    BY <1>0, RequestTypes, Zenon
  <2>2. mnld_fsm("STOP", s) /\ UNCHANGED <<mainq, mnl, ctl, drv>>
    BY <1>3, Zenon DEF ClientReboot, ClientFrame
  <2> HIDE DEF s
  <2> QED
    BY <1>0, <2>1, <2>2, FsmSession
<1>4. ASSUME NEW f \in SUBSET Bits, hal_gps_delete_aiding_data(f) PROVE SessionInv'
  <2> DEFINE s == [gs EXCEPT !.flag = @ \cup f, !.owed = @ \cup f]
  <2>1. s \in GsType /\ s.used = gs.used
    BY <1>0, DeleteTypes, Zenon DEF GsType
  <2>2. mnld_fsm("RESET", s) /\ UNCHANGED <<mainq, mnl, ctl, drv>>
    BY <1>4 DEF hal_gps_delete_aiding_data, ClientFrame
  <2> HIDE DEF s
  <2> QED
    BY <1>0, <2>1, <2>2, FsmSession
<1>5. ASSUME NEW f \in SUBSET Bits, agps_reset_gps_req(f) PROVE SessionInv'
  <2> DEFINE s == [gs EXCEPT !.flag = @ \cup f, !.owed = @ \cup f, !.reset = TRUE]
  <2>1. s \in GsType /\ s.used = gs.used
    BY <1>0, DeleteTypes, Zenon DEF GsType
  <2>2. mnld_fsm("RESET", s) /\ UNCHANGED <<mainq, mnl, ctl, drv>>
    BY <1>5 DEF agps_reset_gps_req, ClientFrame
  <2> HIDE DEF s
  <2> QED
    BY <1>0, <2>1, <2>2, FsmSession
<1>6. CASE hal_gps_init
  BY <1>6, Zenon DEF hal_gps_init, SessionInv, InGps, InMain, Runs, NoUnexpectedStopDone,
     IdleInv,
     StartingInv, StartedInv, StoppingInv
<1> QED
  BY <1>1, <1>2, <1>3, <1>4, <1>5, <1>6 DEF Requests

\* Steps of the main thread keep the agreement.
LEMMA MainSession == TypeOK /\ SessionInv /\ MainThread => SessionInv'
<1> SUFFICES ASSUME TypeOK, SessionInv, MainThread PROVE SessionInv'
  OBVIOUS
<1>0. gs \in GsType /\ mainq \in Seq(MainMsgs) /\ LastEvent(mainq, "STOP_DONE")
  BY DEF TypeOK, SessionInv
<1>1. ASSUME NEW m, TakeMain(m)
      PROVE  /\ HasEvent(mainq, m)
             /\ \A e : HasEvent(mainq', e) => HasEvent(mainq, e)
             /\ LastEvent(mainq', "STOP_DONE")
             /\ m = "STOP_DONE" => \A e : HasEvent(mainq', e) => e = "NMEA_TIMEOUT"
             /\ UNCHANGED <<mnl, ctl, drv>>
  BY <1>0, <1>1, TakeMainFacts DEF TakeMain
<1>2. CASE TakeStartDone
  BY <1>0, <1>1, <1>2, FsmSession DEF TakeStartDone
<1>3. CASE TakeStopDone
  BY <1>0, <1>1, <1>3, FsmSession, Zenon DEF TakeStopDone
<1>4. CASE TakeResetDone
  <2>1. gs'.used = gs.used
    BY <1>0, <1>4, HandlerUsed, Zenon DEF TakeResetDone
  <2> QED
    BY <1>1, <1>4, <2>1, Zenon DEF TakeResetDone, SessionInv, InGps, InMain, Runs,
       NoUnexpectedStopDone, IdleInv, StartingInv, StartedInv, StoppingInv
<1>5. CASE TakeNmeaTimeout
  <2>1. CASE gps_state = "STARTED"
    <3> DEFINE s == [gs EXCEPT !.used = {}]
    <3>1. s \in GsType
      BY <1>0, DeleteTypes, Zenon DEF GsType
    <3>2. mnld_fsm("STOP", s) /\ TakeMain("NMEA_TIMEOUT")
      BY <1>5, <2>1 DEF TakeNmeaTimeout
    <3> HIDE DEF s
    <3> QED
      BY <1>0, <1>1, <3>1, <3>2, FsmSession, Zenon
  <2>2. CASE gps_state # "STARTED"
    BY <1>1, <1>5, <2>2, SMTT(30) DEF TakeNmeaTimeout, SessionInv, InGps, InMain, Runs,
       NoUnexpectedStopDone, IdleInv, StartingInv, StartedInv, StoppingInv
  <2> QED
    BY <2>1, <2>2, SMTT(30)
<1>6. CASE TakeLocation
  BY <1>1, <1>6, Zenon DEF TakeLocation, SessionInv, InGps, InMain, Runs,
     NoUnexpectedStopDone, IdleInv, StartingInv, StartedInv, StoppingInv
<1> QED
  BY <1>2, <1>3, <1>4, <1>5, <1>6 DEF MainThread

\* Steps of the control thread keep the agreement.
LEMMA ControlSession == TypeOK /\ SessionInv /\ ControlThread => SessionInv'
<1> SUFFICES ASSUME TypeOK, SessionInv, ControlThread PROVE SessionInv'
  OBVIOUS
<1> USE DEF SessionInv, InGps, InMain, Runs, NoUnexpectedStopDone, IdleInv, StartingInv,
            StartedInv, StoppingInv
<1>0. /\ gs \in GsType /\ mainq \in Seq(MainMsgs) /\ gpsq \in Seq(GpsMsgs)
      /\ gps_state \in States
  BY Zenon DEF TypeOK
<1>1. ASSUME NEW c, TakeGps(c)
      PROVE  /\ HasCmd(gpsq, c) /\ Head(gpsq).flags \in SUBSET Bits
             /\ \A d : HasCmd(gpsq', d) => HasCmd(gpsq, d)
             /\ LastCmd(gpsq', "START") /\ LastCmd(gpsq', "STOP")
             /\ c \in {"START", "STOP"} => \A d : HasCmd(gpsq', d) => d = "NMEA"
             /\ ctl = "idle" /\ UNCHANGED <<gps_state, crashed>>
  BY <1>0, <1>1, TakeGpsFacts, ZenonT(30) DEF TakeGps, GpsMsgs
<1>2. ASSUME NEW m \in {"STOP_DONE", "RESET_DONE"}
      PROVE  /\ \A e : HasEvent(SendMain(m), e) => HasEvent(mainq, e) \/ m = e
             /\ ~HasEvent(mainq, "STOP_DONE") => LastEvent(SendMain(m), "STOP_DONE")
  BY <1>0, SendMainFacts, Zenon DEF MainMsgs
<1>3. CASE mnld_gps_start
  <2>1. gs'.used = gs.used
    BY <1>0, <1>3 DEF mnld_gps_start, GsType
  <2>2. gps_state = "STARTING" /\ ~HasEvent(mainq, "START_DONE")
    BY <1>0, <1>1, <1>3 DEF mnld_gps_start, States
  <2> QED
    BY <1>1, <1>3, <2>1, <2>2 DEF mnld_gps_start
<1>4. CASE mnld_gps_start_return
  BY <1>4, Zenon DEF mnld_gps_start_return
<1>5. CASE mnld_gps_stop
  <2>1. gps_state = "STOPPING" /\ ~HasEvent(mainq, "STOP_DONE")
    BY <1>0, <1>1, <1>5, Zenon DEF mnld_gps_stop, States
  <2> QED
    BY <1>1, <1>2, <1>5, <2>1, Zenon DEF mnld_gps_stop
<1>6. CASE mnld_gps_delete_aiding_data
  <2>1. gs'.used = gs.used
    BY <1>0, <1>6, Zenon DEF mnld_gps_delete_aiding_data, GsType
  <2>2. gps_state \in {"STARTED", "STOPPING"} /\ ~HasEvent(mainq, "STOP_DONE")
    BY <1>0, <1>1, <1>6, SMTT(30) DEF mnld_gps_delete_aiding_data, States
  <2> QED
    BY <1>1, <1>2, <1>6, <2>1, <2>2 DEF mnld_gps_delete_aiding_data
<1>7. CASE mnld_gps_controller_mnl_nmea_timeout
  BY <1>1, <1>7, Zenon DEF mnld_gps_controller_mnl_nmea_timeout
<1> QED
  BY <1>3, <1>4, <1>5, <1>6, <1>7, Zenon DEF ControlThread

\* MNL announcing itself, reporting output or asking for a restart keeps the
\* agreement.
LEMMA LibrarySession == TypeOK /\ SessionInv /\ Library => SessionInv'
<1> SUFFICES ASSUME TypeOK, SessionInv, Library PROVE SessionInv'
  BY Zenon
<1> USE DEF SessionInv, InGps, InMain, Runs, NoUnexpectedStopDone, IdleInv, StartingInv,
            StartedInv, StoppingInv, MnlFrame
<1>0. mainq \in Seq(MainMsgs) /\ gpsq \in Seq(GpsMsgs) /\ gps_state \in States
  BY Zenon DEF TypeOK
<1>1. mnl # "off" => ~HasEvent(mainq, "STOP_DONE")
  BY <1>0, Zenon DEF States
<1>2. ASSUME NEW m \in {"START_DONE", "LOCATION", "NMEA_TIMEOUT"}, mnl # "off"
      PROVE  /\ \A e : HasEvent(SendMain(m), e) => HasEvent(mainq, e) \/ m = e
             /\ LastEvent(SendMain(m), "STOP_DONE")
  BY <1>0, <1>1, <1>2, SendMainFacts, Zenon DEF MainMsgs
<1>3. CASE mtk_gps_sys_agps_disaptcher_callback
  BY <1>2, <1>3, Zenon DEF mtk_gps_sys_agps_disaptcher_callback
<1>4. CASE send_active_notify
  <2> DEFINE m == GpsCmd("NMEA", {})
  <2>1. m \in GpsMsgs /\ m.cmd = "NMEA"
    BY Zenon DEF GpsCmd, GpsMsgs
  <2>2. gpsq' = SendGps(gpsq, m)
    BY <1>4, Zenon DEF send_active_notify
  <2> HIDE DEF m
  <2>3. /\ \A c : HasCmd(gpsq', c) => HasCmd(gpsq, c) \/ c = "NMEA"
        /\ LastCmd(gpsq', "START") /\ LastCmd(gpsq', "STOP")
    BY <1>0, <2>1, <2>2, SendGpsFacts, Zenon
  <2> QED
    BY <1>4, <2>3, Zenon DEF send_active_notify
<1>5. CASE mnld_gps_update_location
  BY <1>2, <1>5, Zenon DEF mnld_gps_update_location
<1>6. CASE mtk_gps_ofl_sys_rst_stpgps_req
  BY <1>2, <1>6, Zenon DEF mtk_gps_ofl_sys_rst_stpgps_req
<1> QED
  BY <1>3, <1>4, <1>5, <1>6, Zenon DEF Library

\* The main thread and the control thread agree on the session in every
\* reachable state: SessionInv is an inductive invariant of the daemon.
THEOREM SessionsAgree == Spec => []SessionInv
<1>1. Init => SessionInv
  BY DEF Init, SessionInv, InGps, InMain, Runs, NoUnexpectedStopDone, IdleInv, StartingInv,
     StartedInv, StoppingInv, HasCmd, HasEvent, LastCmd, LastEvent
<1>2. TypeOK /\ SessionInv /\ [Next]_vars => SessionInv'
  <2> SUFFICES ASSUME TypeOK, SessionInv, [Next]_vars PROVE SessionInv'
    BY Zenon
  <2> USE DEF SessionInv, InGps, InMain, Runs, NoUnexpectedStopDone, IdleInv, StartingInv,
              StartedInv, StoppingInv
  <2>1. CASE Requests
    BY <2>1, RequestSession, Zenon
  <2>2. CASE MainThread
    BY <2>2, MainSession, ZenonT(30)
  <2>3. CASE ControlThread
    BY <2>3, ControlSession, ZenonT(30)
  <2>4. CASE Library
    BY <2>4, LibrarySession, ZenonT(30)
  <2>5. CASE \E t \in Watchdogs : WatchdogTimeout(t)
    BY <2>5, Zenon DEF WatchdogTimeout
  <2>6. CASE gps_mnld_restart_mnl_process
    <3>1. /\ \A e : HasEvent(mainq', e) => HasEvent(mainq, e) \/ e = "NMEA_TIMEOUT"
          /\ LastEvent(mainq', "STOP_DONE")
      BY <2>6, SendMainFacts, Zenon DEF gps_mnld_restart_mnl_process, TypeOK, MainMsgs
    <3> QED
      BY <2>6, <3>1, Zenon DEF gps_mnld_restart_mnl_process
  <2>7. CASE Restart
    BY <2>7, SMTT(30) DEF Restart, HasCmd, HasEvent, LastCmd, LastEvent
  <2>8. CASE UNCHANGED vars
    BY <2>8, Zenon DEF vars
  <2> QED
    BY <2>1, <2>2, <2>3, <2>4, <2>5, <2>6, <2>7, <2>8, Zenon DEF Next
<1> QED
  BY <1>1, <1>2, TypeCorrect, PTL DEF Spec

\* CRASH_TO_DEBUG on an unexpected STOP_DONE is unreachable.
THEOREM NoUnexpectedStopDoneHolds == Spec => []NoUnexpectedStopDone
<1>1. SessionInv => NoUnexpectedStopDone
  BY DEF SessionInv
<1> QED
  BY <1>1, SessionsAgree, PTL

\* An idle daemon has switched the engine off and has nothing on its way to it.
THEOREM EngineOffWhenIdleHolds == Spec => []EngineOffWhenIdle
<1>1. SessionInv => EngineOffWhenIdle
  BY DEF SessionInv, IdleInv, EngineOffWhenIdle
<1> QED
  BY <1>1, SessionsAgree, PTL

\* The control thread never starts a running MNL nor stops or restarts one that
\* is off.
THEOREM CommandsMatchEngineHolds == Spec => []CommandsMatchEngine
<1>1. TypeOK /\ SessionInv => CommandsMatchEngine
  <2> SUFFICES ASSUME TypeOK, SessionInv, gpsq # <<>>
               PROVE  /\ Head(gpsq).cmd = "START" => mnl = "off"
                      /\ Head(gpsq).cmd \in {"STOP", "RESET"} => Runs
    BY DEF CommandsMatchEngine
  <2>1. HasCmd(gpsq, Head(gpsq).cmd)
    BY TakeGpsFacts DEF TypeOK
  <2> QED
    BY <2>1, Zenon DEF TypeOK, States, SessionInv, InGps, IdleInv, StartingInv, StartedInv,
       StoppingInv
<1> QED
  BY <1>1, SessionsAgree, TypeCorrect, PTL

\* A started session has a user and, unless its start was undone late, a running
\* MNL.
THEOREM StartedMeansRunningHolds == Spec => []StartedMeansRunning
<1>1. SessionInv => StartedMeansRunning
  BY DEF SessionInv, StartedInv, StartedMeansRunning
<1> QED
  BY <1>1, SessionsAgree, PTL

\* No completion and no location outlives the session it belongs to.
THEOREM NoStaleEventsHolds == Spec => []NoStaleEvents
<1>1. TypeOK /\ SessionInv => NoStaleEvents
  BY Zenon DEF TypeOK, States, MainMsgs, SessionInv, InGps, InMain, IdleInv, StartingInv,
     StartedInv, StoppingInv, NoStaleEvents
<1> QED
  BY <1>1, SessionsAgree, TypeCorrect, PTL

(***************************************************************************)
(* The promises to the clients.                                            *)
(***************************************************************************)

\* What each handler does to the flags that an acknowledgement answers.
LEMMA HandlerFlags ==
  ASSUME NEW s \in GsType
  PROVE  /\ do_gps_started_hdlr(s).open = {} /\ do_gps_started_hdlr(s).close = s.close
         /\ do_gps_started_hdlr(s).reset = FALSE
         /\ do_gps_stopped_hdlr(s).open = s.open /\ do_gps_stopped_hdlr(s).close = {}
         /\ do_gps_stopped_hdlr(s).reset = FALSE
         /\ do_gps_reset_hdlr(s).open = s.open /\ do_gps_reset_hdlr(s).close = s.close
         /\ do_gps_reset_hdlr(s).reset = FALSE
         /\ FlagsSent(s, gpsq).open = s.open /\ FlagsSent(s, gpsq).close = s.close
         /\ FlagsSent(s, gpsq).reset = s.reset
         /\ FlagsSent(do_gps_stopped_hdlr(s), gpsq).open = s.open
         /\ FlagsSent(do_gps_stopped_hdlr(s), gpsq).close = {}
         /\ FlagsSent(do_gps_stopped_hdlr(s), gpsq).reset = FALSE
<1>1. /\ do_gps_stopped_hdlr(s) \in GsType /\ do_gps_stopped_hdlr(s).open = s.open
      /\ do_gps_stopped_hdlr(s).close = {} /\ do_gps_stopped_hdlr(s).reset = FALSE
      /\ do_gps_reset_hdlr(s).open = s.open /\ do_gps_reset_hdlr(s).close = s.close
      /\ do_gps_reset_hdlr(s).reset = FALSE
  BY Zenon DEF do_gps_stopped_hdlr, do_gps_reset_hdlr, GsType
<1>2. LET r == do_gps_reset_hdlr([s EXCEPT !.open = {}])
      IN  r \in GsType /\ r.open = {} /\ r.close = s.close /\ r.reset = FALSE
  BY Zenon DEF do_gps_reset_hdlr, GsType
<1>3. \A r \in GsType : /\ FlagsSent(r, gpsq).open = r.open
                        /\ FlagsSent(r, gpsq).close = r.close
                        /\ FlagsSent(r, gpsq).reset = r.reset
  BY DEF FlagsSent, GsType
<1>4. /\ do_gps_started_hdlr(s).open = {} /\ do_gps_started_hdlr(s).close = s.close
      /\ do_gps_started_hdlr(s).reset = FALSE
  BY <1>2, <1>3, Zenon DEF do_gps_started_hdlr
<1> QED
  BY <1>1, <1>3, <1>4, Zenon

\* An event of the main thread keeps the promises when the flags it brings do:
\* only a START adds an open request, only a STOP a close request, and only a
\* RESET that brings aiding bits a reset request.
LEMMA FsmClients ==
  ASSUME TypeOK, ClientInv, NEW e, NEW s \in GsType, mnld_fsm(e, s), UNCHANGED rebooted,
         s.open \subseteq s.used, s.close \cap s.used = {},
         e # "START" => s.open \subseteq gs.open,
         e # "STOP" => s.close \subseteq gs.close,
         s.reset => gs.reset \/ (e = "RESET" /\ s.flag # {})
  PROVE  ClientInv'
<1>0. /\ do_gps_started_hdlr(s).used = s.used /\ do_gps_started_hdlr(s).open = {}
      /\ do_gps_started_hdlr(s).close = s.close /\ ~do_gps_started_hdlr(s).reset
      /\ do_gps_stopped_hdlr(s).used = s.used /\ do_gps_stopped_hdlr(s).open = s.open
      /\ do_gps_stopped_hdlr(s).close = {} /\ ~do_gps_stopped_hdlr(s).reset
      /\ do_gps_reset_hdlr(s).used = s.used /\ do_gps_reset_hdlr(s).open = s.open
      /\ do_gps_reset_hdlr(s).close = s.close /\ ~do_gps_reset_hdlr(s).reset
      /\ FlagsSent(s, gpsq).used = s.used /\ FlagsSent(s, gpsq).open = s.open
      /\ FlagsSent(s, gpsq).close = s.close /\ FlagsSent(s, gpsq).reset = s.reset
  BY HandlerUsed, HandlerFlags, Zenon
<1>00. LET r == FlagsSent(do_gps_stopped_hdlr(s), gpsq)
       IN  r.used = s.used /\ r.open = s.open /\ r.close = {} /\ ~r.reset
  BY HandlerUsed, HandlerFlags, Zenon
<1> USE DEF mnld_fsm, fsm_gps_state_idle, BeginSession, fsm_gps_state_starting,
            fsm_gps_state_started,
            fsm_gps_state_stopping
<1>1. WatchdogsMatchState'
  BY Zenon DEF ClientInv, WatchdogsMatchState, WithStartTimer, OffloadOnly, StartedTimers
<1>2. WakelockMatchesState'
  <2>1. \/ wakelock' /\ gps_state' # "IDLE"
        \/ wakelock' = wakelock /\ (gps_state' = "IDLE" <=> gps_state = "IDLE")
        \/ ~wakelock' /\ gps_state' = "IDLE"
    BY Zenon
  <2> QED
    BY ONLY ClientInv, UNCHANGED rebooted, <2>1, SMTT(30) DEF ClientInv,
       WakelockMatchesState
<1>3. AcksMatchState'
  <2> USE <1>0, <1>00 DEF ClientInv, AcksMatchState
  <2>1. (gs.open \subseteq gs.used)' /\ (gs.close \cap gs.used = {})'
    BY ZenonT(30)
  <2>2. (gs.open # {} => gps_state \in {"STARTING", "STOPPING"})'
    BY Zenon DEF is_a_gps_client_exist
  <2>3. (gps_state = "IDLE" => gs.close = {})'
    BY Zenon
  <2>4. (gps_state = "IDLE" => ~gs.reset)'
    BY Zenon
  <2> QED
    BY <2>1, <2>2, <2>3, <2>4, Zenon
<1>4. ResetAckSupervised'
  BY <1>0, <1>00, Zenon DEF ClientInv, ResetAckSupervised, AcksMatchState, StartedTimers
<1> QED
  BY <1>1, <1>2, <1>3, <1>4, Zenon DEF ClientInv

\* Steps outside the state machine that leave the flags of the clients, the
\* session and its wakelock alone keep the promises.
LEMMA FrameClients ==
  ASSUME ClientInv, UNCHANGED <<gps_state, wakelock, rebooted>>,
         gs'.used = gs.used, gs'.open = gs.open, gs'.close = gs.close,
         gs'.reset = gs.reset, timers' \ {"nmea"} = timers \ {"nmea"}
  PROVE  ClientInv'
<1>1. \A t \in {"start", "stop", "reset"} : t \in timers' <=> t \in timers
  OBVIOUS
<1>2. WatchdogsMatchState' /\ WakelockMatchesState'
  BY <1>1, Zenon DEF ClientInv, WatchdogsMatchState, WakelockMatchesState
<1>3. AcksMatchState'
  BY Zenon DEF ClientInv, AcksMatchState
<1>4. ResetAckSupervised'
  BY <1>1 DEF ClientInv, ResetAckSupervised
<1> QED
  BY <1>2, <1>3, <1>4, Zenon DEF ClientInv

\* Requests of the clients keep the promises.
LEMMA RequestClients == TypeOK /\ ClientInv /\ Requests => ClientInv'
<1> SUFFICES ASSUME TypeOK, ClientInv, Requests PROVE ClientInv'
  OBVIOUS
<1>0. /\ gs \in GsType /\ gs.open \subseteq gs.used /\ gs.close \cap gs.used = {}
  BY Zenon DEF TypeOK, ClientInv, AcksMatchState
<1>1. ASSUME NEW c \in Clients, ClientStart(c) PROVE ClientInv'
  <2> DEFINE s == [gs EXCEPT !.used = @ \cup {c}, !.open = @ \cup ({c} \cap AckClients),
                             !.close = @ \ {c}]
  <2>1. s \in GsType
    BY <1>0, RequestTypes, Zenon
  <2>2. s.open \subseteq s.used /\ s.close \cap s.used = {} /\ s.close \subseteq gs.close
    BY <1>0 DEF GsType
  <2>3. s.reset = gs.reset
    BY <1>0 DEF GsType
  <2>4. mnld_fsm("START", s) /\ UNCHANGED rebooted
    BY <1>1 DEF ClientStart, ClientFrame
  <2> HIDE DEF s
  <2> QED
    BY <2>1, <2>2, <2>3, <2>4, FsmClients, Zenon
<1>2. ASSUME NEW c \in Clients, ClientStop(c) PROVE ClientInv'
  <2> DEFINE s == [gs EXCEPT !.used = @ \ {c}, !.open = @ \ {c},
                             !.close = @ \cup ({c} \cap AckClients)]
  <2>1. s \in GsType
    BY <1>0, RequestTypes, Zenon
  <2>2. s.open \subseteq s.used /\ s.close \cap s.used = {} /\ s.open \subseteq gs.open
    BY <1>0 DEF GsType
  <2>3. s.reset = gs.reset
    BY <1>0 DEF GsType
  <2>4. mnld_fsm("STOP", s) /\ UNCHANGED rebooted
    BY <1>2 DEF ClientStop, ClientFrame
  <2> HIDE DEF s
  <2> QED
    BY <2>1, <2>2, <2>3, <2>4, FsmClients, Zenon
<1>3. ASSUME NEW c \in Clients, ClientReboot(c) PROVE ClientInv'
  <2> DEFINE s == [gs EXCEPT !.used = @ \ {c}, !.open = @ \ {c}, !.close = @ \ {c},
                             !.reset = @ /\ c # "agps"]
  <2>1. s \in GsType
    BY <1>0, RequestTypes, Zenon
  <2>2. s.open \subseteq s.used /\ s.close \cap s.used = {} /\ s.open \subseteq gs.open
    BY <1>0 DEF GsType
  <2>3. s.reset => gs.reset
    BY <1>0 DEF GsType
  <2>4. mnld_fsm("STOP", s) /\ UNCHANGED rebooted
    BY <1>3, Zenon DEF ClientReboot, ClientFrame
  <2> HIDE DEF s
  <2> QED
    BY <2>1, <2>2, <2>3, <2>4, FsmClients, Zenon
<1>4. ASSUME NEW f \in SUBSET Bits, hal_gps_delete_aiding_data(f) PROVE ClientInv'
  <2> DEFINE s == [gs EXCEPT !.flag = @ \cup f, !.owed = @ \cup f]
  <2>1. s \in GsType
    BY <1>0, DeleteTypes, Zenon
  <2>2. s.used = gs.used /\ s.open = gs.open /\ s.close = gs.close
    BY <1>0 DEF GsType
  <2>3. s.reset = gs.reset
    BY <1>0 DEF GsType
  <2>4. mnld_fsm("RESET", s) /\ UNCHANGED rebooted
    BY <1>4 DEF hal_gps_delete_aiding_data, ClientFrame
  <2> HIDE DEF s
  <2> QED
    BY <1>0, <2>1, <2>2, <2>3, <2>4, FsmClients
<1>5. ASSUME NEW f \in SUBSET Bits, agps_reset_gps_req(f) PROVE ClientInv'
  <2> DEFINE s == [gs EXCEPT !.flag = @ \cup f, !.owed = @ \cup f, !.reset = TRUE]
  <2>1. s \in GsType
    BY <1>0, DeleteTypes, Zenon
  <2>2. s.used = gs.used /\ s.open = gs.open /\ s.close = gs.close
    BY <1>0 DEF GsType
  <2>3. s.flag # {}
    BY <1>0, <1>5 DEF GsType, agps_reset_gps_req
  <2>4. mnld_fsm("RESET", s) /\ UNCHANGED rebooted
    BY <1>5 DEF agps_reset_gps_req, ClientFrame
  <2> HIDE DEF s
  <2> QED
    BY <1>0, <2>1, <2>2, <2>3, <2>4, FsmClients
<1>6. CASE hal_gps_init
  BY <1>6, FrameClients DEF hal_gps_init
<1> QED
  BY <1>1, <1>2, <1>3, <1>4, <1>5, <1>6 DEF Requests

\* Steps of the main thread keep the promises.
LEMMA MainClients == TypeOK /\ ClientInv /\ MainThread => ClientInv'
<1> SUFFICES ASSUME TypeOK, ClientInv, MainThread PROVE ClientInv'
  OBVIOUS
<1>0. /\ gs \in GsType /\ gs.open \subseteq gs.used /\ gs.close \cap gs.used = {}
      /\ gs.open # {} => gps_state \in {"STARTING", "STOPPING"}
  BY Zenon DEF TypeOK, ClientInv, AcksMatchState
<1>1. CASE TakeStartDone
  BY <1>0, <1>1, FsmClients DEF TakeStartDone, TakeMain
<1>2. CASE TakeStopDone
  BY <1>0, <1>2, FsmClients DEF TakeStopDone, TakeMain
<1>3. CASE TakeResetDone
  <2>1. /\ gs'.used = gs.used /\ gs'.open = gs.open /\ gs'.close = gs.close
        /\ ~gs'.reset
    BY <1>0, <1>3, HandlerUsed, HandlerFlags, Zenon DEF TakeResetDone
  <2>2. /\ timers' = timers \ {"reset"} /\ UNCHANGED <<gps_state, wakelock, rebooted>>
    BY <1>3 DEF TakeResetDone, TakeMain
  <2>3. WatchdogsMatchState' /\ WakelockMatchesState'
    BY <2>2 DEF ClientInv, WatchdogsMatchState, WakelockMatchesState
  <2>4. AcksMatchState' /\ ResetAckSupervised'
    BY <2>1, <2>2, Zenon DEF ClientInv, AcksMatchState, ResetAckSupervised
  <2> QED
    BY <2>3, <2>4 DEF ClientInv
<1>4. CASE TakeNmeaTimeout
  <2>1. CASE gps_state = "STARTED"
    <3> DEFINE s == [gs EXCEPT !.used = {}]
    <3>1. s \in GsType
      BY <1>0, DeleteTypes, Zenon
    <3>2. s.used = {} /\ s.open = {} /\ s.close = gs.close
      BY <1>0, <2>1 DEF GsType
    <3>3. s.reset = gs.reset
      BY <1>0 DEF GsType
    <3>4. mnld_fsm("STOP", s) /\ UNCHANGED rebooted
      BY <1>4, <2>1 DEF TakeNmeaTimeout, TakeMain
    <3> HIDE DEF s
    <3> QED
      BY <1>0, <3>1, <3>2, <3>3, <3>4, FsmClients, Zenon
  <2>2. CASE gps_state # "STARTED"
    BY <1>4, <2>2, FrameClients DEF TakeNmeaTimeout, TakeMain
  <2> QED
    BY <2>1, <2>2
<1>5. CASE TakeLocation
  BY <1>5, FrameClients DEF TakeLocation, TakeMain
<1> QED
  BY <1>1, <1>2, <1>3, <1>4, <1>5 DEF MainThread

\* Watchdogs, wakelock and pending acknowledgements fit the session in every
\* reachable state: no open request is stranded, no reset unsupervised, no
\* watchdog left behind, and the phone is awake while GPS runs.
THEOREM ClientPromises == Spec => []ClientInv
<1>1. Init => ClientInv
  BY DEF Init, InitGs, ClientInv, WatchdogsMatchState, WakelockMatchesState,
     AcksMatchState, ResetAckSupervised
<1>2. TypeOK /\ ClientInv /\ [Next]_vars => ClientInv'
  <2> SUFFICES ASSUME TypeOK, ClientInv, [Next]_vars PROVE ClientInv'
    BY Zenon
  <2>0. gs \in GsType
    BY DEF TypeOK
  <2>1. CASE Requests
    BY <2>1, RequestClients
  <2>2. CASE MainThread
    BY <2>2, MainClients
  <2>3. CASE ControlThread
    <3>1. /\ gs'.used = gs.used /\ gs'.open = gs.open /\ gs'.close = gs.close
          /\ gs'.reset = gs.reset
      BY <2>0, <2>3, Zenon DEF ControlThread, mnld_gps_start, mnld_gps_start_return,
         mnld_gps_stop, mnld_gps_delete_aiding_data, mnld_gps_controller_mnl_nmea_timeout,
         GsType
    <3>2. /\ timers' \ {"nmea"} = timers \ {"nmea"}
          /\ UNCHANGED <<gps_state, wakelock, rebooted>>
      BY <2>3, Zenon DEF ControlThread, mnld_gps_start, mnld_gps_start_return,
         mnld_gps_stop, mnld_gps_delete_aiding_data, mnld_gps_controller_mnl_nmea_timeout,
         TakeGps
    <3> QED
      BY <3>1, <3>2, FrameClients, Zenon
  <2>4. CASE Library
    BY <2>4, FrameClients, Zenon DEF Library, mtk_gps_sys_agps_disaptcher_callback,
       send_active_notify, mnld_gps_update_location, mtk_gps_ofl_sys_rst_stpgps_req,
       MnlFrame
  <2>5. CASE \E t \in Watchdogs : WatchdogTimeout(t)
    BY <2>5, FrameClients DEF WatchdogTimeout
  <2>6. CASE gps_mnld_restart_mnl_process
    BY <2>6, FrameClients, SMTT(30) DEF gps_mnld_restart_mnl_process
  <2>7. CASE Restart
    BY <2>7, Zenon DEF Restart, InitGs, ClientInv, WatchdogsMatchState,
       WakelockMatchesState,
       AcksMatchState, ResetAckSupervised
  <2>8. CASE UNCHANGED vars
    BY <2>8, FrameClients, Zenon DEF vars
  <2> QED
    BY <2>1, <2>2, <2>3, <2>4, <2>5, <2>6, <2>7, <2>8 DEF Next
<1> QED
  BY <1>1, <1>2, TypeCorrect, PTL DEF Spec

\* The state machine takes GPS away only when nobody uses it, and an idle state
\* is reached only through a completed stop or a restart of the daemon.
THEOREM StoppedOnlyWhenUnusedHolds == Spec => StoppedOnlyWhenUnused
<1> DEFINE A == /\ gps_state' = "STOPPING" /\ gps_state # "STOPPING" => gs'.used = {}
                /\ gps_state' = "IDLE" /\ gps_state # "IDLE" =>
                     ~Alive \/ (gps_state = "STOPPING" /\ gs'.used = {})
<1>1. ASSUME NEW e, NEW s \in GsType, mnld_fsm(e, s) PROVE A
  BY <1>1, HandlerUsed, Zenon DEF mnld_fsm, fsm_gps_state_idle, BeginSession,
     fsm_gps_state_starting,
     fsm_gps_state_started, fsm_gps_state_stopping, is_all_gps_client_exit,
     is_a_gps_client_exist
<1>2. TypeOK /\ [Next]_vars => [A]_vars
  <2> SUFFICES ASSUME TypeOK, Next PROVE A
    BY Zenon
  <2> HIDE DEF A
  <2>0. gs \in GsType
    BY DEF TypeOK
  <2>1. CASE Requests
    <3>1. CASE hal_gps_init
      BY <3>1, Zenon DEF hal_gps_init, A
    <3>2. ASSUME NEW c \in Clients, ClientStart(c) \/ ClientStop(c) \/ ClientReboot(c)
          PROVE  A
      BY <2>0, <3>2, <1>1, RequestTypes, Zenon DEF ClientStart, ClientStop, ClientReboot
    <3>3. ASSUME NEW f \in SUBSET Bits,
                 hal_gps_delete_aiding_data(f) \/ agps_reset_gps_req(f)
          PROVE  A
      BY <2>0, <3>3, <1>1, DeleteTypes, Zenon DEF hal_gps_delete_aiding_data,
         agps_reset_gps_req
    <3> QED
      BY <2>1, <3>1, <3>2, <3>3 DEF Requests
  <2>2. CASE MainThread
    <3>1. CASE TakeStartDone \/ TakeStopDone
      BY <2>0, <3>1, <1>1, Zenon DEF TakeStartDone, TakeStopDone
    <3>2. CASE TakeNmeaTimeout /\ gps_state = "STARTED"
      BY <2>0, <3>2, <1>1, DeleteTypes, Zenon DEF TakeNmeaTimeout
    <3>3. CASE TakeResetDone \/ TakeLocation \/ (TakeNmeaTimeout /\ gps_state # "STARTED")
      BY <3>3 DEF TakeResetDone, TakeLocation, TakeNmeaTimeout, A
    <3> QED
      BY <2>2, <3>1, <3>2, <3>3 DEF MainThread
  <2>3. CASE ControlThread
    BY <2>3 DEF ControlThread, mnld_gps_start, mnld_gps_start_return,
       mnld_gps_stop, mnld_gps_delete_aiding_data, mnld_gps_controller_mnl_nmea_timeout,
       TakeGps, A
  <2>4. CASE Library
    BY <2>4, Zenon DEF Library, mtk_gps_sys_agps_disaptcher_callback,
       send_active_notify, mnld_gps_update_location, mtk_gps_ofl_sys_rst_stpgps_req,
       MnlFrame, A
  <2>5. CASE (\E t \in Watchdogs : WatchdogTimeout(t)) \/ gps_mnld_restart_mnl_process \/ Restart
    BY <2>5, Zenon DEF WatchdogTimeout, gps_mnld_restart_mnl_process, Restart, A
  <2> QED
    BY <2>1, <2>2, <2>3, <2>4, <2>5, Zenon DEF Next
<1> QED
  BY <1>2, TypeCorrect, PTL DEF Spec, StoppedOnlyWhenUnused

(***************************************************************************)
(* The aiding data to delete.                                              *)
(***************************************************************************)

\* The bits that commands of the control socket ask to delete.
Carried(q) == UNION {q[i].flags : i \in 1..Len(q)}

Accounted(s, q) == s.owed \subseteq s.flag \cup s.hot \cup Carried(q)

\* Only a START or a RESET asks for a deletion.
Bare(q) == \A i \in 1..Len(q) : q[i].cmd \in {"STOP", "NMEA"} => q[i].flags = {}

AidingInv == Accounted(gs, gpsq) /\ Bare(gpsq)

\* A command on the socket stays there when another one is sent.
LEMMA SendCarries ==
  ASSUME NEW q \in Seq(GpsMsgs), NEW m \in GpsMsgs
  PROVE  /\ Carried(q) \subseteq Carried(SendGps(q, m))
         /\ Len(q) < GpsCap => m.flags \subseteq Carried(SendGps(q, m))
         /\ Bare(q) /\ (m.cmd \in {"STOP", "NMEA"} => m.flags = {}) => Bare(SendGps(q, m))
<1>1. CASE Len(q) < GpsCap
  <2> DEFINE r == Append(q, m)
  <2>1. SendGps(q, m) = r
    BY <1>1 DEF SendGps
  <2>2. /\ Len(r) = Len(q) + 1 /\ Len(q) \in Nat /\ r[Len(q) + 1] = m
        /\ \A i \in 1..Len(q) : r[i] = q[i]
    OBVIOUS
  <2> HIDE DEF r
  <2>3. 1..Len(q) \subseteq 1..Len(r) /\ Len(q) + 1 \in 1..Len(r)
    BY <2>2
  <2>4. \A i \in 1..Len(r) : i \in 1..Len(q) \/ i = Len(q) + 1
    BY <2>2, SMTT(30)
  <2>5. Carried(q) \subseteq Carried(r) /\ m.flags \subseteq Carried(r)
    BY <2>2, <2>3, Zenon DEF Carried
  <2>6. Bare(q) /\ (m.cmd \in {"STOP", "NMEA"} => m.flags = {}) => Bare(r)
    BY <2>2, <2>4, Zenon DEF Bare
  <2> QED
    BY <2>1, <2>5, <2>6, Zenon
<1>2. CASE ~(Len(q) < GpsCap)
  BY <1>2, Zenon DEF SendGps
<1> QED
  BY <1>1, <1>2, Zenon

\* Taking a command takes away the bits that it carries and no others.
LEMMA TakeCarries ==
  ASSUME NEW q \in Seq(GpsMsgs), q # <<>>
  PROVE  /\ Carried(q) \subseteq Head(q).flags \cup Carried(Tail(q))
         /\ Bare(q) => Bare(Tail(q))
         /\ Bare(q) /\ Head(q).cmd \in {"STOP", "NMEA"} => Head(q).flags = {}
<1> DEFINE r == Tail(q)
<1>1. /\ Len(q) \in Nat \ {0} /\ Len(r) = Len(q) - 1 /\ Head(q) = q[1]
      /\ \A i \in 1..Len(r) : r[i] = q[i + 1]
  OBVIOUS
<1> HIDE DEF r
<1>2. 1 \in 1..Len(q) /\ \A i \in 1..Len(r) : i + 1 \in 1..Len(q)
  BY <1>1
<1>3. \A i \in 1..Len(q) : i = 1 \/ (i - 1 \in 1..Len(r) /\ r[i - 1] = q[i])
  BY <1>1
<1>4. Carried(q) \subseteq Head(q).flags \cup Carried(r)
  BY <1>1, <1>3, SMTT(30) DEF Carried
<1>5. Bare(q) => Bare(r)
  BY <1>1, <1>2, Zenon DEF Bare
<1>6. Bare(q) /\ Head(q).cmd \in {"STOP", "NMEA"} => Head(q).flags = {}
  BY <1>1, <1>2, Zenon DEF Bare
<1> QED
  BY <1>4, <1>5, <1>6, Zenon DEF r

\* The acknowledgements leave the bits alone; sending moves them to the socket.
LEMMA HandlerBits ==
  ASSUME NEW s \in GsType
  PROVE  /\ \A r \in {do_gps_reset_hdlr(s), do_gps_stopped_hdlr(s),
                      do_gps_reset_hdlr([s EXCEPT !.open = {}])} :
              r \in GsType /\ r.owed = s.owed /\ r.flag = s.flag /\ r.hot = s.hot
         /\ FlagsSent(s, gpsq).hot = s.hot
         /\ FlagsSent(s, gpsq).owed = IF Len(gpsq) < GpsCap THEN s.owed ELSE s.owed \ s.flag
BY ZenonT(30) DEF do_gps_reset_hdlr, do_gps_stopped_hdlr, FlagsSent, GsType

LEMMA SentAccounted ==
  ASSUME gpsq \in Seq(GpsMsgs), NEW s \in GsType, NEW c \in {"START", "RESET"},
         Accounted(s, gpsq), Bare(gpsq)
  PROVE  /\ Accounted(FlagsSent(s, gpsq), SendGps(gpsq, GpsCmd(c, s.flag)))
         /\ Bare(SendGps(gpsq, GpsCmd(c, s.flag)))
         /\ SendGps(gpsq, GpsCmd(c, s.flag)) \in Seq(GpsMsgs)
<1> DEFINE m == GpsCmd(c, s.flag)
<1>1. m \in GpsMsgs /\ m.flags = s.flag /\ m.cmd \notin {"STOP", "NMEA"}
  BY Zenon DEF GpsCmd, GpsMsgs, GsType
<1> HIDE DEF m
<1>2. /\ Carried(gpsq) \subseteq Carried(SendGps(gpsq, m)) /\ Bare(SendGps(gpsq, m))
      /\ Len(gpsq) < GpsCap => s.flag \subseteq Carried(SendGps(gpsq, m))
  BY <1>1, SendCarries, Zenon
<1>3. Accounted(FlagsSent(s, gpsq), SendGps(gpsq, m))
  BY <1>2, HandlerBits, ZenonT(30) DEF Accounted
<1>4. SendGps(gpsq, m) \in Seq(GpsMsgs)
  BY <1>1, SendGpsFacts, Zenon
<1> QED
  BY <1>2, <1>3, <1>4, Zenon DEF m

\* A STOP carries nothing, so nothing is lost from sight when it is sent.
LEMMA StopAccounted ==
  ASSUME NEW q \in Seq(GpsMsgs), NEW s, Accounted(s, q), Bare(q)
  PROVE  Accounted(s, SendGps(q, GpsCmd("STOP", {}))) /\ Bare(SendGps(q, GpsCmd("STOP", {})))
<1>1. GpsCmd("STOP", {}) \in GpsMsgs /\ GpsCmd("STOP", {}).flags = {}
  BY Zenon DEF GpsCmd, GpsMsgs
<1> QED
  BY <1>1, SendCarries, Zenon DEF Accounted

\* do_gps_started_hdlr() and the reset in the STARTED state send what is waiting.
LEMMA StartedAccounted ==
  ASSUME gpsq \in Seq(GpsMsgs), NEW s \in GsType, Accounted(s, gpsq), Bare(gpsq)
  PROVE  /\ Accounted(do_gps_started_hdlr(s), StartedQueue(s)) /\ Bare(StartedQueue(s))
         /\ Accounted(IF s.flag = {} THEN s ELSE FlagsSent(s, gpsq), StartedQueue(s))
         /\ StartedQueue(s) \in Seq(GpsMsgs)
<1> DEFINE r == do_gps_reset_hdlr([s EXCEPT !.open = {}])
<1>1. r \in GsType /\ r.owed = s.owed /\ r.flag = s.flag /\ r.hot = s.hot
  BY HandlerBits, Zenon
<1>2. do_gps_started_hdlr(s) = IF s.flag = {} THEN r ELSE FlagsSent(r, gpsq)
  BY DEF do_gps_started_hdlr
<1> HIDE DEF r
<1>3. Accounted(r, gpsq)
  BY <1>1, Zenon DEF Accounted
<1>4. CASE s.flag = {}
  BY <1>2, <1>3, <1>4, Zenon DEF StartedQueue
<1>5. CASE s.flag # {}
  BY <1>1, <1>2, <1>3, <1>5, SentAccounted, Zenon DEF StartedQueue
<1> QED
  BY <1>4, <1>5, Zenon

\* No event makes the state machine forget a bit, whatever state it meets.
LEMMA FsmAiding ==
  ASSUME gpsq \in Seq(GpsMsgs), NEW s \in GsType, Accounted(s, gpsq), Bare(gpsq),
         NEW e, mnld_fsm(e, s)
  PROVE  Accounted(gs', gpsq') /\ Bare(gpsq')
<1>1. \A r \in {s, do_gps_reset_hdlr(s), do_gps_stopped_hdlr(s)} :
        r \in GsType /\ Accounted(r, gpsq) /\ r.flag = s.flag
  <2>1. \A r \in GsType : r.owed = s.owed /\ r.flag = s.flag /\ r.hot = s.hot
                            => Accounted(r, gpsq)
    BY Zenon DEF Accounted
  <2>2. \A r \in {s, do_gps_reset_hdlr(s), do_gps_stopped_hdlr(s)} :
          r \in GsType /\ r.owed = s.owed /\ r.flag = s.flag /\ r.hot = s.hot
    BY HandlerBits, ZenonT(30)
  <2> QED
    BY <2>1, <2>2, Zenon
<1>2. CASE fsm_gps_state_idle(e, s)
  BY <1>1, <1>2, SentAccounted, Zenon DEF fsm_gps_state_idle, BeginSession
<1>3. CASE fsm_gps_state_starting(e, s)
  BY <1>1, <1>3, StartedAccounted, StopAccounted, Zenon DEF fsm_gps_state_starting
<1>4. CASE fsm_gps_state_started(e, s)
  BY <1>1, <1>4, StartedAccounted, StopAccounted, Zenon DEF fsm_gps_state_started
<1>5. CASE fsm_gps_state_stopping(e, s)
  BY <1>1, <1>5, SentAccounted, Zenon DEF fsm_gps_state_stopping
<1> QED
  BY <1>2, <1>3, <1>4, <1>5 DEF mnld_fsm

LEMMA RequestAiding == TypeOK /\ AidingInv /\ Requests => AidingInv'
<1> SUFFICES ASSUME TypeOK, AidingInv, Requests PROVE AidingInv'
  OBVIOUS
<1>0. gs \in GsType /\ gpsq \in Seq(GpsMsgs) /\ Accounted(gs, gpsq) /\ Bare(gpsq)
  BY DEF TypeOK, AidingInv
<1>1. ASSUME NEW s \in GsType, NEW e, mnld_fsm(e, s),
             s.owed \subseteq s.flag \cup s.hot \cup Carried(gpsq)
      PROVE  AidingInv'
  BY <1>0, <1>1, FsmAiding, Zenon DEF Accounted, AidingInv
<1>2. ASSUME NEW c \in Clients, ClientStart(c) \/ ClientStop(c) \/ ClientReboot(c)
      PROVE  AidingInv'
  <2>1. PICK s \in GsType, e \in {"START", "STOP"} :
          mnld_fsm(e, s) /\ s.owed = gs.owed /\ s.flag = gs.flag /\ s.hot = gs.hot
    <3>1. CASE ClientStart(c)
      <4> DEFINE s == [gs EXCEPT !.used = @ \cup {c}, !.open = @ \cup ({c} \cap AckClients),
                                 !.close = @ \ {c}]
      <4>1. s \in GsType /\ s.owed = gs.owed /\ s.flag = gs.flag /\ s.hot = gs.hot
        BY <1>0, RequestTypes, Zenon DEF GsType
      <4>2. mnld_fsm("START", s)
        BY <3>1 DEF ClientStart
      <4> HIDE DEF s
      <4> QED
        BY <4>1, <4>2, Zenon
    <3>2. CASE ClientStop(c)
      <4> DEFINE s == [gs EXCEPT !.used = @ \ {c}, !.open = @ \ {c},
                                 !.close = @ \cup ({c} \cap AckClients)]
      <4>1. s \in GsType /\ s.owed = gs.owed /\ s.flag = gs.flag /\ s.hot = gs.hot
        BY <1>0, RequestTypes, Zenon DEF GsType
      <4>2. mnld_fsm("STOP", s)
        BY <3>2 DEF ClientStop
      <4> HIDE DEF s
      <4> QED
        BY <4>1, <4>2
    <3>3. CASE ClientReboot(c)
      <4> DEFINE s == [gs EXCEPT !.used = @ \ {c}, !.open = @ \ {c}, !.close = @ \ {c},
                                 !.reset = @ /\ c # "agps"]
      <4>1. s \in GsType /\ s.owed = gs.owed /\ s.flag = gs.flag /\ s.hot = gs.hot
        BY <1>0, RequestTypes, ZenonT(30) DEF GsType
      <4>2. mnld_fsm("STOP", s)
        BY <3>3 DEF ClientReboot
      <4> HIDE DEF s
      <4> QED
        BY <4>1, <4>2
    <3> QED
      BY <1>2, <3>1, <3>2, <3>3, Zenon
  <2> QED
    BY <1>0, <1>1, <2>1, Zenon DEF Accounted
<1>3. ASSUME NEW f \in SUBSET Bits, hal_gps_delete_aiding_data(f) \/ agps_reset_gps_req(f)
      PROVE  AidingInv'
  <2>1. PICK s \in GsType :
          /\ mnld_fsm("RESET", s)
          /\ s.owed = gs.owed \cup f /\ s.flag = gs.flag \cup f /\ s.hot = gs.hot
    <3>1. CASE hal_gps_delete_aiding_data(f)
      <4> DEFINE s == [gs EXCEPT !.flag = @ \cup f, !.owed = @ \cup f]
      <4>1. /\ s \in GsType /\ s.owed = gs.owed \cup f /\ s.flag = gs.flag \cup f
            /\ s.hot = gs.hot
        BY <1>0, DeleteTypes, Zenon DEF GsType
      <4>2. mnld_fsm("RESET", s)
        BY <3>1 DEF hal_gps_delete_aiding_data
      <4> HIDE DEF s
      <4> QED
        BY <4>1, <4>2, Zenon
    <3>2. CASE agps_reset_gps_req(f)
      <4> DEFINE s == [gs EXCEPT !.flag = @ \cup f, !.owed = @ \cup f, !.reset = TRUE]
      <4>1. /\ s \in GsType /\ s.owed = gs.owed \cup f /\ s.flag = gs.flag \cup f
            /\ s.hot = gs.hot
        BY <1>0, DeleteTypes, Zenon DEF GsType
      <4>2. mnld_fsm("RESET", s)
        BY <3>2 DEF agps_reset_gps_req
      <4> HIDE DEF s
      <4> QED
        BY <4>1, <4>2
    <3> QED
      BY <1>3, <3>1, <3>2, Zenon
  <2> QED
    BY <1>0, <1>1, <2>1, Zenon DEF Accounted
<1>4. CASE hal_gps_init
  BY <1>0, <1>4, Zenon DEF hal_gps_init, AidingInv
<1> QED
  BY <1>2, <1>3, <1>4 DEF Requests

LEMMA MainAiding == TypeOK /\ AidingInv /\ MainThread => AidingInv'
<1> SUFFICES ASSUME TypeOK, AidingInv, MainThread PROVE AidingInv'
  OBVIOUS
<1>0. gs \in GsType /\ gpsq \in Seq(GpsMsgs) /\ Accounted(gs, gpsq) /\ Bare(gpsq)
  BY DEF TypeOK, AidingInv
<1>1. CASE TakeStartDone \/ TakeStopDone
  BY <1>0, <1>1, FsmAiding, Zenon DEF TakeStartDone, TakeStopDone, AidingInv
<1>2. CASE TakeResetDone
  <2>1. gs' = do_gps_reset_hdlr(gs) /\ gpsq' = gpsq
    BY <1>2 DEF TakeResetDone
  <2> QED
    BY <1>0, <2>1, HandlerBits, Zenon DEF AidingInv, Accounted
<1>3. CASE TakeNmeaTimeout
  <2> DEFINE s == [gs EXCEPT !.used = {}]
  <2>1. s \in GsType /\ s.owed = gs.owed /\ s.flag = gs.flag /\ s.hot = gs.hot
    BY <1>0, Zenon DEF GsType
  <2>2. mnld_fsm("STOP", s) \/ (gs' = gs /\ gpsq' = gpsq)
    BY <1>3 DEF TakeNmeaTimeout
  <2> HIDE DEF s
  <2>3. Accounted(s, gpsq)
    BY <1>0, <2>1, Zenon DEF Accounted
  <2> QED
    BY <1>0, <2>1, <2>2, <2>3, FsmAiding, Zenon DEF AidingInv
<1>4. CASE TakeLocation
  BY <1>0, <1>4, Zenon DEF TakeLocation, AidingInv
<1> QED
  BY <1>1, <1>2, <1>3, <1>4 DEF MainThread

LEMMA ControlAiding == TypeOK /\ AidingInv /\ ControlThread => AidingInv'
<1> SUFFICES ASSUME TypeOK, AidingInv, ControlThread PROVE AidingInv'
  OBVIOUS
<1>0. gs \in GsType /\ gpsq \in Seq(GpsMsgs) /\ Accounted(gs, gpsq) /\ Bare(gpsq)
  BY DEF TypeOK, AidingInv
<1>1. CASE mnld_gps_start_return
  BY <1>0, <1>1, Zenon DEF mnld_gps_start_return, AidingInv
<1>2. CASE gpsq # <<>> /\ gpsq' = Tail(gpsq)
  <2> DEFINE f == Head(gpsq).flags
  <2>1. /\ Carried(gpsq) \subseteq f \cup Carried(gpsq') /\ Bare(gpsq')
        /\ Head(gpsq).cmd \in {"STOP", "NMEA"} => f = {}
    BY <1>0, <1>2, TakeCarries, Zenon
  <2>2. f \in SUBSET Bits
    BY <1>0, <1>2, TakeGpsFacts, Zenon DEF GpsMsgs
  <2>3. CASE mnld_gps_start
    <3>1. gs' = [gs EXCEPT !.owed = @ \ f, !.hot = @ \ f]
      BY <2>3 DEF mnld_gps_start
    <3> HIDE DEF f
    <3>2. gs'.owed = gs.owed \ f /\ gs'.hot = gs.hot \ f /\ gs'.flag = gs.flag
      BY <1>0, <3>1 DEF GsType
    <3> QED
      BY <1>0, <2>1, <3>2, Zenon DEF AidingInv, Accounted
  <2>4. CASE mnld_gps_delete_aiding_data
    <3>1. gs' = [gs EXCEPT !.owed = @ \ f] \/ gs' = [gs EXCEPT !.hot = @ \cup f]
      BY <2>4 DEF mnld_gps_delete_aiding_data
    <3> HIDE DEF f
    <3>2. /\ gs'.flag = gs.flag
          /\ \/ gs'.owed = gs.owed \ f /\ gs'.hot = gs.hot
             \/ gs'.owed = gs.owed /\ gs'.hot = gs.hot \cup f
      BY <1>0, <3>1 DEF GsType
    <3> QED
      BY <1>0, <2>1, <3>2, Zenon DEF AidingInv, Accounted
  <2>5. CASE mnld_gps_stop \/ mnld_gps_controller_mnl_nmea_timeout
    <3>1. Head(gpsq).cmd \in {"STOP", "NMEA"} /\ gs' = gs
      BY <2>5, Zenon DEF mnld_gps_stop, mnld_gps_controller_mnl_nmea_timeout, TakeGps
    <3> QED
      BY <1>0, <2>1, <3>1, Zenon DEF AidingInv, Accounted
  <2> QED
    BY <1>1, <2>3, <2>4, <2>5 DEF ControlThread
<1> QED
  BY <1>1, <1>2 DEF ControlThread, mnld_gps_start, mnld_gps_stop,
     mnld_gps_delete_aiding_data,
     mnld_gps_controller_mnl_nmea_timeout, TakeGps

\* Every bit that a client asked to delete is waiting in delete_aiding_flag, on its
\* way to the control thread or was turned into a hot restart, in every reachable
\* state and for every capacity of the sockets (gps_controller.c, mnld.c).
THEOREM AidingAccountedHolds == Spec => []AidingAccounted
<1>1. Init => AidingInv
  BY DEF Init, InitGs, AidingInv, Accounted, Bare
<1>2. TypeOK /\ AidingInv /\ [Next]_vars => AidingInv'
  <2> SUFFICES ASSUME TypeOK, AidingInv, [Next]_vars PROVE AidingInv'
    OBVIOUS
  <2>0. gpsq \in Seq(GpsMsgs) /\ Accounted(gs, gpsq) /\ Bare(gpsq)
    BY DEF TypeOK, AidingInv
  <2>1. ASSUME gs' = gs, gpsq' = gpsq PROVE AidingInv'
    BY <2>0, <2>1 DEF AidingInv
  <2>2. CASE Library
    <3>1. CASE send_active_notify
      <4>1. GpsCmd("NMEA", {}) \in GpsMsgs /\ GpsCmd("NMEA", {}).flags = {}
        BY Zenon DEF GpsCmd, GpsMsgs
      <4>2. gs' = gs /\ gpsq' = SendGps(gpsq, GpsCmd("NMEA", {}))
        BY <3>1 DEF send_active_notify, MnlFrame
      <4> QED
        BY <2>0, <4>1, <4>2, SendCarries, Zenon DEF AidingInv, Accounted
    <3> QED
      BY <2>1, <2>2, <3>1, Zenon DEF Library, mtk_gps_sys_agps_disaptcher_callback,
         mnld_gps_update_location, mtk_gps_ofl_sys_rst_stpgps_req, MnlFrame
  <2>3. CASE (\E t \in Watchdogs : WatchdogTimeout(t)) \/ gps_mnld_restart_mnl_process
    BY <2>1, <2>3, SMTT(30) DEF WatchdogTimeout, gps_mnld_restart_mnl_process
  <2>4. CASE Restart
    BY <2>4 DEF Restart, InitGs, AidingInv, Accounted, Bare
  <2>5. CASE UNCHANGED vars
    BY <2>1, <2>5 DEF vars
  <2> QED
    BY <2>2, <2>3, <2>4, <2>5, RequestAiding, MainAiding, ControlAiding DEF Next
<1>3. AidingInv => AidingAccounted
  BY Zenon DEF AidingInv, Accounted, Carried, AidingAccounted
<1> QED
  BY <1>1, <1>2, <1>3, TypeCorrect, PTL DEF Spec
=============================================================================
