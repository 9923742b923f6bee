------------------------------- MODULE GpsHal -------------------------------
(***************************************************************************)
(* The GPS HAL (gps_hal): the framework thread that calls the GpsInterface *)
(* (gpsinf.c, gpshal.c), the worker thread that serves the messages of     *)
(* mnld (gpshal_worker.c), and as much of mnld as the HAL can observe: its *)
(* HAL client, its death and restart, and the reboot notice it sends.      *)
(*                                                                         *)
(* Both threads read and write gps_state_intent and gps_state without a    *)
(* lock, so a call is split where the other thread may run in between.     *)
(***************************************************************************)
EXTENDS Naturals, Sequences

CONSTANTS
  HalCap,       \* datagrams each of the two sockets holds
  MaxDeaths     \* bound on the deaths of mnld and of the HAL process

ASSUME HalAssumption == HalCap \in Nat \ {0} /\ MaxDeaths \in Nat

VARIABLES
  gps_state_intent,
  gps_state,
  fw,           \* the framework thread: the call it is in, and where
  workers,      \* worker threads that this HAL process has created
  todo,         \* requests the worker thread is about to send
  hal2mnl,      \* socket MTK_HAL2MNL
  mnl2hal,      \* socket MTK_MNL2HAL
  mnld,         \* mnld: dead, restarted, or up with its reboot notice sent
  halUsed,      \* mnld: clients.hal.gps_used
  deaths,       \* history: deaths so far
  dropped       \* history: a socket was full and a message was given up

vars == <<gps_state_intent, gps_state, fw, workers, todo, hal2mnl, mnl2hal, mnld,
          halUsed, deaths, dropped>>

HalStates == {"UNKNOWN", "RESOURCE", "CLEANUP", "INIT", "STOP", "START"}

Calls == {"INIT", "START", "STOP", "CLEANUP"}

Requests == Calls \cup {"REBOOT"}

Idle == [call |-> "none", pc |-> "idle"]

TypeOK ==
  /\ gps_state_intent \in HalStates \ {"RESOURCE"}
  /\ gps_state \in HalStates
  /\ fw \in {Idle} \cup [call : Calls, pc : {"resource", "intent", "send"}]
  /\ workers \in Nat
  /\ todo \in Seq(Calls)
  /\ hal2mnl \in Seq(Requests)
  /\ mnl2hal \in Seq({"REBOOT"})
  /\ mnld \in {"dead", "restarted", "up"}
  /\ halUsed \in BOOLEAN
  /\ deaths \in 0..MaxDeaths
  /\ dropped \in BOOLEAN

\* The HAL process has just handed out its interface, which sends HAL_REBOOT.
Init ==
  /\ gps_state_intent = "UNKNOWN"
  /\ gps_state = "UNKNOWN"
  /\ fw = Idle
  /\ workers = 0
  /\ todo = <<>>
  /\ hal2mnl = <<"REBOOT">>
  /\ mnl2hal = <<>>
  /\ mnld = "up"
  /\ halUsed = FALSE
  /\ deaths = 0
  /\ dropped = FALSE

(***************************************************************************)
(* Sending a request (gpshal2mnl_gps_init etc): nothing is sent before the *)
(* resources exist, a dead mnld refuses the datagram, a full socket drops  *)
(* it, and gps_state follows only a successful send.                       *)
(***************************************************************************)
SendRequest(r) ==
  IF gps_state = "UNKNOWN" \/ mnld = "dead"
  THEN UNCHANGED <<gps_state, hal2mnl, dropped>>
  ELSE IF Len(hal2mnl) < HalCap
  THEN /\ gps_state' = r
       /\ hal2mnl' = Append(hal2mnl, r)
       /\ UNCHANGED dropped
  ELSE /\ dropped' = TRUE
       /\ UNCHANGED <<gps_state, hal2mnl>>

(***************************************************************************)
(* The framework thread (GpsLocationProvider, external, calls in the order *)
(* init, then start and stop, then cleanup).                               *)
(***************************************************************************)
FrameworkMayCall(c) ==
  CASE c = "INIT"    -> gps_state_intent \in {"UNKNOWN", "CLEANUP"}
    [] c = "CLEANUP" -> gps_state_intent \in {"INIT", "STOP"}
    [] OTHER         -> gps_state_intent \in {"INIT", "STOP", "START"}

\* Faulty variant: the resources are created again on every init.
gpsinf_call_Again(c) ==
  /\ fw = Idle
  /\ FrameworkMayCall(c)
  /\ \/ c = "INIT" /\ workers' = workers + 1 /\ fw' = [call |-> c, pc |-> "resource"]
     \/ c # "INIT" /\ UNCHANGED workers /\ fw' = [call |-> c, pc |-> "intent"]
  /\ UNCHANGED <<gps_state_intent, gps_state, todo, hal2mnl, mnl2hal, mnld, halUsed,
                 deaths, dropped>>

\* Resources are created on the first init only; creating them may fail, and is
\* not tried again.
gpsinf_call(c) ==
  /\ fw = Idle
  /\ FrameworkMayCall(c)
  /\ \/ /\ c = "INIT" /\ gps_state_intent = "UNKNOWN"
        /\ workers' = workers + 1
        /\ fw' = [call |-> c, pc |-> "resource"]
     \/ /\ UNCHANGED workers
        /\ fw' = [call |-> c, pc |-> "intent"]
  /\ UNCHANGED <<gps_state_intent, gps_state, todo, hal2mnl, mnl2hal, mnld, halUsed,
                 deaths, dropped>>

\* The worker thread already runs when gps_state becomes RESOURCE.
gpshal_resource_init ==
  /\ fw.pc = "resource"
  /\ gps_state' = "RESOURCE"
  /\ fw' = [fw EXCEPT !.pc = "intent"]
  /\ UNCHANGED <<gps_state_intent, workers, todo, hal2mnl, mnl2hal, mnld, halUsed, deaths,
                 dropped>>

\* Faulty variant: the state the HAL is in is recorded as the intent.
gpshal_set_gps_state_intent_Actual ==
  /\ fw.pc = "intent"
  /\ gps_state_intent' = gps_state
  /\ fw' = [fw EXCEPT !.pc = "send"]
  /\ UNCHANGED <<gps_state, workers, todo, hal2mnl, mnl2hal, mnld, halUsed, deaths,
                 dropped>>

gpshal_set_gps_state_intent ==
  /\ fw.pc = "intent"
  /\ gps_state_intent' = fw.call
  /\ fw' = [fw EXCEPT !.pc = "send"]
  /\ UNCHANGED <<gps_state, workers, todo, hal2mnl, mnl2hal, mnld, halUsed, deaths,
                 dropped>>

gpshal2mnl_gps_call ==
  /\ fw.pc = "send"
  /\ SendRequest(fw.call)
  /\ fw' = Idle
  /\ UNCHANGED <<gps_state_intent, workers, todo, mnl2hal, mnld, halUsed, deaths>>

(***************************************************************************)
(* The worker thread.                                                      *)
(***************************************************************************)
\* Faulty variant: a restarted mnld is initialised and not started again.
RebootRequests_InitOnly(intent) ==
  IF intent \in {"INIT", "STOP", "START"} THEN <<"INIT">> ELSE <<>>

RebootRequests(intent) ==
  CASE intent \in {"INIT", "STOP"} -> <<"INIT">>
    [] intent = "START"            -> <<"INIT", "START">>
    [] OTHER                       -> <<>>

update_mnld_reboot ==
  /\ workers > 0
  /\ todo = <<>>
  /\ mnl2hal # <<>>
  /\ mnl2hal' = Tail(mnl2hal)
  /\ todo' = RebootRequests(gps_state_intent)
  /\ UNCHANGED <<gps_state_intent, gps_state, fw, workers, hal2mnl, mnld, halUsed, deaths,
                 dropped>>

WorkerSends ==
  /\ todo # <<>>
  /\ SendRequest(Head(todo))
  /\ todo' = Tail(todo)
  /\ UNCHANGED <<gps_state_intent, fw, workers, mnl2hal, mnld, halUsed, deaths>>

(***************************************************************************)
(* mnld, as the HAL sees it.                                               *)
(***************************************************************************)
\* Faulty variant: hal_reboot() leaves gps_used alone.
MnldTakes_KeepOnReboot ==
  /\ mnld # "dead"
  /\ hal2mnl # <<>>
  /\ hal2mnl' = Tail(hal2mnl)
  /\ halUsed' = CASE Head(hal2mnl) = "START" -> TRUE
                  [] Head(hal2mnl) = "STOP"  -> FALSE
                  [] OTHER                   -> halUsed
  /\ UNCHANGED <<gps_state_intent, gps_state, fw, workers, todo, mnl2hal, mnld, deaths,
                 dropped>>

MnldTakes ==
  /\ mnld # "dead"
  /\ hal2mnl # <<>>
  /\ hal2mnl' = Tail(hal2mnl)
  /\ halUsed' = CASE Head(hal2mnl) = "START"              -> TRUE
                  [] Head(hal2mnl) \in {"STOP", "REBOOT"} -> FALSE
                  [] OTHER                                -> halUsed
  /\ UNCHANGED <<gps_state_intent, gps_state, fw, workers, todo, mnl2hal, mnld, deaths,
                 dropped>>

\* mnl2hal_mnld_reboot(): lost when the HAL has no socket yet, or a full one. (A HAL
\* whose resources failed half way may have the socket; nobody reads it.)
SendReboot ==
  IF workers = 0
  THEN UNCHANGED <<mnl2hal, dropped>>
  ELSE IF Len(mnl2hal) < HalCap
  THEN mnl2hal' = Append(mnl2hal, "REBOOT") /\ UNCHANGED dropped
  ELSE dropped' = TRUE /\ UNCHANGED mnl2hal

\* NMEA timeout: every client loses GPS and is told of a reboot.
MnldTakesGpsAway ==
  /\ mnld = "up"
  /\ deaths < MaxDeaths
  /\ deaths' = deaths + 1
  /\ halUsed' = FALSE
  /\ SendReboot
  /\ UNCHANGED <<gps_state_intent, gps_state, fw, workers, todo, hal2mnl, mnld>>

MnldDies ==
  /\ mnld # "dead"
  /\ deaths < MaxDeaths
  /\ deaths' = deaths + 1
  /\ mnld' = "dead"
  /\ hal2mnl' = <<>>
  /\ halUsed' = FALSE
  /\ UNCHANGED <<gps_state_intent, gps_state, fw, workers, todo, mnl2hal, dropped>>

\* mnld_init() opens its sockets first and sends the reboot notices last.
MnldRestarts ==
  /\ mnld = "dead"
  /\ mnld' = "restarted"
  /\ UNCHANGED <<gps_state_intent, gps_state, fw, workers, todo, hal2mnl, mnl2hal,
                 halUsed, deaths, dropped>>

mnl2hal_mnld_reboot ==
  /\ mnld = "restarted"
  /\ mnld' = "up"
  /\ SendReboot
  /\ UNCHANGED <<gps_state_intent, gps_state, fw, workers, todo, hal2mnl, halUsed, deaths>>

\* The process that hosts the HAL dies; its successor sends HAL_REBOOT.
HalRestarts ==
  /\ deaths < MaxDeaths
  /\ deaths' = deaths + 1
  /\ gps_state_intent' = "UNKNOWN"
  /\ gps_state' = "UNKNOWN"
  /\ fw' = Idle
  /\ workers' = 0
  /\ todo' = <<>>
  /\ mnl2hal' = <<>>
  /\ IF mnld = "dead" THEN UNCHANGED <<hal2mnl, dropped>>
     ELSE IF Len(hal2mnl) < HalCap
     THEN hal2mnl' = Append(hal2mnl, "REBOOT") /\ UNCHANGED dropped
     ELSE dropped' = TRUE /\ UNCHANGED hal2mnl
  /\ UNCHANGED <<mnld, halUsed>>

Framework == gpshal_resource_init \/ gpshal_set_gps_state_intent \/ gpshal2mnl_gps_call

Worker == update_mnld_reboot \/ WorkerSends

Mnld == MnldTakes \/ MnldRestarts \/ mnl2hal_mnld_reboot

Next ==
  \/ \E c \in Calls : gpsinf_call(c)
  \/ Framework \/ Worker \/ Mnld
  \/ MnldTakesGpsAway \/ MnldDies \/ HalRestarts

Spec == Init /\ [][Next]_vars

\* The threads of both processes are scheduled, and init restarts mnld.
FairSpec == Spec /\ WF_vars(Framework) /\ WF_vars(Worker) /\ WF_vars(Mnld)

(***************************************************************************)
(* Properties.                                                             *)
(***************************************************************************)
\* Nobody is in the middle of anything and nothing is under way.
Quiet ==
  /\ fw = Idle /\ todo = <<>> /\ mnld = "up"
  /\ hal2mnl = <<>> /\ mnl2hal = <<>>

\* "gps_state_intent;  // what we want" (gpshal.h): once everything has settled,
\* mnld runs GPS for the HAL exactly when the framework wants it, provided the
\* resources could be created and no socket overflowed.
WhatWeWant ==
  Quiet /\ ~dropped /\ gps_state # "UNKNOWN" => (halUsed <=> gps_state_intent = "START")

\* A GPS that the framework wants has been asked for, whatever died in between,
\* provided the resources could be created and no socket overflowed.
WantedIsAskedFor ==
  Quiet /\ ~dropped /\ gps_state # "UNKNOWN" /\ gps_state_intent = "START" => halUsed

\* A HAL process that has just started owns no session of its predecessor.
NoInheritedSession == Quiet /\ ~dropped /\ gps_state_intent = "UNKNOWN" => ~halUsed

\* "Init resources at most once (no retry)" (gpshal.c), however often the
\* framework enables and disables the provider; and no request is sent by a HAL
\* whose resources were never created.
ResourcesAtMostOnce ==
  /\ workers <= 1
  /\ gps_state # "UNKNOWN" => workers = 1

\* A GPS the framework goes on wanting is in the end used in mnld, across any
\* bounded number of deaths.
WantedGpsRuns ==
  gps_state_intent = "START" ~>
    halUsed \/ gps_state_intent # "START" \/ dropped \/ gps_state = "UNKNOWN"
=============================================================================
