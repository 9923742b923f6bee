---------------------------- MODULE GpsHalProofs ----------------------------
(***************************************************************************)
(* Theorems about GpsHal, for sockets of any capacity and any number of    *)
(* deaths.                                                                 *)
(***************************************************************************)
EXTENDS GpsHal, TLAPS

-----------------------------------------------------------------------------
(* The inductive invariant. *)

\* The framework thread: the intent is the call it sends, the resources are created
\* before there is an intent, and once.
ThreadsAgree ==
  /\ fw.pc = "send" => gps_state_intent = fw.call
  /\ fw.pc = "resource" => gps_state_intent = "UNKNOWN" /\ workers = 1
  /\ fw.pc = "idle" /\ gps_state_intent = "UNKNOWN" => workers = 0
  /\ workers <= 1
  /\ gps_state # "UNKNOWN" => workers = 1

\* A dead mnld has no datagrams and no client.
DeadIsEmpty == mnld = "dead" => hal2mnl = <<>> /\ ~halUsed

\* A new HAL process has asked for nothing, and its reboot notice comes last.
Forgotten ==
  /\ todo = <<>>
  /\ hal2mnl = <<>> => ~halUsed
  /\ hal2mnl # <<>> => hal2mnl[Len(hal2mnl)] = "REBOOT"
NewHal == ~dropped /\ gps_state_intent = "UNKNOWN" => Forgotten

\* The last request that decides about the session is START.
Ending == {"STOP", "REBOOT"}
NoEndingAfter(i) == \A j \in (i + 1)..Len(hal2mnl) : hal2mnl[j] \notin Ending
StartsLast ==
  \/ \E i \in 1..Len(hal2mnl) : hal2mnl[i] = "START" /\ NoEndingAfter(i)
  \/ halUsed /\ NoEndingAfter(0)

\* A wanted GPS is asked for, or is going to be: by the framework thread, by the
\* worker, after a reboot notice on its way, or by a mnld that is still to send one.
Asked ==
  \/ fw.pc = "send" \/ mnld # "up" \/ mnl2hal # <<>>
  \/ \E i \in 1..Len(todo) : todo[i] = "START"
  \/ StartsLast
WantedAsked ==
  ~dropped /\ gps_state # "UNKNOWN" /\ gps_state_intent = "START" => Asked

\* The worker never asks for the end of a session.
WorkerWants == \A i \in 1..Len(todo) : todo[i] \in {"INIT", "START"}

IInv ==
  TypeOK /\ ThreadsAgree /\ WorkerWants /\ DeadIsEmpty /\ NewHal /\ WantedAsked

-----------------------------------------------------------------------------
(* Sequences. *)

LEMMA AppendFacts ==
  ASSUME NEW S, NEW s \in Seq(S), NEW x \in S
  PROVE  /\ Append(s, x) \in Seq(S) /\ Append(s, x) # <<>>
         /\ Len(s) \in Nat /\ Len(Append(s, x)) = Len(s) + 1
         /\ Append(s, x)[Len(s) + 1] = x
         /\ \A i \in 1..Len(s) : Append(s, x)[i] = s[i]
OBVIOUS

LEMMA TailFacts ==
  ASSUME NEW S, NEW s \in Seq(S), s # <<>>
  PROVE  /\ Tail(s) \in Seq(S) /\ Head(s) \in S /\ Head(s) = s[1]
         /\ Len(s) \in Nat \ {0} /\ Len(Tail(s)) = Len(s) - 1
         /\ \A i \in 1..Len(Tail(s)) : Tail(s)[i] = s[i + 1]
         /\ Tail(s) = <<>> <=> Len(s) = 1
<1>1. /\ Tail(s) \in Seq(S) /\ Head(s) \in S /\ Head(s) = s[1]
      /\ Len(s) \in Nat \ {0} /\ Len(Tail(s)) = Len(s) - 1
      /\ \A i \in 1..Len(Tail(s)) : Tail(s)[i] = s[i + 1]
  OBVIOUS
<1>2. \A t \in Seq(S) : t = <<>> <=> Len(t) = 0
  OBVIOUS
<1>3. Tail(s) = <<>> <=> Len(Tail(s)) = 0
  BY <1>1, <1>2, Zenon
<1> QED
  BY <1>1, <1>3

-----------------------------------------------------------------------------
(* Types. *)

LEMMA SendType ==
  ASSUME TypeOK, NEW r \in Calls, SendRequest(r)
  PROVE  gps_state' \in HalStates /\ hal2mnl' \in Seq(Requests) /\ dropped' \in BOOLEAN
<1>1. r \in HalStates /\ r \in Requests
  BY DEF Calls, HalStates, Requests
<1>2. gps_state' \in HalStates /\ hal2mnl' \in Seq(Requests)
  <2>1. hal2mnl \in Seq(Requests) /\ gps_state \in HalStates
    BY DEF TypeOK
  <2>2. Append(hal2mnl, r) \in Seq(Requests)
    BY <1>1, <2>1, AppendFacts
  <2> QED
    BY <1>1, <2>1, <2>2 DEF SendRequest
<1>3. dropped' \in BOOLEAN
  BY Zenon DEF SendRequest, TypeOK
<1> QED
  BY <1>2, <1>3

LEMMA SendRebootType ==
  ASSUME TypeOK, SendReboot
  PROVE  mnl2hal' \in Seq({"REBOOT"}) /\ dropped' \in BOOLEAN
<1>1. mnl2hal' \in Seq({"REBOOT"})
  <2>1. mnl2hal \in Seq({"REBOOT"}) /\ "REBOOT" \in {"REBOOT"}
    BY DEF TypeOK
  <2>2. Append(mnl2hal, "REBOOT") \in Seq({"REBOOT"})
    BY <2>1, AppendFacts
  <2> QED
    BY <2>1, <2>2 DEF SendReboot
<1>2. dropped' \in BOOLEAN
  BY Zenon DEF SendReboot, TypeOK
<1> QED
  BY <1>1, <1>2

Places == {Idle} \cup [call : Calls, pc : {"resource", "intent", "send"}]
LEMMA Moves ==
  ASSUME fw \in Places, fw.pc # "idle", NEW p \in {"resource", "intent", "send"}
  PROVE  [fw EXCEPT !.pc = p] \in Places /\ fw.call \in Calls /\ [fw EXCEPT !.pc = p].pc = p
         /\ [fw EXCEPT !.pc = p].call = fw.call
<1>1. fw \in [call : Calls, pc : {"resource", "intent", "send"}]
  BY DEF Places, Idle
<1> QED
  BY <1>1 DEF Places

LEMMA Deaths ==
  ASSUME TypeOK, deaths < MaxDeaths, deaths' = deaths + 1
  PROVE  deaths' \in 0..MaxDeaths
BY HalAssumption DEF TypeOK

LEMMA TypeKept == TypeOK /\ [Next]_vars => TypeOK'
<1>1. SUFFICES ASSUME TypeOK, [Next]_vars PROVE TypeOK'
  OBVIOUS
<1>2. CASE UNCHANGED vars
  BY <1>1, <1>2 DEF TypeOK, vars
<1>3. ASSUME NEW c \in Calls, gpsinf_call(c) PROVE TypeOK'
  BY <1>1, <1>3 DEF TypeOK, gpsinf_call
<1>4. CASE gpshal_resource_init
  <2>1. fw' \in Places
    BY <1>1, <1>4, Moves DEF gpshal_resource_init, TypeOK, Places
  <2> QED
    BY <1>1, <1>4, <2>1 DEF gpshal_resource_init, TypeOK, Places, HalStates
<1>5. CASE gpshal_set_gps_state_intent
  <2>1. fw' \in Places /\ fw.call \in Calls
    BY <1>1, <1>5, Moves DEF gpshal_set_gps_state_intent, TypeOK, Places
  <2>2. gps_state_intent' \in HalStates \ {"RESOURCE"}
    BY <1>5, <2>1 DEF gpshal_set_gps_state_intent, Calls, HalStates
  <2> QED
    BY <1>1, <1>5, <2>1, <2>2 DEF gpshal_set_gps_state_intent, TypeOK, Places
<1>6. CASE gpshal2mnl_gps_call
  <2>1. fw.call \in Calls
    BY <1>1, <1>6, Moves DEF gpshal2mnl_gps_call, TypeOK, Places
  <2>2. gps_state' \in HalStates /\ hal2mnl' \in Seq(Requests) /\ dropped' \in BOOLEAN
    BY <1>1, <1>6, <2>1, SendType DEF gpshal2mnl_gps_call
  <2> QED
    BY <1>1, <1>6, <2>2 DEF gpshal2mnl_gps_call, TypeOK
<1>7. CASE update_mnld_reboot
  <2>1. todo' \in Seq(Calls)
    <3>1. <<>> \in Seq(Calls) /\ <<"INIT">> \in Seq(Calls) /\ <<"INIT", "START">> \in Seq(Calls)
      BY DEF Calls
    <3> QED
      BY <1>7, <3>1 DEF update_mnld_reboot, RebootRequests
  <2>2. mnl2hal' \in Seq({"REBOOT"})
    BY <1>1, <1>7, TailFacts DEF update_mnld_reboot, TypeOK
  <2> QED
    BY <1>1, <1>7, <2>1, <2>2 DEF update_mnld_reboot, TypeOK
<1>8. CASE WorkerSends
  <2>1. Head(todo) \in Calls /\ todo' \in Seq(Calls)
    BY <1>1, <1>8, TailFacts DEF WorkerSends, TypeOK
  <2>2. gps_state' \in HalStates /\ hal2mnl' \in Seq(Requests) /\ dropped' \in BOOLEAN
    BY <1>1, <1>8, <2>1, SendType DEF WorkerSends
  <2> QED
    BY <1>1, <1>8, <2>1, <2>2 DEF WorkerSends, TypeOK
<1>9. CASE MnldTakes
  <2>1. hal2mnl' \in Seq(Requests)
    BY <1>1, <1>9, TailFacts DEF MnldTakes, TypeOK
  <2>2. halUsed' \in BOOLEAN
    BY <1>1, <1>9, Zenon DEF MnldTakes, TypeOK
  <2> QED
    BY <1>1, <1>9, <2>1, <2>2, Zenon DEF MnldTakes, TypeOK
<1>10. CASE MnldRestarts
  BY <1>1, <1>10 DEF MnldRestarts, TypeOK
<1>11. CASE mnl2hal_mnld_reboot
  <2>1. mnl2hal' \in Seq({"REBOOT"}) /\ dropped' \in BOOLEAN
    BY <1>1, <1>11, SendRebootType DEF mnl2hal_mnld_reboot
  <2> QED
    BY <1>1, <1>11, <2>1 DEF mnl2hal_mnld_reboot, TypeOK
<1>12. CASE MnldTakesGpsAway
  <2>1. mnl2hal' \in Seq({"REBOOT"}) /\ dropped' \in BOOLEAN /\ deaths' \in 0..MaxDeaths
    BY <1>1, <1>12, SendRebootType, Deaths DEF MnldTakesGpsAway
  <2> QED
    BY <1>1, <1>12, <2>1, Zenon DEF MnldTakesGpsAway, TypeOK
<1>13. CASE MnldDies
  <2>1. deaths' \in 0..MaxDeaths /\ hal2mnl' \in Seq(Requests)
    BY <1>1, <1>13, Deaths DEF MnldDies
  <2> QED
    BY <1>1, <1>13, <2>1, Zenon DEF MnldDies, TypeOK
<1>14. CASE HalRestarts
  <2>1. deaths' \in 0..MaxDeaths
    BY <1>1, <1>14, Deaths DEF HalRestarts
  <2>2. hal2mnl' \in Seq(Requests)
    <3>1. "REBOOT" \in Requests /\ hal2mnl \in Seq(Requests)
      BY <1>1 DEF Requests, TypeOK
    <3>2. Append(hal2mnl, "REBOOT") \in Seq(Requests)
      BY <3>1, AppendFacts
    <3> QED
      BY <1>14, <3>1, <3>2 DEF HalRestarts
  <2>3. dropped' \in BOOLEAN
    BY <1>1, <1>14, Zenon DEF HalRestarts, TypeOK
  <2> QED
    BY <1>1, <1>14, <2>1, <2>2, <2>3 DEF HalRestarts, TypeOK, HalStates
<1> QED
  BY <1>1, <1>2, <1>3, <1>4, <1>5, <1>6, <1>7, <1>8, <1>9, <1>10, <1>11, <1>12, <1>13, <1>14
     DEF Next, Framework, Worker, Mnld

-----------------------------------------------------------------------------
(* The two threads and the two processes. *)

LEMMA ThreadsAgreeKept == TypeOK /\ ThreadsAgree /\ [Next]_vars => ThreadsAgree'
<1>1. SUFFICES ASSUME TypeOK, ThreadsAgree, [Next]_vars PROVE ThreadsAgree'
  OBVIOUS
<1>2. fw \in Places /\ workers \in Nat
  BY <1>1 DEF TypeOK, Places
<1>3. ASSUME NEW c \in Calls, gpsinf_call(c) PROVE ThreadsAgree'
  <2>1. fw.pc = "idle"
    BY <1>3 DEF gpsinf_call, Idle
  <2> QED
    BY <1>1, <1>2, <1>3, <2>1 DEF gpsinf_call, ThreadsAgree
<1>4. CASE gpshal_resource_init
  <2>1. fw'.pc = "intent"
    BY <1>2, <1>4, Moves DEF gpshal_resource_init
  <2> QED
    BY <1>1, <1>4, <2>1 DEF gpshal_resource_init, ThreadsAgree
<1>5. CASE gpshal_set_gps_state_intent
  <2>1. fw'.pc = "send" /\ fw'.call = fw.call
    BY <1>2, <1>5, Moves DEF gpshal_set_gps_state_intent
  <2> QED
    BY <1>1, <1>5, <2>1 DEF gpshal_set_gps_state_intent, ThreadsAgree
<1>6. CASE gpshal2mnl_gps_call
  <2>1. fw.call \in Calls /\ fw'.pc = "idle"
    BY <1>2, <1>6, Moves DEF gpshal2mnl_gps_call, Idle
  <2>2. gps_state_intent' # "UNKNOWN"
    BY <1>1, <1>6, <2>1 DEF gpshal2mnl_gps_call, ThreadsAgree, Calls
  <2>3. gps_state' # "UNKNOWN" => gps_state # "UNKNOWN"
    BY <1>6 DEF gpshal2mnl_gps_call, SendRequest
  <2> QED
    BY <1>1, <1>6, <2>1, <2>2, <2>3 DEF gpshal2mnl_gps_call, ThreadsAgree
<1>7. CASE WorkerSends
  <2>1. gps_state' # "UNKNOWN" => gps_state # "UNKNOWN"
    BY <1>7 DEF WorkerSends, SendRequest
  <2> QED
    BY <1>1, <1>7, <2>1 DEF WorkerSends, ThreadsAgree
<1>8. CASE \/ update_mnld_reboot \/ MnldTakes \/ MnldRestarts \/ mnl2hal_mnld_reboot
           \/ MnldTakesGpsAway \/ MnldDies \/ UNCHANGED vars
  <2>1. UNCHANGED <<gps_state_intent, gps_state, fw, workers>>
    BY <1>8, Zenon DEF update_mnld_reboot, MnldTakes, MnldRestarts, mnl2hal_mnld_reboot,
       MnldTakesGpsAway, MnldDies, vars
  <2> QED
    BY <1>1, <2>1 DEF ThreadsAgree
<1>9. CASE HalRestarts
  BY <1>9 DEF HalRestarts, ThreadsAgree, Idle
<1> QED
  BY <1>1, <1>3, <1>4, <1>5, <1>6, <1>7, <1>8, <1>9 DEF Next, Framework, Worker, Mnld

LEMMA DeadIsEmptyKept == TypeOK /\ DeadIsEmpty /\ [Next]_vars => DeadIsEmpty'
<1>1. SUFFICES ASSUME TypeOK, DeadIsEmpty, [Next]_vars, mnld' = "dead"
               PROVE  hal2mnl' = <<>> /\ ~halUsed'
  BY DEF DeadIsEmpty
<1>2. CASE \/ \E c \in Calls : gpsinf_call(c)
           \/ gpshal_resource_init \/ gpshal_set_gps_state_intent \/ update_mnld_reboot
           \/ UNCHANGED vars
  BY <1>1, <1>2 DEF DeadIsEmpty, gpsinf_call, gpshal_resource_init,
     gpshal_set_gps_state_intent,
     update_mnld_reboot, vars
<1>3. CASE gpshal2mnl_gps_call \/ WorkerSends
  BY <1>1, <1>3 DEF DeadIsEmpty, gpshal2mnl_gps_call, WorkerSends, SendRequest
<1>4. CASE MnldTakes \/ MnldRestarts \/ mnl2hal_mnld_reboot \/ MnldTakesGpsAway
  BY <1>1, <1>4, Zenon DEF MnldTakes, MnldRestarts, mnl2hal_mnld_reboot, MnldTakesGpsAway
<1>5. CASE MnldDies
  BY <1>5 DEF MnldDies
<1>6. CASE HalRestarts
  BY <1>1, <1>6 DEF DeadIsEmpty, HalRestarts
<1> QED
  BY <1>1, <1>2, <1>3, <1>4, <1>5, <1>6 DEF Next, Framework, Worker, Mnld

-----------------------------------------------------------------------------
(* A new HAL process. *)

LEMMA NewHalKept ==
  TypeOK /\ ThreadsAgree /\ DeadIsEmpty /\ NewHal /\ [Next]_vars => NewHal'
<1>1. SUFFICES ASSUME TypeOK, ThreadsAgree, DeadIsEmpty, NewHal, [Next]_vars,
                      ~dropped', gps_state_intent' = "UNKNOWN"
               PROVE  Forgotten'
  BY DEF NewHal
<1>2. hal2mnl \in Seq(Requests) /\ "REBOOT" \in Requests
  BY <1>1 DEF TypeOK, Requests
<1>3. CASE \/ \E c \in Calls : gpsinf_call(c)
           \/ gpshal_resource_init \/ MnldRestarts \/ UNCHANGED vars
  BY <1>1, <1>3 DEF NewHal, Forgotten, gpsinf_call, gpshal_resource_init, MnldRestarts, vars
<1>4. CASE gpshal_set_gps_state_intent
  <2>1. fw.call \in Calls
    BY <1>1, <1>4, Moves DEF gpshal_set_gps_state_intent, TypeOK, Places
  <2> QED
    BY <1>1, <1>4, <2>1 DEF gpshal_set_gps_state_intent, Calls
<1>5. CASE gpshal2mnl_gps_call
  <2>1. fw.call \in Calls
    BY <1>1, <1>5, Moves DEF gpshal2mnl_gps_call, TypeOK, Places
  <2> QED
    BY <1>1, <1>5, <2>1 DEF gpshal2mnl_gps_call, ThreadsAgree, Calls
<1>6. CASE update_mnld_reboot
  BY <1>1, <1>6 DEF NewHal, Forgotten, update_mnld_reboot, RebootRequests
<1>7. CASE WorkerSends
  <2>1. ~dropped
    BY <1>1, <1>7 DEF WorkerSends, SendRequest
  <2> QED
    BY <1>1, <1>7, <2>1 DEF NewHal, Forgotten, WorkerSends
<1>8. CASE MnldTakes
  <2>1. Forgotten /\ hal2mnl # <<>> /\ todo' = todo /\ hal2mnl' = Tail(hal2mnl)
    BY <1>1, <1>8 DEF NewHal, MnldTakes
  <2>2. /\ Len(hal2mnl) \in Nat \ {0} /\ Len(hal2mnl') = Len(hal2mnl) - 1
        /\ \A i \in 1..Len(hal2mnl') : hal2mnl'[i] = hal2mnl[i + 1]
        /\ Head(hal2mnl) = hal2mnl[1] /\ (hal2mnl' = <<>> <=> Len(hal2mnl) = 1)
    BY <1>2, <2>1, TailFacts
  <2>3. hal2mnl[Len(hal2mnl)] = "REBOOT"
    BY <2>1 DEF Forgotten
  <2>4. hal2mnl' = <<>> => ~halUsed'
    BY <1>8, <2>2, <2>3 DEF MnldTakes
  <2>5. hal2mnl' # <<>> => hal2mnl'[Len(hal2mnl')] = "REBOOT"
    BY <2>2, <2>3
  <2> QED
    BY <2>1, <2>4, <2>5 DEF Forgotten
<1>9. CASE mnl2hal_mnld_reboot \/ MnldTakesGpsAway
  <2>1. ~dropped
    BY <1>1, <1>9 DEF mnl2hal_mnld_reboot, MnldTakesGpsAway, SendReboot
  <2> QED
    BY <1>1, <1>9, <2>1 DEF NewHal, Forgotten, mnl2hal_mnld_reboot, MnldTakesGpsAway
<1>10. CASE MnldDies
  BY <1>1, <1>10 DEF NewHal, Forgotten, MnldDies
<1>11. CASE HalRestarts
  <2>1. CASE mnld = "dead"
    BY <1>1, <1>11, <2>1 DEF DeadIsEmpty, Forgotten, HalRestarts
  <2>2. CASE mnld # "dead"
    <3>1. hal2mnl' = Append(hal2mnl, "REBOOT") /\ todo' = <<>>
      BY <1>1, <1>11, <2>2 DEF HalRestarts
    <3>2. /\ Len(hal2mnl') = Len(hal2mnl) + 1 /\ hal2mnl'[Len(hal2mnl) + 1] = "REBOOT"
          /\ hal2mnl' # <<>>
      BY <1>2, <3>1, AppendFacts
    <3> QED
      BY <3>1, <3>2 DEF Forgotten
  <2> QED
    BY <2>1, <2>2
<1> QED
  BY <1>1, <1>3, <1>4, <1>5, <1>6, <1>7, <1>8, <1>9, <1>10, <1>11
     DEF Next, Framework, Worker, Mnld

\* The worker sends INIT and START only.
LEMMA WorkerWantsKept == TypeOK /\ WorkerWants /\ [Next]_vars => WorkerWants'
<1>1. SUFFICES ASSUME TypeOK, WorkerWants, [Next]_vars PROVE WorkerWants'
  OBVIOUS
<1>2. CASE update_mnld_reboot
  <2>1. todo' \in {<<>>, <<"INIT">>, <<"INIT", "START">>}
    BY <1>2 DEF update_mnld_reboot, RebootRequests
  <2> QED
    BY <2>1 DEF WorkerWants
<1>3. CASE WorkerSends
  <2>1. /\ Len(todo) \in Nat \ {0} /\ Len(todo') = Len(todo) - 1
        /\ \A i \in 1..Len(todo') : todo'[i] = todo[i + 1]
    BY <1>1, <1>3, TailFacts DEF WorkerSends, TypeOK
  <2> QED
    BY <1>1, <2>1 DEF WorkerWants
<1>4. CASE HalRestarts
  BY <1>4 DEF HalRestarts, WorkerWants
<1>5. CASE todo' = todo
  BY <1>1, <1>5 DEF WorkerWants
<1> QED
  BY <1>1, <1>2, <1>3, <1>4, <1>5, Zenon
     DEF Next, Framework, Worker, Mnld, gpsinf_call, gpshal_resource_init,
         gpshal_set_gps_state_intent, gpshal2mnl_gps_call, MnldTakes, MnldRestarts,
         mnl2hal_mnld_reboot, MnldTakesGpsAway, MnldDies, vars

-----------------------------------------------------------------------------
(* A wanted GPS. *)

\* A START that is sent is the last request that decides, and any other request of
\* the worker, which is INIT, decides nothing.
LEMMA AppendStarts ==
  ASSUME hal2mnl \in Seq(Requests), NEW r \in Requests, hal2mnl' = Append(hal2mnl, r),
         UNCHANGED halUsed, r = "START" \/ (StartsLast /\ r \notin Ending)
  PROVE  StartsLast'
<1>1. /\ Len(hal2mnl) \in Nat /\ Len(hal2mnl') = Len(hal2mnl) + 1
      /\ hal2mnl'[Len(hal2mnl) + 1] = r
      /\ \A i \in 1..Len(hal2mnl) : hal2mnl'[i] = hal2mnl[i]
  BY AppendFacts
<1>2. CASE r = "START"
  <2>1. Len(hal2mnl) + 1 \in 1..Len(hal2mnl') /\ hal2mnl'[Len(hal2mnl) + 1] = "START"
    BY <1>1, <1>2
  <2>2. \A j \in (Len(hal2mnl) + 2)..Len(hal2mnl') : FALSE
    BY <1>1
  <2> QED
    BY <1>1, <2>1, <2>2 DEF StartsLast, NoEndingAfter
<1>3. CASE StartsLast /\ r \notin Ending
  <2>1. ASSUME NEW i \in 0..Len(hal2mnl), NoEndingAfter(i)
        PROVE  \A j \in (i + 1)..Len(hal2mnl') : hal2mnl'[j] \notin Ending
    <3>1. ASSUME NEW j \in (i + 1)..Len(hal2mnl') PROVE hal2mnl'[j] \notin Ending
      <4>1. CASE j = Len(hal2mnl) + 1
        BY <1>1, <1>3, <4>1
      <4>2. CASE j # Len(hal2mnl) + 1
        <5>1. j \in (i + 1)..Len(hal2mnl) /\ j \in 1..Len(hal2mnl)
          BY <1>1, <4>2
        <5> QED
          BY <1>1, <2>1, <5>1 DEF NoEndingAfter
      <4> QED
        BY <4>1, <4>2
    <3> QED
      BY <3>1
  <2>2. CASE halUsed /\ NoEndingAfter(0)
    BY <1>1, <2>1, <2>2 DEF StartsLast, NoEndingAfter
  <2>3. ASSUME NEW i \in 1..Len(hal2mnl), hal2mnl[i] = "START", NoEndingAfter(i)
        PROVE  StartsLast'
    <3>1. i \in 1..Len(hal2mnl') /\ hal2mnl'[i] = "START" /\ i \in 0..Len(hal2mnl)
      BY <1>1, <2>3
    <3> QED
      BY <2>1, <2>3, <3>1 DEF StartsLast, NoEndingAfter
  <2> QED
    BY <1>3, <2>2, <2>3 DEF StartsLast
<1> QED
  BY <1>2, <1>3

\* mnld takes a request: the last one that decides is still START.
LEMMA TakeStarts ==
  ASSUME TypeOK, StartsLast, MnldTakes
  PROVE  StartsLast'
<1>1. /\ Len(hal2mnl) \in Nat \ {0} /\ Len(hal2mnl') = Len(hal2mnl) - 1
      /\ \A i \in 1..Len(hal2mnl') : hal2mnl'[i] = hal2mnl[i + 1]
      /\ Head(hal2mnl) = hal2mnl[1]
  BY TailFacts DEF MnldTakes, TypeOK
<1>2. ASSUME NEW i \in 1..Len(hal2mnl), NoEndingAfter(i)
      PROVE  \A j \in i..Len(hal2mnl') : hal2mnl'[j] \notin Ending
  BY <1>1, <1>2 DEF NoEndingAfter
<1>3. CASE halUsed /\ NoEndingAfter(0)
  <2>1. NoEndingAfter(1) /\ hal2mnl[1] \notin Ending
    BY <1>1, <1>3 DEF NoEndingAfter
  <2>2. halUsed'
    BY <1>1, <1>3, <2>1 DEF MnldTakes, Ending
  <2>3. \A j \in 1..Len(hal2mnl') : hal2mnl'[j] \notin Ending
    BY <1>1, <1>2, <2>1
  <2> QED
    BY <2>2, <2>3 DEF StartsLast, NoEndingAfter
<1>4. ASSUME NEW i \in 1..Len(hal2mnl), hal2mnl[i] = "START", NoEndingAfter(i)
      PROVE  StartsLast'
  <2>1. \A j \in i..Len(hal2mnl') : hal2mnl'[j] \notin Ending
    BY <1>2, <1>4
  <2>2. CASE i = 1
    <3>1. halUsed'
      BY <1>1, <1>4, <2>2 DEF MnldTakes
    <3> QED
      BY <2>1, <2>2, <3>1 DEF StartsLast, NoEndingAfter
  <2>3. CASE i # 1
    <3>1. i - 1 \in 1..Len(hal2mnl') /\ hal2mnl'[i - 1] = "START" /\ (i - 1) + 1 = i
      BY <1>1, <1>4, <2>3
    <3> QED
      BY <2>1, <3>1 DEF StartsLast, NoEndingAfter
  <2> QED
    BY <2>2, <2>3
<1> QED
  BY <1>3, <1>4 DEF StartsLast

LEMMA WantedAskedKept ==
  TypeOK /\ ThreadsAgree /\ WorkerWants /\ WantedAsked /\ [Next]_vars => WantedAsked'
<1>1. SUFFICES ASSUME TypeOK, ThreadsAgree, WorkerWants, WantedAsked, [Next]_vars,
                      ~dropped', gps_state' # "UNKNOWN", gps_state_intent' = "START"
               PROVE  Asked'
  BY DEF WantedAsked
<1>2. hal2mnl \in Seq(Requests) /\ "START" \in Requests
  BY <1>1 DEF TypeOK, Requests, Calls
<1>3. ASSUME NEW c \in Calls, gpsinf_call(c) PROVE Asked'
  <2>1. Asked /\ fw.pc = "idle"
    BY <1>1, <1>3 DEF WantedAsked, gpsinf_call, Idle
  <2> QED
    BY <1>3, <2>1 DEF Asked, StartsLast, NoEndingAfter, gpsinf_call
<1>4. CASE gpshal_resource_init
  BY <1>1, <1>4 DEF gpshal_resource_init, ThreadsAgree
<1>5. CASE gpshal_set_gps_state_intent
  <2>1. fw'.pc = "send"
    BY <1>1, <1>5, Moves DEF gpshal_set_gps_state_intent, TypeOK, Places
  <2> QED
    BY <2>1 DEF Asked
<1>6. CASE gpshal2mnl_gps_call
  <2>1. fw.call = "START" /\ SendRequest("START") /\ UNCHANGED <<mnld, halUsed>>
    BY <1>1, <1>6 DEF gpshal2mnl_gps_call, ThreadsAgree
  <2>2. CASE mnld = "dead"
    BY <2>1, <2>2 DEF Asked
  <2>3. CASE mnld # "dead"
    <3>1. hal2mnl' = Append(hal2mnl, "START")
      BY <1>1, <2>1, <2>3 DEF SendRequest
    <3> QED
      BY <1>2, <2>1, <3>1, AppendStarts DEF Asked
  <2> QED
    BY <2>2, <2>3
<1>7. CASE update_mnld_reboot
  <2>1. todo' = <<"INIT", "START">>
    BY <1>1, <1>7 DEF update_mnld_reboot, RebootRequests
  <2>2. 2 \in 1..Len(todo') /\ todo'[2] = "START"
    BY <2>1
  <2> QED
    BY <2>2 DEF Asked
<1>8. CASE WorkerSends
  <2>1. ~dropped /\ gps_state # "UNKNOWN" /\ Asked
    <3>1. ~dropped /\ gps_state # "UNKNOWN"
      BY <1>1, <1>8 DEF WorkerSends, SendRequest
    <3> QED
      BY <1>1, <1>8, <3>1 DEF WantedAsked, WorkerSends
  <2>2. UNCHANGED <<fw, mnl2hal, mnld, halUsed>>
    BY <1>8 DEF WorkerSends
  <2>3. SUFFICES ASSUME fw.pc # "send", mnld = "up", mnl2hal = <<>> PROVE Asked'
    BY <2>2 DEF Asked
  <2>4. /\ Len(todo) \in Nat \ {0} /\ Len(todo') = Len(todo) - 1
        /\ \A i \in 1..Len(todo') : todo'[i] = todo[i + 1]
        /\ Head(todo) = todo[1] /\ Head(todo) \in Calls
    BY <1>1, <1>8, TailFacts DEF WorkerSends, TypeOK
  <2>5. hal2mnl' = Append(hal2mnl, Head(todo)) /\ Head(todo) \in Requests
    BY <1>1, <1>8, <2>1, <2>3, <2>4 DEF WorkerSends, SendRequest, Requests
  <2>6. ASSUME NEW i \in 1..Len(todo), todo[i] = "START" PROVE Asked'
    <3>1. CASE i = 1
      BY <1>2, <2>2, <2>4, <2>5, <2>6, <3>1, AppendStarts DEF Asked
    <3>2. CASE i # 1
      <4>1. i - 1 \in 1..Len(todo') /\ todo'[i - 1] = "START"
        BY <2>4, <2>6, <3>2
      <4> QED
        BY <4>1 DEF Asked
    <3> QED
      BY <3>1, <3>2
  <2>7. CASE StartsLast
    <3>1. Head(todo) \notin Ending
      BY <1>1, <2>4 DEF WorkerWants, Ending
    <3> QED
      BY <1>2, <2>2, <2>5, <2>7, <3>1, AppendStarts DEF Asked
  <2> QED
    BY <2>1, <2>3, <2>6, <2>7 DEF Asked
<1>9. CASE MnldTakes
  <2>1. Asked
    BY <1>1, <1>9 DEF WantedAsked, MnldTakes
  <2>2. UNCHANGED <<fw, mnl2hal, mnld, todo>>
    BY <1>9 DEF MnldTakes
  <2> QED
    BY <1>1, <1>9, <2>1, <2>2, TakeStarts DEF Asked
<1>10. CASE MnldRestarts
  BY <1>10 DEF MnldRestarts, Asked
<1>11. CASE mnl2hal_mnld_reboot \/ MnldTakesGpsAway
  <2>1. workers = 1
    BY <1>1, <1>11 DEF mnl2hal_mnld_reboot, MnldTakesGpsAway, ThreadsAgree
  <2>2. mnl2hal' = Append(mnl2hal, "REBOOT")
    BY <1>1, <1>11, <2>1 DEF mnl2hal_mnld_reboot, MnldTakesGpsAway, SendReboot
  <2>3. mnl2hal \in Seq({"REBOOT"}) /\ "REBOOT" \in {"REBOOT"}
    BY <1>1 DEF TypeOK
  <2>4. mnl2hal' # <<>>
    BY <2>2, <2>3, AppendFacts
  <2> QED
    BY <2>4 DEF Asked
<1>12. CASE MnldDies
  BY <1>12 DEF MnldDies, Asked
<1>13. CASE HalRestarts
  BY <1>1, <1>13 DEF HalRestarts
<1>14. CASE UNCHANGED vars
  <2>1. Asked
    BY <1>1, <1>14 DEF WantedAsked, vars
  <2> QED
    BY <1>14, <2>1 DEF Asked, StartsLast, NoEndingAfter, vars
<1> QED
  BY <1>1, <1>3, <1>4, <1>5, <1>6, <1>7, <1>8, <1>9, <1>10, <1>11, <1>12, <1>13, <1>14
     DEF Next, Framework, Worker, Mnld

-----------------------------------------------------------------------------
(* The theorems. *)

\* The inductive invariant holds (gpsinf.c, gpshal.c, gpshal_worker.c).
THEOREM Invariance == Spec => []IInv
<1>1. Init => IInv
  <2>1. SUFFICES ASSUME Init PROVE IInv
    OBVIOUS
  <2>2. TypeOK
    <3>1. <<>> \in Seq(Calls) /\ <<"REBOOT">> \in Seq(Requests) /\ <<>> \in Seq({"REBOOT"})
      BY DEF Requests
    <3>2. halUsed \in BOOLEAN /\ dropped \in BOOLEAN
      BY <2>1, Zenon DEF Init
    <3> QED
      BY <2>1, <3>1, <3>2, HalAssumption DEF Init, TypeOK, HalStates, Idle
  <2>3. ThreadsAgree /\ DeadIsEmpty /\ NewHal /\ WantedAsked /\ WorkerWants
    BY <2>1 DEF Init, ThreadsAgree, DeadIsEmpty, NewHal, Forgotten, WantedAsked,
       WorkerWants, Idle
  <2> QED
    BY <2>2, <2>3 DEF IInv
<1>2. IInv /\ [Next]_vars => IInv'
  BY TypeKept, ThreadsAgreeKept, WorkerWantsKept, DeadIsEmptyKept, NewHalKept,
     WantedAskedKept
     DEF IInv
<1> QED
  BY <1>1, <1>2, PTL DEF Spec

\* The states, the queues and the call of the framework thread keep their types
\* (gpshal.h, gpshal.c).
THEOREM TypeCorrect == Spec => []TypeOK
<1>1. IInv => TypeOK
  BY DEF IInv
<1> QED
  BY <1>1, Invariance, PTL

\* "Init resources at most once (no retry)" (gpshal.c), however the HAL and mnld die,
\* and no request leaves a HAL without resources.
THEOREM ResourcesAtMostOnceHolds == Spec => []ResourcesAtMostOnce
<1>1. IInv => ResourcesAtMostOnce
  BY DEF IInv, ThreadsAgree, ResourcesAtMostOnce
<1> QED
  BY <1>1, Invariance, PTL

\* A new HAL process owns no session of its predecessor once its notice is taken
\* (gpshal.c, hal_reboot() in mnld.c).
THEOREM NoInheritedSessionHolds == Spec => []NoInheritedSession
<1>1. IInv => NoInheritedSession
  BY DEF IInv, NewHal, Forgotten, NoInheritedSession, Quiet
<1> QED
  BY <1>1, Invariance, PTL

\* When everything has settled, a GPS that the framework wants is in use in mnld,
\* after any number of deaths of either process (update_mnld_reboot() in
\* gpshal_worker.c).
THEOREM WantedIsAskedForHolds == Spec => []WantedIsAskedFor
<1>1. IInv => WantedIsAskedFor
  <2>1. SUFFICES ASSUME IInv, Quiet, ~dropped, gps_state # "UNKNOWN", gps_state_intent = "START"
                 PROVE  halUsed
    BY DEF WantedIsAskedFor
  <2>2. Asked
    BY <2>1 DEF IInv, WantedAsked
  <2>3. StartsLast
    BY <2>1, <2>2 DEF Asked, Quiet, Idle
  <2> QED
    BY <2>1, <2>3 DEF StartsLast, Quiet
<1> QED
  BY <1>1, Invariance, PTL
=============================================================================
