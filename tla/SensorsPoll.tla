---------------------------- MODULE SensorsPoll ----------------------------
(***************************************************************************)
(* The polling device of the sensors HAL (nusensors.cpp): the framework    *)
(* thread that waits in pollEvents() and the thread that activates and     *)
(* flushes sensors share the drivers' fields without a lock.  The drivers  *)
(* are those with an input device of their own (Acceleration.cpp and the   *)
(* like), read through an input reader, here the queue it implements       *)
(* (EventQueue).  Flushes are counted by BatchSensor.cpp on a device       *)
(* without batch driver (mdata_fd < 0).                                    *)
(***************************************************************************)
EXTENDS Integers, Sequences

CONSTANTS
  NumDrivers,   \* drivers, in the order of the scan
  N,            \* capacity of an input reader, in input events
  Count,        \* room for events that the framework passes to poll()
  Ignore,       \* IGNORE_EVENT_TIME, in reports
  PipeCap,      \* wake messages the pipe holds
  MaxReports,   \* bound: reports of one sensor
  MaxEnables,   \* bound: activations
  MaxFlushes    \* bound: flushes of one sensor

ASSUME PollConstants ==
  /\ NumDrivers \in Nat \ {0} /\ N \in Nat \ {0} /\ Count \in Nat \ {0}
  /\ Ignore \in Nat /\ PipeCap \in Nat \ {0} /\ MaxReports \in Nat

Drivers == 1..NumDrivers

VARIABLES
  mEnabled, mEnabledTime,    \* per driver; time is counted in its reports
  timestamp, complete,       \* mPendingEvent.timestamp and whether
                             \* mAllInputDataCompleteFlag is all_complete
  reader,                    \* mInputReader
  revents,                   \* mPollFds[].revents & POLLIN
  flushSensorReq, mHasPendingEvent,
  pipe,                      \* wake messages in the pipe
  kernelOn, dev, emitted,    \* the input devices: on, unread events, reports so far
  p,                         \* the thread in pollEvents()
  c,                         \* the thread in activate() or flush()
  enables,                   \* activations so far
  asked, answered,           \* history: flushes called and completed
  since,                     \* history: reports before the last activation
  last,                      \* history: the report delivered last
  raced                      \* history: a flush overlapped the reading of flushes

driverVars == <<mEnabled, mEnabledTime>>
readVars == <<timestamp, complete, reader, last>>
flushVars == <<flushSensorReq, mHasPendingEvent>>
kernelVars == <<kernelOn, dev, emitted>>
callVars == <<c, enables, asked, since>>
vars == <<driverVars, readVars, revents, flushVars, pipe, kernelVars, p, callVars, answered, raced>>

\* What a device reports: the values with their time stamp, then a SYN.
Events == {"data", "SYN"} \X (1..MaxReports)

Reader(d) == INSTANCE EventQueue WITH queue <- reader[d]

PollSteps == {"out", "scan", "flush", "load", "store", "clear", "fill", "events", "poll"}
CallSteps == {"idle", "time", "on", "off", "store", "pending", "wake"}
PollThreads ==
  [pc : PollSteps, i : 0..NumDrivers, h : 1..(NumDrivers + 1), r : Nat, count : 0..Count]
CallThreads == [pc : CallSteps, d : Drivers, r : Nat]

FieldsOK ==
  /\ mEnabled \in [Drivers -> BOOLEAN] /\ mEnabledTime \in [Drivers -> Nat]
  /\ complete \in [Drivers -> BOOLEAN] /\ revents \in [Drivers -> BOOLEAN]
  /\ flushSensorReq \in [Drivers -> Nat] /\ mHasPendingEvent \in BOOLEAN
  /\ pipe \in 0..PipeCap
  /\ kernelOn \in [Drivers -> BOOLEAN] /\ emitted \in [Drivers -> 0..MaxReports]
  /\ enables \in Nat /\ asked \in [Drivers -> Nat] /\ answered \in [Drivers -> Nat]
  /\ since \in [Drivers -> Nat] /\ raced \in BOOLEAN
QueuesOK ==
  /\ reader \in [Drivers -> Seq(Events)] /\ \A d \in Drivers : Len(reader[d]) <= N
  /\ dev \in [Drivers -> Seq(Events)]
  /\ timestamp \in [Drivers -> Nat] /\ last \in [Drivers -> Nat]
TypeOK == FieldsOK /\ QueuesOK /\ p \in PollThreads /\ c \in CallThreads

Init ==
  /\ mEnabled = [d \in Drivers |-> FALSE] /\ mEnabledTime = [d \in Drivers |-> 0]
  /\ timestamp = [d \in Drivers |-> 0] /\ complete = [d \in Drivers |-> FALSE]
  /\ reader = [d \in Drivers |-> <<>>] /\ revents = [d \in Drivers |-> FALSE]
  /\ flushSensorReq = [d \in Drivers |-> 0] /\ mHasPendingEvent = FALSE
  /\ pipe = 0
  /\ kernelOn = [d \in Drivers |-> FALSE] /\ dev = [d \in Drivers |-> <<>>]
  /\ emitted = [d \in Drivers |-> 0]
  /\ p = [pc |-> "out", i |-> 0, h |-> 1, r |-> 0, count |-> 0]
  /\ c = [pc |-> "idle", d |-> 1, r |-> 0]
  /\ enables = 0 /\ asked = [d \in Drivers |-> 0] /\ answered = [d \in Drivers |-> 0]
  /\ since = [d \in Drivers |-> 0] /\ last = [d \in Drivers |-> 0] /\ raced = FALSE

-----------------------------------------------------------------------------
(* The kernel: a device that is on reports now and then. *)
Report(d) ==
  /\ kernelOn[d] /\ emitted[d] < MaxReports
  /\ emitted' = [emitted EXCEPT ![d] = @ + 1]
  /\ dev' = [dev EXCEPT ![d] = @ \o <<<<"data", emitted[d] + 1>>, <<"SYN", emitted[d] + 1>>>>]
  /\ UNCHANGED <<driverVars, readVars, revents, flushVars, pipe, kernelOn, p, callVars, answered>>

-----------------------------------------------------------------------------
(* The calling thread. *)

\* activate(handle, 1): enable() of the driver writes mEnabled, then
\* mEnabledTime, then the device attribute; activate() wakes the poll last.
ActivateBegins(d) ==
  /\ c.pc = "idle" /\ enables < MaxEnables
  /\ enables' = enables + 1
  /\ mEnabled' = [mEnabled EXCEPT ![d] = TRUE]
  /\ since' = [since EXCEPT ![d] = emitted[d]]
  /\ c' = [c EXCEPT !.pc = "time", !.d = d]
  /\ UNCHANGED <<mEnabledTime, readVars, revents, flushVars, pipe, kernelVars, p, asked, answered>>

EnableWritesTime ==
  /\ c.pc = "time"
  /\ mEnabledTime' = [mEnabledTime EXCEPT ![c.d] = emitted[c.d] + Ignore]
  /\ c' = [c EXCEPT !.pc = "on"]
  /\ UNCHANGED <<mEnabled, readVars, revents, flushVars, pipe, kernelVars, p, enables, asked,
                 since, answered>>

EnableSwitchesDevice ==
  /\ c.pc \in {"on", "off"}
  /\ kernelOn' = [kernelOn EXCEPT ![c.d] = c.pc = "on"]
  /\ c' = [c EXCEPT !.pc = IF c.pc = "on" THEN "wake" ELSE "idle"]
  /\ UNCHANGED <<driverVars, readVars, revents, flushVars, pipe, dev, emitted, p, enables, asked,
                 since, answered>>

\* activate(handle, 0)
DeactivateBegins(d) ==
  /\ c.pc = "idle" /\ mEnabled[d]
  /\ mEnabled' = [mEnabled EXCEPT ![d] = FALSE]
  /\ c' = [c EXCEPT !.pc = "off", !.d = d]
  /\ UNCHANGED <<mEnabledTime, readVars, revents, flushVars, pipe, kernelVars, p, enables, asked,
                 since, answered>>

\* write() to the pipe, which does not block; its result is only logged.
Wakes(n) == IF n < PipeCap THEN n + 1 ELSE n
WriteWake ==
  /\ c.pc = "wake"
  /\ pipe' = Wakes(pipe)
  /\ c' = [c EXCEPT !.pc = "idle"]
  /\ UNCHANGED <<driverVars, readVars, revents, flushVars, kernelVars, p, enables, asked, since,
                 answered>>

\* flush(): flushSensorReq[handle]++ is a load and a store; then
\* mHasPendingEvent is set, and the poll is woken.
FlushLoads(d) ==
  /\ c.pc = "idle" /\ asked[d] < MaxFlushes
  /\ asked' = [asked EXCEPT ![d] = @ + 1]
  /\ c' = [pc |-> "store", d |-> d, r |-> flushSensorReq[d]]
  /\ UNCHANGED <<driverVars, readVars, revents, flushVars, pipe, kernelVars, p, enables, since,
                 answered>>

FlushStores ==
  /\ c.pc = "store"
  /\ flushSensorReq' = [flushSensorReq EXCEPT ![c.d] = c.r + 1]
  /\ c' = [c EXCEPT !.pc = "pending", !.r = 0]
  /\ UNCHANGED <<driverVars, readVars, revents, mHasPendingEvent, pipe, kernelVars, p, enables,
                 asked, since, answered>>

FlushSetsPending ==
  /\ c.pc = "pending"
  /\ mHasPendingEvent' = TRUE
  /\ c' = [c EXCEPT !.pc = "wake"]
  /\ UNCHANGED <<driverVars, readVars, revents, flushSensorReq, pipe, kernelVars, p, enables,
                 asked, since, answered>>

-----------------------------------------------------------------------------
(* The polling thread, in pollEvents(). *)
pollUnchanged == UNCHANGED <<driverVars, kernelOn, emitted, callVars>>

PollBegins ==
  /\ p.pc = "out"
  /\ p' = [pc |-> "scan", i |-> 0, h |-> 1, r |-> 0, count |-> Count]
  /\ UNCHANGED <<readVars, revents, flushVars, pipe, dev, answered>> /\ pollUnchanged

\* for (i = 0; count && i < numSensorDrivers; i++), from driver i on: the next
\* driver with events is read, a call that has filled its array returns, and any
\* other goes on to poll().
ScanFrom(i, rev) ==
  \/ p.count = 0 /\ p' = [p EXCEPT !.pc = "out", !.i = 0, !.h = 1]
  \/ /\ p.count > 0 /\ \A d \in i..NumDrivers : ~rev[d]
     /\ p' = [p EXCEPT !.pc = "poll", !.i = 0, !.h = 1]
  \/ \E d \in i..NumDrivers :
       /\ p.count > 0 /\ rev[d] /\ \A e \in i..(d - 1) : ~rev[e]
       /\ p' = [p EXCEPT !.pc = "fill", !.i = d, !.h = 1]

\* The scan begins with BatchSensor, which is number 0 and has no device.
Scan ==
  /\ p.pc = "scan"
  /\ IF mHasPendingEvent THEN p' = [p EXCEPT !.pc = "flush", !.h = 1] ELSE ScanFrom(1, revents)
  /\ UNCHANGED <<readVars, revents, flushVars, pipe, dev, answered>> /\ pollUnchanged

\* BatchSensor::readEvents(): one completion for each request, handle by handle.
FlushCompletes ==
  /\ p.pc = "flush" /\ p.count > 0 /\ p.h \in Drivers /\ flushSensorReq[p.h] > 0
  /\ answered' = [answered EXCEPT ![p.h] = @ + 1]
  /\ p' = [p EXCEPT !.pc = "load", !.count = @ - 1]
  /\ UNCHANGED <<readVars, revents, flushVars, pipe, dev>> /\ pollUnchanged

\* flushSensorReq[handle]-- is a load and a store, too.
FlushCountLoads ==
  /\ p.pc = "load"
  /\ p' = [p EXCEPT !.pc = "store", !.r = flushSensorReq[p.h]]
  /\ UNCHANGED <<readVars, revents, flushVars, pipe, dev, answered>> /\ pollUnchanged

Decremented_Not(r) == r
Decremented(r) == r - 1
FlushCountStores ==
  /\ p.pc = "store"
  /\ flushSensorReq' = [flushSensorReq EXCEPT ![p.h] = Decremented(p.r)]
  /\ p' = [p EXCEPT !.pc = "flush", !.r = 0]
  /\ UNCHANGED <<readVars, revents, mHasPendingEvent, pipe, dev, answered>> /\ pollUnchanged

\* The loop ends behind the last handle or when the array is full.
FlushLoopGoesOn ==
  /\ p.pc = "flush" /\ p.count > 0 /\ p.h \in Drivers /\ flushSensorReq[p.h] = 0
  /\ p' = [p EXCEPT !.h = @ + 1]
  /\ UNCHANGED <<readVars, revents, flushVars, pipe, dev, answered>> /\ pollUnchanged

\* mHasPendingEvent is cleared if the last handle was reached and has no request.
AllServed_Always == TRUE
AllServed == p.h >= NumDrivers /\ flushSensorReq[NumDrivers] = 0
FlushLoopEnds ==
  /\ p.pc = "flush" /\ (p.count = 0 \/ p.h \notin Drivers)
  /\ IF AllServed THEN p' = [p EXCEPT !.pc = "clear", !.h = 1] ELSE ScanFrom(1, revents)
  /\ UNCHANGED <<readVars, revents, flushVars, pipe, dev, answered>> /\ pollUnchanged

FlushClearsPending ==
  /\ p.pc = "clear"
  /\ mHasPendingEvent' = FALSE
  /\ ScanFrom(1, revents)
  /\ UNCHANGED <<readVars, revents, flushSensorReq, pipe, dev, answered>> /\ pollUnchanged

\* readEvents() of a driver begins with fill(), whose read() blocks while the
\* device has nothing.
Unread_Discarded(q, k) == <<>>
Unread(q, k) == SubSeq(q, k + 1, Len(q))
Fill(d) ==
  LET room == N - Len(reader[d])
      k == IF Len(dev[d]) < room THEN Len(dev[d]) ELSE room
  IN /\ p.pc = "fill" /\ p.i = d
     /\ IF Len(reader[d]) < N
        THEN /\ dev[d] # <<>>
             /\ reader' = [reader EXCEPT ![d] = @ \o SubSeq(dev[d], 1, k)]
             /\ Reader(d)!Put(SubSeq(dev[d], 1, k))
             /\ dev' = [dev EXCEPT ![d] = Unread(@, k)]
        ELSE UNCHANGED <<reader, dev>>
     /\ p' = [p EXCEPT !.pc = "events"]
     /\ UNCHANGED <<timestamp, complete, last, revents, flushVars, pipe, answered>>
     /\ pollUnchanged

\* A SYN delivers the report it ends if the driver is enabled and the report is
\* younger than mEnabledTime.
Delivers_Untimed(d) == mEnabled[d] /\ emitted[d] >= mEnabledTime[d] /\ complete[d]
Delivers(d) ==
  /\ mEnabled[d] /\ emitted[d] >= mEnabledTime[d]
  /\ complete[d] /\ timestamp[d] > mEnabledTime[d]
TakeEvent(d) ==
  LET e == Head(reader[d])
      tested == e[1] = "SYN" /\ mEnabled[d] /\ emitted[d] >= mEnabledTime[d]
      delivers == e[1] = "SYN" /\ Delivers(d)
  IN /\ p.pc = "events" /\ p.i = d /\ p.count > 0 /\ reader[d] # <<>>
     /\ reader' = [reader EXCEPT ![d] = Tail(@)] /\ Reader(d)!Get
     /\ timestamp' = [timestamp EXCEPT ![d] = IF e[1] = "data" THEN e[2]
                                              ELSE IF delivers THEN 0 ELSE @]
     /\ complete' = [complete EXCEPT ![d] = e[1] = "data" \/ (@ /\ ~tested)]
     /\ last' = [last EXCEPT ![d] = IF delivers THEN timestamp[d] ELSE @]
     /\ p' = [p EXCEPT !.count = IF delivers THEN @ - 1 ELSE @]
     /\ UNCHANGED <<revents, flushVars, pipe, dev, answered>> /\ pollUnchanged

\* revents is cleared only when the driver has not filled the array.
ReventsLeft(d) == revents[d] /\ p.count = 0
EventsEnd ==
  /\ p.pc = "events" /\ (p.count = 0 \/ reader[p.i] = <<>>)
  /\ revents' = [revents EXCEPT ![p.i] = ReventsLeft(p.i)]
  /\ ScanFrom(p.i + 1, revents')
  /\ UNCHANGED <<readVars, flushVars, pipe, dev, answered>> /\ pollUnchanged

\* poll() waits unless there is something to return already.  A wake message is
\* read one at a time.
Ready == pipe > 0 \/ \E d \in Drivers : dev[d] # <<>>
Waits == p.count = Count
Poll ==
  /\ p.pc = "poll" /\ (Waits => Ready)
  /\ revents' = [d \in Drivers |-> dev[d] # <<>>]
  /\ pipe' = IF pipe > 0 THEN pipe - 1 ELSE pipe
  /\ p' = [p EXCEPT !.pc = IF Ready THEN "scan" ELSE "out"]
  /\ UNCHANGED <<readVars, flushVars, dev, answered>> /\ pollUnchanged

-----------------------------------------------------------------------------
PollThread ==
  \/ PollBegins \/ Scan \/ FlushCompletes \/ FlushCountLoads \/ FlushCountStores
  \/ FlushLoopGoesOn \/ FlushLoopEnds \/ FlushClearsPending \/ EventsEnd \/ Poll
  \/ \E d \in Drivers : Fill(d) \/ TakeEvent(d)

CallGoesOn ==
  EnableWritesTime \/ EnableSwitchesDevice \/ WriteWake \/ FlushStores \/ FlushSetsPending

CallBegins == \E d \in Drivers : ActivateBegins(d) \/ DeactivateBegins(d) \/ FlushLoads(d)

\* A flush() overlaps BatchSensor::readEvents().
Overlap == c.pc \in {"store", "pending"} /\ p.pc \in {"flush", "load", "store", "clear"}

Next ==
  /\ PollThread \/ CallGoesOn \/ CallBegins \/ \E d \in Drivers : Report(d)
  /\ raced' = (raced \/ Overlap')

Spec == Init /\ [][Next]_vars

-----------------------------------------------------------------------------
(* Properties. *)

\* A flush is completed at most once (BatchSensor.cpp:335), unless flush() came
\* in while readEvents() was counting: neither the count nor the flag is locked.
FlushedOnce == raced \/ \A d \in Drivers : answered[d] <= asked[d]

\* poll() never waits (nusensors.cpp:599) while the HAL has something to return:
\* no report is left in a reader, and a flush that is not completed is still
\* being called, so that its wake message is to come.
NoLostWakeup ==
  (p.pc = "poll" /\ Waits /\ ~Ready) =>
    /\ \A d \in Drivers : reader[d] = <<>>
    /\ \A d \in Drivers :
         raced \/ answered[d] = asked[d] \/ (c.d = d /\ c.pc \in {"store", "pending", "wake"})

\* Once activate() has returned, no report from before the call is delivered,
\* whatever was left in the device and in the reader (Acceleration.cpp:208, 325).
NoStaleReports ==
  [][\A d \in Drivers : last'[d] # last[d] =>
       last'[d] > since[d] \/ (c.pc = "time" /\ c.d = d)]_vars

\* A report that an enabled sensor owes the framework was delivered or is still
\* in the device or in the reader: it is lost neither where a read ends nor
\* where the array of the framework is full (nusensors.cpp:570).
NothingLost ==
  \A d \in Drivers : mEnabled[d] /\ ~(c.pc = "time" /\ c.d = d) =>
    \A k \in (mEnabledTime[d] + 1)..emitted[d] :
      k <= last[d] \/ \E q \in {dev[d], reader[d]} : \E i \in 1..Len(q) : q[i] = <<"SYN", k>>
=============================================================================
