------------------------- MODULE SensorsPollProofs -------------------------
(***************************************************************************)
(* Theorems about SensorsPoll, for any number of drivers, any capacities   *)
(* and any number of reports, activations and flushes.                     *)
(***************************************************************************)
EXTENDS SensorsPoll, TLAPS

-----------------------------------------------------------------------------
(* Inductive invariants. *)

\* The driver and the handle the polling thread is at, and the request it has
\* just completed, which flush() can only add to.
AtDriver ==
  /\ p.pc \in {"fill", "events"} => p.i \in Drivers
  /\ p.pc \in {"load", "store"} => p.h \in Drivers
  /\ p.pc = "load" => flushSensorReq[p.h] > 0
  /\ p.pc = "store" => p.r > 0

\* A flush that readEvents() has completed and not yet counted down.
Completing(d) == IF p.pc \in {"load", "store"} /\ p.h = d THEN 1 ELSE 0
\* A flush that flush() has not yet counted up.
Calling(d) == IF c.pc = "store" /\ c.d = d THEN 1 ELSE 0

\* Without an overlap the counts add up, both threads hold the count they
\* loaded, and the handles behind the one being read have no request left.
CountsRight ==
  /\ \A d \in Drivers : answered[d] + flushSensorReq[d] + Calling(d) = asked[d] + Completing(d)
  /\ p.pc \in {"load", "store"} => flushSensorReq[p.h] > 0
  /\ p.pc = "store" => p.r = flushSensorReq[p.h]
  /\ c.pc = "store" => c.r = flushSensorReq[c.d]
  /\ p.pc \in {"flush", "load", "store"} =>
       \A d \in Drivers : d < p.h => flushSensorReq[d] = 0
  /\ p.pc = "clear" => \A d \in Drivers : flushSensorReq[d] = 0
  /\ \A d \in Drivers :
       flushSensorReq[d] > 0 => mHasPendingEvent \/ (c.pc = "pending" /\ c.d = d)
CountsAddUp == (Overlap => raced) /\ (~raced => CountsRight)

\* A flush that is counted is seen before the thread waits, or wakes it.
PendingSeen ==
  ~raced => \A d \in Drivers : flushSensorReq[d] > 0 =>
    \/ pipe > 0 \/ (c.pc \in {"pending", "wake"} /\ c.d = d) \/ p.count < Count
    \/ p.pc \in {"out", "scan", "flush", "load", "store", "clear"}

\* Events left in a reader are marked by revents until the driver is read.
LeftoverMarked ==
  /\ \A d \in Drivers :
       reader[d] # <<>> => revents[d] \/ (p.pc = "events" /\ p.i = d)
  /\ p.pc \in {"fill", "events"} => revents[p.i] /\ \A d \in Drivers : d < p.i => ~revents[d]
  /\ p.pc = "poll" => \A d \in Drivers : ~revents[d]

\* mEnabledTime is that of the last activation, outside of enable().
EnabledSince ==
  \A d \in Drivers :
    since[d] <= emitted[d] /\ (since[d] <= mEnabledTime[d] \/ (c.pc = "time" /\ c.d = d))

IInv == TypeOK /\ AtDriver /\ CountsAddUp /\ PendingSeen /\ LeftoverMarked /\ EnabledSince

-----------------------------------------------------------------------------
(* Types. *)
LEMMA ConstantTypes ==
  /\ NumDrivers \in Nat \ {0} /\ N \in Nat \ {0} /\ Count \in Nat \ {0} /\ Ignore \in Nat
  /\ PipeCap \in Nat \ {0} /\ MaxReports \in Nat /\ Drivers = 1..NumDrivers
BY PollConstants DEF Drivers

LEMMA Ranges == 0 \in 0..NumDrivers /\ 1 \in 1..(NumDrivers + 1)
BY ConstantTypes, SMTT(30)

LEMMA ScanType ==
  ASSUME p \in PollThreads
  PROVE  \A rev \in [Drivers -> BOOLEAN] : \A i \in Nat \ {0} : ScanFrom(i, rev) =>
           /\ p' \in PollThreads
           /\ p'.pc \in {"out", "poll", "fill"} /\ p'.count = p.count /\ p'.h = 1
           /\ p'.pc = "out" => p.count = 0
           /\ p'.pc = "poll" => p.count > 0 /\ \A d \in Drivers : d >= i => ~rev[d]
           /\ p'.pc = "fill" => /\ p'.i \in Drivers /\ p'.i >= i /\ rev[p'.i] /\ p.count > 0
                               /\ \A d \in Drivers : i <= d /\ d < p'.i => ~rev[d]
<1> SUFFICES ASSUME NEW rev \in [Drivers -> BOOLEAN], NEW i \in Nat \ {0}, ScanFrom(i, rev)
    PROVE
           /\ p' \in PollThreads
           /\ p'.pc \in {"out", "poll", "fill"} /\ p'.count = p.count /\ p'.h = 1
           /\ p'.pc = "out" => p.count = 0
           /\ p'.pc = "poll" => p.count > 0 /\ \A d \in Drivers : d >= i => ~rev[d]
           /\ p'.pc = "fill" => /\ p'.i \in Drivers /\ p'.i >= i /\ rev[p'.i] /\ p.count > 0
                               /\ \A d \in Drivers : i <= d /\ d < p'.i => ~rev[d]
  OBVIOUS
<1>1. CASE p.count = 0 /\ p' = [p EXCEPT !.pc = "out", !.i = 0, !.h = 1]
  BY <1>1, Ranges, Zenon DEF PollThreads, PollSteps
<1>2. CASE /\ p.count > 0 /\ \A d \in i..NumDrivers : ~rev[d]
           /\ p' = [p EXCEPT !.pc = "poll", !.i = 0, !.h = 1]
  <2>1. \A d \in Drivers : d >= i => ~rev[d]
    BY <1>2, ConstantTypes
  <2>2. QED
    BY <1>2, <2>1, Ranges, Zenon DEF PollThreads, PollSteps
<1>3. ASSUME NEW f \in i..NumDrivers, p.count > 0, rev[f], \A e \in i..(f - 1) : ~rev[e],
             p' = [p EXCEPT !.pc = "fill", !.i = f, !.h = 1]
      PROVE
           /\ p' \in PollThreads
           /\ p'.pc \in {"out", "poll", "fill"} /\ p'.count = p.count /\ p'.h = 1
           /\ p'.pc = "out" => p.count = 0
           /\ p'.pc = "poll" => p.count > 0 /\ \A d \in Drivers : d >= i => ~rev[d]
           /\ p'.pc = "fill" => /\ p'.i \in Drivers /\ p'.i >= i /\ rev[p'.i] /\ p.count > 0
                               /\ \A d \in Drivers : i <= d /\ d < p'.i => ~rev[d]
  <2>1. f \in 0..NumDrivers /\ f \in Drivers /\ f >= i
    BY <1>3, ConstantTypes
  <2>2. \A e \in Drivers : i <= e /\ e < f => ~rev[e]
    BY <1>3, ConstantTypes
  <2>3. QED
    BY <1>3, <2>1, <2>2, Ranges, Zenon DEF PollThreads, PollSteps
<1>4. QED
  BY <1>1, <1>2, <1>3, Zenon DEF ScanFrom
LEMMA TypeStep == TypeOK /\ AtDriver /\ [Next]_vars => TypeOK' /\ AtDriver'
<1> SUFFICES ASSUME FieldsOK, QueuesOK, p \in PollThreads, c \in CallThreads, AtDriver, [Next]_vars
    PROVE  TypeOK' /\ AtDriver'
  BY Zenon DEF TypeOK
<1> USE DEF driverVars, readVars, flushVars, kernelVars, callVars, pollUnchanged
<1> raced' \in BOOLEAN
  BY Zenon DEF Next, Overlap, FieldsOK, vars
<1>1. CASE EnableWritesTime
  <2>1. mEnabledTime' \in [Drivers -> Nat]
    BY <1>1, ConstantTypes, SMTT(30) DEF EnableWritesTime, FieldsOK, CallThreads
  <2>2. FieldsOK'
    BY <1>1, <2>1 DEF EnableWritesTime, FieldsOK
  <2>3. QueuesOK'
    BY <1>1 DEF EnableWritesTime, QueuesOK
  <2>4. p' \in PollThreads /\ c' \in CallThreads /\ AtDriver'
    BY <1>1, <2>2, ConstantTypes, Ranges, Zenon
    DEF EnableWritesTime, FieldsOK, PollThreads, PollSteps, CallThreads, CallSteps, AtDriver
  <2>5. QED
    BY <2>2, <2>3, <2>4 DEF TypeOK
<1>2. CASE EnableSwitchesDevice
  <2>1. FieldsOK'
    BY <1>2, Zenon DEF EnableSwitchesDevice, FieldsOK
  <2>2. QueuesOK'
    BY <1>2 DEF EnableSwitchesDevice, QueuesOK
  <2>3. p' \in PollThreads /\ c' \in CallThreads /\ AtDriver'
    BY <1>2, <2>1, ConstantTypes, Ranges, Zenon
    DEF EnableSwitchesDevice, FieldsOK, PollThreads, PollSteps, CallThreads, CallSteps,
       AtDriver
  <2>4. QED
    BY <2>1, <2>2, <2>3 DEF TypeOK
<1>3. CASE WriteWake
  <2>1. pipe' \in 0..PipeCap
    BY <1>3, ConstantTypes DEF WriteWake, Wakes, FieldsOK
  <2>2. FieldsOK'
    BY <1>3, <2>1 DEF WriteWake, FieldsOK
  <2>3. QueuesOK'
    BY <1>3 DEF WriteWake, QueuesOK
  <2>4. p' \in PollThreads /\ c' \in CallThreads /\ AtDriver'
    BY <1>3, <2>2, ConstantTypes, Ranges, Zenon
    DEF WriteWake, Wakes, FieldsOK, PollThreads, PollSteps, CallThreads, CallSteps, AtDriver
  <2>5. QED
    BY <2>2, <2>3, <2>4 DEF TypeOK
<1>4. CASE FlushStores
  <2>1. flushSensorReq' \in [Drivers -> Nat]
    <3>1. c.r + 1 \in Nat
      BY DEF CallThreads
    <3>2. flushSensorReq \in [Drivers -> Nat]
      BY DEF FieldsOK
    <3>3. QED
      BY <1>4, <3>1, <3>2, Zenon DEF FlushStores
  <2>2. FieldsOK'
    BY <1>4, <2>1 DEF FlushStores, FieldsOK
  <2>3. QueuesOK'
    BY <1>4 DEF FlushStores, QueuesOK
  <2>4. c' \in CallThreads
    BY <1>4, Zenon DEF FlushStores, CallThreads, CallSteps
  <2>5. p' \in PollThreads
    BY <1>4, ConstantTypes, Ranges DEF FlushStores, PollThreads, PollSteps
  <2>6. AtDriver'
    BY <1>4, <2>2, <2>5 DEF FlushStores, AtDriver, PollThreads, CallThreads, FieldsOK
  <2>7. QED
    BY <2>2, <2>3, <2>4, <2>5, <2>6 DEF TypeOK
<1>5. CASE FlushSetsPending
  <2>1. FieldsOK'
    BY <1>5 DEF FlushSetsPending, FieldsOK
  <2>2. QueuesOK'
    BY <1>5 DEF FlushSetsPending, QueuesOK
  <2>3. p' \in PollThreads /\ c' \in CallThreads /\ AtDriver'
    BY <1>5, <2>1, ConstantTypes, Ranges, Zenon
    DEF FlushSetsPending, FieldsOK, PollThreads, PollSteps, CallThreads, CallSteps, AtDriver
  <2>4. QED
    BY <2>1, <2>2, <2>3 DEF TypeOK
<1>6. CASE PollBegins
  <2>1. FieldsOK'
    BY <1>6 DEF PollBegins, FieldsOK
  <2>2. QueuesOK'
    BY <1>6 DEF PollBegins, QueuesOK
  <2>3. p' \in PollThreads /\ c' \in CallThreads /\ AtDriver'
    BY <1>6, <2>1, ConstantTypes, Ranges
    DEF PollBegins, FieldsOK, PollThreads, PollSteps, CallThreads, CallSteps, AtDriver
  <2>4. QED
    BY <2>1, <2>2, <2>3 DEF TypeOK
<1>7. CASE Scan
  <2>1. FieldsOK'
    BY <1>7 DEF Scan, FieldsOK
  <2>2. QueuesOK'
    BY <1>7 DEF Scan, QueuesOK
  <2>3. revents \in [Drivers -> BOOLEAN] /\ 1 \in Nat \ {0}
    BY <2>1 DEF FieldsOK, PollThreads
  <2>4. ScanFrom(1, revents) =>
          p' \in PollThreads /\ p'.pc \in {"out", "poll", "fill"}
          /\ (p'.pc = "fill" => p'.i \in Drivers)
    BY <2>3, ScanType
  <2>5. c' \in CallThreads
    BY <1>7 DEF Scan, CallThreads, CallSteps
  <2>6. p' \in PollThreads
    BY <1>7, ConstantTypes, Ranges, <2>4, Zenon DEF Scan, PollThreads, PollSteps
  <2>7. AtDriver'
    BY <1>7, <2>1, <2>6, <2>4, ZenonT(30) DEF Scan, AtDriver, PollThreads, CallThreads,
       FieldsOK
  <2>8. QED
    BY <2>1, <2>2, <2>5, <2>6, <2>7 DEF TypeOK
<1>8. CASE FlushCompletes
  <2>0. p.h \in Drivers /\ answered' = [answered EXCEPT ![p.h] = @ + 1]
    BY <1>8 DEF FlushCompletes
  <2>1. answered \in [Drivers -> Nat]
    BY DEF FieldsOK
  <2>2. answered' \in [Drivers -> Nat]
    BY <2>0, <2>1
  <2>3. FieldsOK'
    BY <1>8, <2>1, <2>2 DEF FlushCompletes, FieldsOK
  <2>4. QueuesOK'
    BY <1>8 DEF FlushCompletes, QueuesOK
  <2>5. c' \in CallThreads
    BY <1>8 DEF FlushCompletes, CallThreads, CallSteps
  <2>6. p' \in PollThreads
    <3>1. p.count \in 0..Count /\ p.count > 0 /\ p' = [p EXCEPT !.pc = "load", !.count = @ - 1]
      BY <1>8 DEF FlushCompletes, PollThreads
    <3>2. p.count - 1 \in 0..Count
      BY <3>1, ConstantTypes
    <3>3. QED
      BY <3>1, <3>2, Zenon DEF PollThreads, PollSteps
  <2>7. AtDriver'
    BY <1>8, <2>3, <2>6 DEF FlushCompletes, AtDriver, PollThreads, CallThreads, FieldsOK
  <2>8. QED
    BY <2>3, <2>4, <2>5, <2>6, <2>7 DEF TypeOK
<1>9. CASE FlushCountLoads
  <2>1. FieldsOK'
    BY <1>9 DEF FlushCountLoads, FieldsOK
  <2>2. QueuesOK'
    BY <1>9 DEF FlushCountLoads, QueuesOK
  <2>3. p' \in PollThreads /\ c' \in CallThreads /\ AtDriver'
    BY <1>9, <2>1, ConstantTypes, Ranges, Zenon
    DEF FlushCountLoads, FieldsOK, PollThreads, PollSteps, CallThreads, CallSteps, AtDriver
  <2>4. QED
    BY <2>1, <2>2, <2>3 DEF TypeOK
<1>10. CASE FlushCountStores
  <2>1. p.h \in Drivers /\ p.r - 1 \in Nat
    <3>1. p.pc = "store" /\ p.r \in Nat
      BY <1>10 DEF FlushCountStores, PollThreads
    <3>2. QED
      BY <3>1 DEF AtDriver
  <2>2. flushSensorReq' \in [Drivers -> Nat]
    BY <1>10, <2>1 DEF FlushCountStores, Decremented, FieldsOK
  <2>3. FieldsOK'
    BY <1>10, <2>1, <2>2 DEF FlushCountStores, FieldsOK
  <2>4. QueuesOK'
    BY <1>10 DEF FlushCountStores, QueuesOK
  <2>5. p' \in PollThreads /\ c' \in CallThreads /\ AtDriver'
    BY <1>10, <2>3, ConstantTypes, Ranges, Zenon
    DEF FlushCountStores, Decremented, FieldsOK, PollThreads, PollSteps, CallThreads,
       CallSteps, AtDriver
  <2>6. QED
    BY <2>3, <2>4, <2>5 DEF TypeOK
<1>11. CASE FlushLoopGoesOn
  <2>1. FieldsOK'
    BY <1>11 DEF FlushLoopGoesOn, FieldsOK
  <2>2. QueuesOK'
    BY <1>11 DEF FlushLoopGoesOn, QueuesOK
  <2>3. c' \in CallThreads
    BY <1>11 DEF FlushLoopGoesOn, CallThreads, CallSteps
  <2>4. p' \in PollThreads
    BY <1>11, ConstantTypes, Ranges, SMTT(30) DEF FlushLoopGoesOn, PollThreads, PollSteps
  <2>5. AtDriver'
    BY <1>11, <2>1, <2>4 DEF FlushLoopGoesOn, AtDriver, PollThreads, CallThreads, FieldsOK
  <2>6. QED
    BY <2>1, <2>2, <2>3, <2>4, <2>5 DEF TypeOK
<1>12. CASE FlushLoopEnds
  <2>1. FieldsOK'
    BY <1>12 DEF FlushLoopEnds, FieldsOK
  <2>2. QueuesOK'
    BY <1>12 DEF FlushLoopEnds, QueuesOK
  <2>3. revents \in [Drivers -> BOOLEAN] /\ 1 \in Nat \ {0}
    BY <2>1 DEF FieldsOK, PollThreads
  <2>4. ScanFrom(1, revents) =>
          p' \in PollThreads /\ p'.pc \in {"out", "poll", "fill"}
          /\ (p'.pc = "fill" => p'.i \in Drivers)
    BY <2>3, ScanType
  <2>5. c' \in CallThreads
    BY <1>12 DEF FlushLoopEnds, CallThreads, CallSteps
  <2>6. p' \in PollThreads
    BY <1>12, ConstantTypes, Ranges, <2>4, Zenon DEF FlushLoopEnds, AllServed, PollThreads,
       PollSteps
  <2>7. AtDriver'
    <3>1. p'.pc \in {"clear", "out", "poll", "fill"} /\ (p'.pc = "fill" => p'.i \in Drivers)
      BY <1>12, <2>4, Zenon DEF FlushLoopEnds, PollThreads
    <3>2. QED
      BY <3>1 DEF AtDriver
  <2>8. QED
    BY <2>1, <2>2, <2>5, <2>6, <2>7 DEF TypeOK
<1>13. CASE FlushClearsPending
  <2>1. FieldsOK'
    BY <1>13, Zenon DEF FlushClearsPending, FieldsOK
  <2>2. QueuesOK'
    BY <1>13 DEF FlushClearsPending, QueuesOK
  <2>3. revents \in [Drivers -> BOOLEAN] /\ 1 \in Nat \ {0}
    BY <2>1 DEF FieldsOK, PollThreads
  <2>4. ScanFrom(1, revents) =>
          p' \in PollThreads /\ p'.pc \in {"out", "poll", "fill"}
          /\ (p'.pc = "fill" => p'.i \in Drivers)
    BY <2>3, ScanType
  <2>5. p' \in PollThreads /\ c' \in CallThreads /\ AtDriver'
    BY <1>13, <2>1, ConstantTypes, Ranges, <2>4, Zenon
    DEF FlushClearsPending, FieldsOK, PollThreads, PollSteps, CallThreads, CallSteps,
       AtDriver
  <2>6. QED
    BY <2>1, <2>2, <2>5 DEF TypeOK
<1>14. CASE EventsEnd
  <2>1. FieldsOK'
    BY <1>14 DEF EventsEnd, FieldsOK, ReventsLeft, AtDriver
  <2>2. QueuesOK'
    BY <1>14 DEF EventsEnd, QueuesOK
  <2>3. revents' \in [Drivers -> BOOLEAN] /\ p.i + 1 \in Nat \ {0}
    BY <2>1 DEF FieldsOK, PollThreads
  <2>4. ScanFrom(p.i + 1, revents') =>
          p' \in PollThreads /\ p'.pc \in {"out", "poll", "fill"}
          /\ (p'.pc = "fill" => p'.i \in Drivers)
    BY <2>3, ScanType
  <2>5. p' \in PollThreads /\ c' \in CallThreads /\ AtDriver'
    BY <1>14, <2>1, ConstantTypes, Ranges, <2>4, Zenon
    DEF EventsEnd, ReventsLeft, FieldsOK, PollThreads, PollSteps, CallThreads, CallSteps,
       AtDriver
  <2>6. QED
    BY <2>1, <2>2, <2>5 DEF TypeOK
<1>15. CASE Poll
  <2>1. pipe' \in 0..PipeCap
    BY <1>15, ConstantTypes DEF Poll, FieldsOK
  <2>2. revents' \in [Drivers -> BOOLEAN]
    BY <1>15, ConstantTypes, <2>1 DEF Poll, FieldsOK
  <2>3. FieldsOK'
    BY <1>15, <2>1, <2>2 DEF Poll, FieldsOK
  <2>4. QueuesOK'
    BY <1>15 DEF Poll, QueuesOK
  <2>5. p' \in PollThreads /\ c' \in CallThreads /\ AtDriver'
    BY <1>15, <2>3, ConstantTypes, Ranges, Zenon
    DEF Poll, FieldsOK, PollThreads, PollSteps, CallThreads, CallSteps, AtDriver
  <2>6. QED
    BY <2>3, <2>4, <2>5 DEF TypeOK
<1>16. ASSUME NEW d \in Drivers, Report(d) PROVE TypeOK' /\ AtDriver'
  <2>0. emitted \in [Drivers -> 0..MaxReports]
    BY DEF FieldsOK
  <2>1. emitted[d] + 1 \in 0..MaxReports /\ emitted[d] + 1 \in 1..MaxReports
    BY <1>16, <2>0, ConstantTypes DEF Report
  <2>2. emitted' \in [Drivers -> 0..MaxReports]
    BY <1>16, <2>0, <2>1 DEF Report
  <2>3. FieldsOK'
    BY Zenon, <1>16, <2>1, <2>2 DEF Report, FieldsOK
  <2>4. QueuesOK'
    <3>1. <<<<"data", emitted[d] + 1>>, <<"SYN", emitted[d] + 1>>>> \in Seq(Events)
      BY <2>1 DEF Events
    <3>2. dev' \in [Drivers -> Seq(Events)]
      BY <1>16, <3>1 DEF Report, QueuesOK
    <3>3. QED
      BY <1>16, <3>2 DEF Report, QueuesOK
  <2>5. p' \in PollThreads /\ c' \in CallThreads /\ AtDriver'
    BY <1>16, <2>3, ConstantTypes, Ranges, Zenon
    DEF Report, FieldsOK, PollThreads, PollSteps, CallThreads, CallSteps, AtDriver
  <2>6. QED
    BY <2>3, <2>4, <2>5 DEF TypeOK
<1>17. ASSUME NEW d \in Drivers, ActivateBegins(d) PROVE TypeOK' /\ AtDriver'
  <2>1. enables' \in Nat /\ mEnabled' \in [Drivers -> BOOLEAN]
    BY <1>17, ConstantTypes, SMTT(30) DEF ActivateBegins, FieldsOK
  <2>2. since' \in [Drivers -> Nat]
    BY <1>17, ConstantTypes, <2>1 DEF ActivateBegins, FieldsOK
  <2>3. FieldsOK'
    BY <1>17, <2>1, <2>2 DEF ActivateBegins, FieldsOK
  <2>4. QueuesOK'
    BY <1>17 DEF ActivateBegins, QueuesOK
  <2>5. p' \in PollThreads /\ c' \in CallThreads /\ AtDriver'
    BY <1>17, <2>3, ConstantTypes, Ranges, Zenon
    DEF ActivateBegins, FieldsOK, PollThreads, PollSteps, CallThreads, CallSteps, AtDriver
  <2>6. QED
    BY <2>3, <2>4, <2>5 DEF TypeOK
<1>18. ASSUME NEW d \in Drivers, DeactivateBegins(d) PROVE TypeOK' /\ AtDriver'
  <2>1. FieldsOK'
    BY <1>18 DEF DeactivateBegins, FieldsOK
  <2>2. QueuesOK'
    BY <1>18 DEF DeactivateBegins, QueuesOK
  <2>3. p' \in PollThreads /\ c' \in CallThreads /\ AtDriver'
    BY <1>18, <2>1, ConstantTypes, Ranges, Zenon
    DEF DeactivateBegins, FieldsOK, PollThreads, PollSteps, CallThreads, CallSteps, AtDriver
  <2>4. QED
    BY <2>1, <2>2, <2>3 DEF TypeOK
<1>19. ASSUME NEW d \in Drivers, FlushLoads(d) PROVE TypeOK' /\ AtDriver'
  <2>1. asked \in [Drivers -> Nat]
    BY DEF FieldsOK
  <2>2. asked' \in [Drivers -> Nat]
    BY <1>19, <2>1 DEF FlushLoads
  <2>3. FieldsOK'
    BY <1>19, <2>1, <2>2 DEF FlushLoads, FieldsOK
  <2>4. QueuesOK'
    BY <1>19, Zenon DEF FlushLoads, QueuesOK
  <2>5. p' \in PollThreads /\ c' \in CallThreads /\ AtDriver'
    BY <1>19, <2>3, ConstantTypes, Ranges
    DEF FlushLoads, FieldsOK, PollThreads, PollSteps, CallThreads, CallSteps, AtDriver
  <2>6. QED
    BY <2>3, <2>4, <2>5 DEF TypeOK
<1>20. ASSUME NEW d \in Drivers, Fill(d) PROVE TypeOK' /\ AtDriver'
  <2>1. FieldsOK'
    BY Zenon, <1>20 DEF Fill, FieldsOK
  <2>2. QueuesOK'
    <3>1. CASE UNCHANGED <<reader, dev>>
      BY <1>20, <3>1 DEF Fill, QueuesOK
    <3>2. ASSUME NEW k \in Nat, k <= Len(dev[d]), k <= N - Len(reader[d]), Len(reader[d]) < N,
                 reader' = [reader EXCEPT ![d] = @ \o SubSeq(dev[d], 1, k)],
                 dev' = [dev EXCEPT ![d] = SubSeq(@, k + 1, Len(@))],
                 UNCHANGED <<timestamp, last>>
          PROVE  QueuesOK'
      <4>1. /\ reader[d] \in Seq(Events) /\ dev[d] \in Seq(Events)
            /\ Len(reader[d]) \in Nat /\ Len(dev[d]) \in Nat
        BY DEF QueuesOK
      <4>2. SubSeq(dev[d], 1, k) \in Seq(Events) /\ Len(SubSeq(dev[d], 1, k)) = k
        BY <3>2, <4>1
      <4>3. SubSeq(dev[d], k + 1, Len(dev[d])) \in Seq(Events)
        BY <3>2, <4>1
      <4>4. /\ reader[d] \o SubSeq(dev[d], 1, k) \in Seq(Events)
            /\ Len(reader[d] \o SubSeq(dev[d], 1, k)) <= N
        <5> DEFINE new == SubSeq(dev[d], 1, k)
        <5>1. new \in Seq(Events) /\ Len(new) = k
          BY <4>2
        <5> HIDE DEF new
        <5>2. reader[d] \o new \in Seq(Events) /\ Len(reader[d] \o new) = Len(reader[d]) + k
          BY <4>1, <5>1, SMTT(30)
        <5>3. Len(reader[d]) + k <= N
          BY <3>2, <4>1, ConstantTypes
        <5>4. QED
          BY <5>2, <5>3, Zenon DEF new
      <4>5. QED
        BY <3>2, <4>3, <4>4 DEF QueuesOK
    <3>3. CASE Len(reader[d]) < N
      <4> DEFINE room == N - Len(reader[d])
                 k == IF Len(dev[d]) < room THEN Len(dev[d]) ELSE room
      <4>1. k \in Nat /\ k <= Len(dev[d]) /\ k <= N - Len(reader[d])
        BY <3>3, ConstantTypes, SMTT(30) DEF QueuesOK
      <4>2. /\ reader' = [reader EXCEPT ![d] = @ \o SubSeq(dev[d], 1, k)]
            /\ dev' = [dev EXCEPT ![d] = SubSeq(@, k + 1, Len(@))]
            /\ UNCHANGED <<timestamp, last>>
        BY <1>20, <3>3, Zenon DEF Fill, Unread
      <4> HIDE DEF k
      <4>3. QED
        BY <3>2, <3>3, <4>1, <4>2, Zenon
    <3>4. QED
      BY <1>20, <3>1, <3>3 DEF Fill
  <2>3. p' \in PollThreads /\ c' \in CallThreads /\ AtDriver'
    BY <1>20, <2>1, ConstantTypes, Ranges, Zenon
    DEF Fill, FieldsOK, PollThreads, PollSteps, CallThreads, CallSteps, AtDriver
  <2>4. QED
    BY <2>1, <2>2, <2>3 DEF TypeOK
<1>21. ASSUME NEW d \in Drivers, TakeEvent(d) PROVE TypeOK' /\ AtDriver'
  <2>1. FieldsOK'
    BY <1>21, Zenon DEF TakeEvent, FieldsOK
  <2>2. QueuesOK'
    <3>1. reader[d] \in Seq(Events) /\ reader[d] # <<>>
      BY <1>21 DEF TakeEvent, QueuesOK
    <3>2. /\ Tail(reader[d]) \in Seq(Events) /\ Len(Tail(reader[d])) <= Len(reader[d])
          /\ Head(reader[d])[2] \in Nat
      BY <3>1 DEF Events
    <3>3. reader' \in [Drivers -> Seq(Events)] /\ \A x \in Drivers : Len(reader'[x]) <= N
      <4>1. /\ reader \in [Drivers -> Seq(Events)] /\ \A x \in Drivers : Len(reader[x]) <= N
            /\ reader' = [reader EXCEPT ![d] = Tail(@)]
        BY <1>21 DEF TakeEvent, QueuesOK
      <4>2. Len(Tail(reader[d])) <= N
        BY <3>1, <3>2, <4>1, ConstantTypes
      <4>3. QED
        BY <3>2, <4>1, <4>2
    <3>4. timestamp' \in [Drivers -> Nat] /\ last' \in [Drivers -> Nat]
      BY <1>21, <3>2 DEF TakeEvent, QueuesOK
    <3>5. QED
      BY <1>21, <3>3, <3>4 DEF TakeEvent, QueuesOK
  <2>3. c' \in CallThreads
    BY <1>21 DEF TakeEvent, CallThreads, CallSteps
  <2>4. p' \in PollThreads
    <3>1. PICK k \in {p.count, p.count - 1} : p' = [p EXCEPT !.count = k]
      BY <1>21 DEF TakeEvent
    <3>2. p.count \in 0..Count /\ p.count > 0
      BY <1>21 DEF TakeEvent, PollThreads
    <3>3. k \in 0..Count
      BY <3>1, <3>2, ConstantTypes
    <3>4. QED
      BY <3>1, <3>3 DEF PollThreads
  <2>5. AtDriver'
    BY <1>21, <2>1, <2>4, Zenon DEF TakeEvent, AtDriver, PollThreads, CallThreads, FieldsOK
  <2>6. QED
    BY <2>1, <2>2, <2>3, <2>4, <2>5 DEF TypeOK
<1>22. CASE UNCHANGED vars
  BY <1>22, Zenon DEF vars, TypeOK, FieldsOK, QueuesOK, AtDriver
<1>23. QED
  BY <1>1, <1>2, <1>3, <1>4, <1>5, <1>6, <1>7, <1>8, <1>9, <1>10, <1>11, <1>12, <1>13,
     <1>14, <1>15, <1>16, <1>17, <1>18, <1>19, <1>20, <1>21, <1>22 DEF Next, PollThread,
     CallGoesOn, CallBegins
-----------------------------------------------------------------------------
(* What the threads leave alone. *)
LEMMA PollKeeps ==
  PollThread => UNCHANGED <<mEnabled, mEnabledTime, kernelOn, emitted, c, enables, asked, since>>
<1> USE DEF driverVars, callVars, pollUnchanged
<1>1. ASSUME NEW d \in Drivers, Fill(d) \/ TakeEvent(d)
      PROVE  UNCHANGED <<mEnabled, mEnabledTime, kernelOn, emitted, c, enables, asked, since>>
  BY <1>1, Zenon DEF Fill, TakeEvent
<1>2. QED
  BY <1>1, Zenon
  DEF PollThread, PollBegins, Scan, FlushCompletes, FlushCountLoads, FlushCountStores,
      FlushLoopGoesOn, FlushLoopEnds, FlushClearsPending, EventsEnd, Poll

LEMMA BeforeReading ==
  ASSUME p \in PollThreads,
         PollBegins \/ FlushCompletes \/ FlushCountLoads \/ FlushCountStores \/ FlushLoopGoesOn
  PROVE  /\ UNCHANGED <<reader, revents>> /\ p.pc # "events"
         /\ p'.pc \in {"scan", "load", "store", "flush"}
<1> USE DEF readVars, PollThreads
<1>1. CASE PollBegins
  BY <1>1 DEF PollBegins
<1>2. CASE FlushCompletes
  BY <1>2 DEF FlushCompletes
<1>3. CASE FlushCountLoads
  BY <1>3 DEF FlushCountLoads
<1>4. CASE FlushCountStores
  BY <1>4 DEF FlushCountStores
<1>5. CASE FlushLoopGoesOn
  BY <1>5 DEF FlushLoopGoesOn
<1>6. QED
  BY <1>1, <1>2, <1>3, <1>4, <1>5

LEMMA CallKeeps ==
  CallGoesOn \/ CallBegins => UNCHANGED <<readVars, revents, p, dev, emitted, answered>>
BY Zenon
DEF CallGoesOn, EnableWritesTime, EnableSwitchesDevice, WriteWake, FlushStores,
   FlushSetsPending,
    CallBegins, ActivateBegins, DeactivateBegins, FlushLoads, driverVars, readVars, flushVars,
    kernelVars, callVars

-----------------------------------------------------------------------------
(* Reports and activations. *)
LEMMA EnabledSinceStep == TypeOK /\ EnabledSince /\ [Next]_vars => EnabledSince'
<1> SUFFICES ASSUME FieldsOK, c \in CallThreads, EnabledSince, [Next]_vars
    PROVE  EnabledSince'
  BY DEF TypeOK
<1> USE DEF driverVars, readVars, kernelVars, callVars
<1>1. CASE UNCHANGED <<c, since, mEnabledTime, emitted>>
  BY <1>1 DEF EnabledSince
<1>2. CASE EnableWritesTime
  <2>1. /\ emitted \in [Drivers -> Nat] /\ since \in [Drivers -> Nat] /\ c.d \in Drivers
        /\ mEnabledTime \in [Drivers -> Nat]
    BY DEF FieldsOK, CallThreads
  <2>2. since[c.d] <= emitted[c.d] + Ignore
    BY <2>1, ConstantTypes, SMTT(30) DEF EnabledSince
  <2>3. QED
    BY <1>2, <2>1, <2>2 DEF EnableWritesTime, EnabledSince
<1>3. CASE EnableSwitchesDevice \/ WriteWake \/ FlushStores \/ FlushSetsPending
  BY <1>3 DEF EnableSwitchesDevice, WriteWake, FlushStores, FlushSetsPending, EnabledSince
<1>4. ASSUME NEW d \in Drivers, DeactivateBegins(d) \/ FlushLoads(d)
      PROVE  EnabledSince'
  BY <1>4 DEF DeactivateBegins, FlushLoads, EnabledSince
<1>5. ASSUME NEW d \in Drivers, ActivateBegins(d)
      PROVE  EnabledSince'
  BY <1>5 DEF ActivateBegins, EnabledSince, FieldsOK, CallThreads
<1>6. ASSUME NEW d \in Drivers, Report(d)
      PROVE  EnabledSince'
  <2>1. /\ emitted \in [Drivers -> Nat] /\ since \in [Drivers -> Nat]
        /\ UNCHANGED <<c, since, mEnabledTime>> /\ emitted' = [emitted EXCEPT ![d] = @ + 1]
    BY <1>6 DEF FieldsOK, Report
  <2>2. QED
    BY <2>1 DEF EnabledSince
<1>7. CASE PollThread
  BY <1>1, <1>7, PollKeeps
<1>8. CASE UNCHANGED vars
  BY <1>1, <1>8 DEF vars
<1>9. QED
  BY <1>2, <1>3, <1>4, <1>5, <1>6, <1>7, <1>8 DEF Next, CallGoesOn, CallBegins

\* A step that delivers a report is one of readEvents().
LEMMA DeliveredYoung ==
  ASSUME TypeOK, EnabledSince, [Next]_vars, NEW d \in Drivers, last'[d] # last[d]
  PROVE  last'[d] > since[d] \/ (c.pc = "time" /\ c.d = d)
<1> USE DEF driverVars, readVars, kernelVars, callVars
<1>1. ASSUME NEW e \in Drivers, TakeEvent(e)
      PROVE  last'[d] > since[d] \/ (c.pc = "time" /\ c.d = d)
  <2>1. /\ last \in [Drivers -> Nat] /\ timestamp \in [Drivers -> Nat]
        /\ mEnabledTime \in [Drivers -> Nat] /\ since \in [Drivers -> Nat]
    BY Zenon DEF TypeOK, FieldsOK, QueuesOK
  <2>2. d = e /\ last'[d] = timestamp[d] /\ Delivers(d)
    BY <1>1, <2>1 DEF TakeEvent
  <2>3. QED
    BY <2>1, <2>2 DEF Delivers, EnabledSince
<1>2. CASE PollThread
  BY <1>1, <1>2, Zenon
  DEF PollThread, PollBegins, Scan, FlushCompletes, FlushCountLoads, FlushCountStores,
      FlushLoopGoesOn, FlushLoopEnds, FlushClearsPending, EventsEnd, Poll, Fill
<1>3. CASE CallGoesOn \/ CallBegins
  BY <1>3, CallKeeps
<1>4. QED
  BY <1>2, <1>3, Zenon DEF Next, Report, vars
-----------------------------------------------------------------------------
(* Flushes. *)
LEMMA CountsStep ==
  TypeOK /\ AtDriver /\ CountsAddUp /\ [Next]_vars => CountsAddUp'
<1> SUFFICES ASSUME TypeOK, AtDriver, CountsAddUp, [Next]_vars
    PROVE  CountsAddUp'
  OBVIOUS
<1> USE DEF driverVars, readVars, flushVars, kernelVars, callVars, pollUnchanged
<1>1. CASE UNCHANGED vars
  BY <1>1, Zenon DEF vars, CountsAddUp, CountsRight, Overlap, Completing, Calling
<1>2. CASE Next
  <2>1. (Overlap' => raced') /\ (~raced' => ~raced /\ ~Overlap')
    BY <1>2, Zenon DEF Next, TypeOK, FieldsOK
  <2> SUFFICES ASSUME ~raced', ~raced, ~Overlap', CountsRight
      PROVE  CountsRight'
    BY <2>1 DEF CountsAddUp
  <2>2. /\ flushSensorReq \in [Drivers -> Nat] /\ asked \in [Drivers -> Nat]
        /\ answered \in [Drivers -> Nat] /\ p \in PollThreads /\ c \in CallThreads
        /\ revents \in [Drivers -> BOOLEAN] /\ 1 \in Nat \ {0}
    BY DEF TypeOK, FieldsOK
  <2>3. ASSUME UNCHANGED <<c, flushSensorReq, mHasPendingEvent, asked, answered>>,
               p.pc \notin {"load", "store"}, p'.pc \notin {"flush", "load", "store", "clear"}
        PROVE  CountsRight'
    BY <2>3 DEF CountsRight, Completing, Calling
  <2>4. CASE PollBegins
    BY <2>3, <2>4, Zenon DEF PollBegins
  <2>5. CASE Scan
    <3>1. CASE mHasPendingEvent
      <4>1. \A d \in Drivers : ~(d < 1)
        BY ConstantTypes
      <4>2. QED
        BY <2>2, <2>5, <3>1, <4>1, Zenon DEF Scan, CountsRight, Completing, Calling,
           PollThreads
    <3>2. CASE ~mHasPendingEvent
      BY <2>2, <2>3, <2>5, <3>2, ScanType DEF Scan
    <3>3. QED
      BY <3>1, <3>2
  <2>6. CASE FlushCompletes
    BY <2>2, <2>6 DEF FlushCompletes, CountsRight, Completing, Calling, PollThreads
  <2>7. CASE FlushCountLoads
    BY <2>2, <2>7 DEF FlushCountLoads, CountsRight, Completing, Calling, PollThreads
  <2>8. CASE FlushCountStores
    BY <2>2, <2>8 DEF FlushCountStores, Decremented, CountsRight, Completing, Calling,
       PollThreads,
                      AtDriver, Overlap
  <2>9. CASE FlushLoopGoesOn
    <3>1. \A d \in Drivers : d < p.h + 1 => d < p.h \/ d = p.h
      <4>1. p.h \in Int /\ \A d \in Drivers : d \in Int
        BY <2>2, ConstantTypes DEF PollThreads
      <4>2. QED
        BY <4>1
    <3>2. p'.h = p.h + 1 /\ p'.pc = "flush" /\ p.pc = "flush" /\ flushSensorReq[p.h] = 0
      BY <2>2, <2>9 DEF FlushLoopGoesOn, PollThreads
    <3>3. QED
      BY <2>2, <2>9, <3>1, <3>2 DEF FlushLoopGoesOn, CountsRight, Completing, Calling
  <2>10. CASE FlushLoopEnds
    <3>1. CASE AllServed
      <4>1. \A d \in Drivers : d < p.h \/ d = NumDrivers
        BY <2>2, <3>1, ConstantTypes DEF PollThreads, AllServed
      <4>2. p.pc = "flush" /\ p'.pc = "clear" /\ flushSensorReq[NumDrivers] = 0
        BY <2>2, <2>10, <3>1, Zenon DEF FlushLoopEnds, PollThreads, AllServed
      <4>3. QED
        BY <2>2, <2>10, <4>1, <4>2 DEF FlushLoopEnds, CountsRight, Completing, Calling
    <3>2. CASE ~AllServed
      BY <2>2, <2>3, <2>10, <3>2, ScanType DEF FlushLoopEnds
    <3>3. QED
      BY <3>1, <3>2
  <2>11. CASE FlushClearsPending
    <3>1. p'.pc \in {"out", "poll", "fill"}
      BY <2>2, <2>11, ScanType, Zenon DEF FlushClearsPending
    <3>2. QED
      BY <2>2, <2>11, <3>1 DEF FlushClearsPending, CountsRight, Completing, Calling
  <2>12. CASE EventsEnd
    <3>1. revents' \in [Drivers -> BOOLEAN] /\ p.i + 1 \in Nat \ {0}
      BY <2>2, <2>12 DEF EventsEnd, ReventsLeft, PollThreads, AtDriver
    <3>2. QED
      BY <2>2, <2>3, <2>12, <3>1, ScanType, Zenon DEF EventsEnd
  <2>13. CASE Poll
    BY <2>2, <2>3, <2>13 DEF Poll, PollThreads
  <2>14. ASSUME NEW d \in Drivers, Fill(d) \/ TakeEvent(d)
         PROVE  CountsRight'
    BY Zenon, <2>2, <2>3, <2>14 DEF Fill, TakeEvent, PollThreads
  <2>15. CASE EnableWritesTime \/ EnableSwitchesDevice \/ WriteWake
    BY <2>2, <2>15
    DEF EnableWritesTime, EnableSwitchesDevice, WriteWake, CountsRight, Completing, Calling,
       CallThreads
  <2>16. CASE FlushStores
    BY <2>2, <2>16 DEF FlushStores, CountsRight, Completing, Calling, CallThreads, Overlap
  <2>17. CASE FlushSetsPending
    BY <2>2, <2>17 DEF FlushSetsPending, CountsRight, Completing, Calling, CallThreads
  <2>18. ASSUME NEW d \in Drivers, ActivateBegins(d) \/ DeactivateBegins(d)
         PROVE  CountsRight'
    <3>1. /\ UNCHANGED <<p, flushSensorReq, mHasPendingEvent, asked, answered>>
          /\ c.pc = "idle" /\ c'.pc \in {"time", "off"}
      BY <2>2, <2>18, Zenon DEF ActivateBegins, DeactivateBegins, CallThreads
    <3>2. QED
      BY <3>1 DEF CountsRight, Completing, Calling
  <2>19. ASSUME NEW d \in Drivers, FlushLoads(d)
         PROVE  CountsRight'
    BY <2>2, <2>19 DEF FlushLoads, CountsRight, Completing, Calling, CallThreads, Overlap
  <2>20. ASSUME NEW d \in Drivers, Report(d)
         PROVE  CountsRight'
    BY <2>20 DEF Report, CountsRight, Completing, Calling
  <2>21. QED
    BY <1>2, <2>4, <2>5, <2>6, <2>7, <2>8, <2>9, <2>10, <2>11, <2>12, <2>13, <2>14, <2>15,
       <2>16,
       <2>17, <2>18, <2>19, <2>20
    DEF Next, PollThread, CallGoesOn, CallBegins
<1>3. QED
  BY <1>1, <1>2
LEMMA PendingStep ==
  TypeOK /\ AtDriver /\ CountsAddUp /\ PendingSeen /\ [Next]_vars => PendingSeen'
<1> SUFFICES ASSUME TypeOK, AtDriver, CountsAddUp, PendingSeen, [Next]_vars, ~raced',
                    NEW d \in Drivers, flushSensorReq'[d] > 0
    PROVE  \/ pipe' > 0 \/ (c'.pc \in {"pending", "wake"} /\ c'.d = d) \/ p'.count < Count
           \/ p'.pc \in {"out", "scan", "flush", "load", "store", "clear"}
  BY Zenon DEF PendingSeen
<1> USE DEF driverVars, readVars, flushVars, kernelVars, callVars, pollUnchanged
<1> DEFINE Seen == \/ pipe > 0 \/ (c.pc \in {"pending", "wake"} /\ c.d = d) \/ p.count < Count
                   \/ p.pc \in {"out", "scan", "flush", "load", "store", "clear"}
<1>1. /\ ~raced /\ CountsRight /\ flushSensorReq \in [Drivers -> Nat] /\ pipe \in Nat
      /\ p \in PollThreads /\ c \in CallThreads /\ Count \in Nat \ {0}
      /\ revents \in [Drivers -> BOOLEAN] /\ 1 \in Nat \ {0} /\ p.count \in Nat
  <2>1. ~raced
    BY DEF Next, vars, TypeOK, FieldsOK
  <2>2. pipe \in Nat /\ p.count \in Nat /\ Count \in Nat \ {0}
    BY ConstantTypes DEF TypeOK, FieldsOK, PollThreads
  <2>3. QED
    BY <2>1, <2>2 DEF CountsAddUp, TypeOK, FieldsOK
<1>2. flushSensorReq[d] > 0 => Seen
  BY <1>1 DEF PendingSeen
<1>3. CASE UNCHANGED vars
  BY <1>2, <1>3 DEF vars
<1>4. CASE PollBegins \/ FlushCompletes \/ FlushCountLoads \/ FlushCountStores \/ FlushLoopGoesOn
  BY <1>1, <1>4, BeforeReading
<1>5. CASE Scan
  <2>1. CASE mHasPendingEvent
    BY <1>1, <1>5, <2>1, Zenon DEF Scan, PollThreads
  <2>2. CASE ~mHasPendingEvent
    BY <1>1, <1>5, <2>2 DEF Scan, CountsRight
  <2>3. QED
    BY <2>1, <2>2
<1>6. CASE FlushLoopEnds
  <2>1. CASE AllServed
    BY <1>1, <1>6, <2>1, Zenon DEF FlushLoopEnds, PollThreads
  <2>2. CASE p.count = 0
    BY <1>1, <1>6, <2>1, <2>2, ScanType DEF FlushLoopEnds
  <2>3. CASE ~AllServed /\ p.count # 0
    <3>1. p.pc = "flush" /\ p.h \in 1..(NumDrivers + 1) /\ p.h \notin Drivers
      BY <1>1, <1>6, <2>3 DEF FlushLoopEnds, PollThreads
    <3>2. p.h = NumDrivers + 1 /\ NumDrivers \in Drivers /\ NumDrivers < p.h /\ p.h >= NumDrivers
      BY <3>1, ConstantTypes
    <3>3. QED
      BY <1>1, <2>3, <3>1, <3>2 DEF AllServed, CountsRight
  <2>4. QED
    BY <2>1, <2>2, <2>3
<1>7. CASE FlushClearsPending
  BY <1>1, <1>7, SMTT(30) DEF FlushClearsPending, CountsRight
<1>8. CASE EventsEnd
  <2>1. p.pc = "events" /\ p.i \in Drivers
    BY <1>8, Zenon DEF EventsEnd, AtDriver
  <2>2. revents' \in [Drivers -> BOOLEAN] /\ p.i + 1 \in Nat \ {0}
    BY <1>1, <1>8, <2>1, SMTT(30) DEF EventsEnd, ReventsLeft, PollThreads
  <2>3. p'.count = p.count
    BY <1>1, <1>8, <2>2, ScanType, Zenon DEF EventsEnd
  <2>4. QED
    BY Zenon, <1>2, <1>8, <2>1, <2>3 DEF EventsEnd
<1>9. CASE Poll
  BY <1>1, <1>9 DEF Poll, Ready, PollThreads
<1>10. ASSUME NEW e \in Drivers, Fill(e) \/ TakeEvent(e)
       PROVE  p'.count <= p.count /\ p.pc \in {"fill", "events"}
              /\ UNCHANGED <<flushSensorReq, c, pipe>>
  <2>1. CASE Fill(e)
    BY <1>1, <2>1 DEF Fill, PollThreads
  <2>2. CASE TakeEvent(e)
    BY <1>1, <2>2 DEF TakeEvent, PollThreads
  <2> QED
    BY <1>10, <2>1, <2>2, Zenon
<1>11. ASSUME NEW e \in Drivers, Fill(e) \/ TakeEvent(e)
       PROVE  \/ pipe' > 0 \/ (c'.pc \in {"pending", "wake"} /\ c'.d = d) \/ p'.count < Count
              \/ p'.pc \in {"out", "scan", "flush", "load", "store", "clear"}
  <2>1. p'.count \in Int
    BY <1>1, <1>11 DEF Fill, TakeEvent, PollThreads
  <2>2. QED
    BY <1>1, <1>2, <1>10, <1>11, <2>1
<1>12. CASE EnableWritesTime \/ EnableSwitchesDevice
  BY <1>1, <1>2, <1>12, SMTT(30) DEF EnableWritesTime, EnableSwitchesDevice
<1>13. CASE WriteWake
  <2>1. pipe' > 0
    BY <1>1, <1>13, ConstantTypes DEF WriteWake, Wakes
  <2>2. QED
    BY Zenon, <2>1
<1>14. CASE FlushStores
  BY <1>1, <1>2, <1>14 DEF FlushStores, CallThreads
<1>15. CASE FlushSetsPending
  BY <1>1, <1>2, <1>15 DEF FlushSetsPending, CallThreads
<1>16. ASSUME NEW e \in Drivers, ActivateBegins(e) \/ DeactivateBegins(e) \/ FlushLoads(e)
       PROVE  /\ c.pc = "idle" /\ UNCHANGED <<flushSensorReq, p, pipe>>
  BY <1>16, SMTT(30) DEF ActivateBegins, DeactivateBegins, FlushLoads
<1>17. ASSUME NEW e \in Drivers, Report(e)
       PROVE  UNCHANGED <<flushSensorReq, p, c, pipe>>
  BY <1>17, Zenon DEF Report
<1>18. CASE PollThread
  BY <1>4, <1>5, <1>6, <1>7, <1>8, <1>9, <1>11, <1>18, Zenon DEF PollThread
<1>19. CASE CallGoesOn
  BY <1>12, <1>13, <1>14, <1>15, <1>19, Zenon DEF CallGoesOn
<1>20. CASE CallBegins
  BY <1>2, <1>16, <1>20, Zenon DEF CallBegins
<1>21. QED
  BY <1>2, <1>3, <1>17, <1>18, <1>19, <1>20 DEF Next

LEMMA LeftoverStep ==
  TypeOK /\ AtDriver /\ LeftoverMarked /\ [Next]_vars => LeftoverMarked'
<1> SUFFICES ASSUME TypeOK, AtDriver, LeftoverMarked, [Next]_vars
    PROVE  LeftoverMarked'
  OBVIOUS
<1> USE DEF driverVars, readVars, flushVars, kernelVars, callVars, pollUnchanged
<1>1. /\ p \in PollThreads /\ revents \in [Drivers -> BOOLEAN] /\ 1 \in Nat \ {0}
      /\ reader \in [Drivers -> Seq(Events)]
      /\ \A d \in Drivers : d \in Int /\ d >= 1
  <2>1. \A d \in Drivers : d \in Int /\ d >= 1
    BY ConstantTypes
  <2>2. QED
    BY <2>1 DEF TypeOK, FieldsOK, QueuesOK
<1>2. CASE UNCHANGED <<p, reader, revents>>
  BY <1>2, Zenon DEF LeftoverMarked
<1>3. ASSUME UNCHANGED <<reader, revents>>, p.pc # "events", ScanFrom(1, revents)
      PROVE  LeftoverMarked'
  BY Zenon, <1>1, <1>3, ScanType DEF LeftoverMarked
<1>4. CASE PollBegins \/ FlushCompletes \/ FlushCountLoads \/ FlushCountStores \/ FlushLoopGoesOn
  BY <1>1, <1>4, BeforeReading, Zenon DEF LeftoverMarked
<1>5. CASE Scan
  <2>1. CASE mHasPendingEvent
    BY <1>1, <1>5, <2>1, Zenon DEF Scan, PollThreads, LeftoverMarked
  <2>2. QED
    BY <1>3, <1>5, <2>1 DEF Scan
<1>6. CASE FlushLoopEnds
  <2>1. CASE AllServed
    BY <1>1, <1>6, <2>1, Zenon DEF FlushLoopEnds, PollThreads, LeftoverMarked
  <2>2. QED
    BY <1>3, <1>6, <2>1 DEF FlushLoopEnds
<1>7. CASE FlushClearsPending
  BY <1>3, <1>7, Zenon DEF FlushClearsPending
<1>8. CASE EventsEnd
  <2>1. /\ p.pc = "events" /\ p.i \in Drivers /\ reader' = reader
        /\ p.count = 0 \/ reader[p.i] = <<>>
        /\ revents' = [revents EXCEPT ![p.i] = ReventsLeft(p.i)]
        /\ ScanFrom(p.i + 1, revents')
    BY <1>8, Zenon DEF EventsEnd, AtDriver
  <2>2. revents' \in [Drivers -> BOOLEAN] /\ p.i + 1 \in Nat \ {0} /\ p.i \in Int
    BY <1>1, <2>1 DEF ReventsLeft
  <2>3. /\ p'.pc \in {"out", "poll", "fill"}
        /\ p'.pc = "out" => p.count = 0
        /\ p'.pc = "poll" => p.count > 0 /\ \A d \in Drivers : d >= p.i + 1 => ~revents'[d]
        /\ p'.pc = "fill" => /\ p'.i \in Drivers /\ p'.i >= p.i + 1 /\ revents'[p'.i] /\ p.count > 0
                            /\ \A d \in Drivers : p.i + 1 <= d /\ d < p'.i => ~revents'[d]
    BY <1>1, <2>1, <2>2, ScanType, Zenon
  <2>4. \A d \in Drivers : d < p.i => ~revents'[d]
    BY <1>1, <2>1, <2>2 DEF LeftoverMarked
  <2>5. revents'[p.i] <=> p.count = 0
    BY <1>1, <2>1, Zenon DEF ReventsLeft, LeftoverMarked
  <2>6. \A d \in Drivers : reader'[d] # <<>> => revents'[d]
    BY <1>1, <2>1, <2>5 DEF LeftoverMarked
  <2>7. \A d \in Drivers : d < p.i \/ d = p.i \/ d >= p.i + 1
    BY <1>1, <2>2
  <2>8. p'.pc = "poll" => \A d \in Drivers : ~revents'[d]
    BY <2>3, <2>4, <2>5, <2>7
  <2>9. p'.pc = "fill" => revents'[p'.i] /\ \A d \in Drivers : d < p'.i => ~revents'[d]
    BY <2>3, <2>4, <2>5, <2>7
  <2>10. p'.pc # "events"
    BY <2>3
  <2>11. QED
    BY <2>6, <2>8, <2>9, <2>10, Zenon DEF LeftoverMarked
<1>9. CASE Poll
  BY <1>1, <1>9 DEF Poll, PollThreads, LeftoverMarked
<1>10. ASSUME NEW e \in Drivers, Fill(e)
       PROVE  LeftoverMarked'
  <2>1. /\ p.pc = "fill" /\ p.i = e /\ p' = [p EXCEPT !.pc = "events"] /\ revents' = revents
        /\ \A d \in Drivers \ {e} : reader'[d] = reader[d]
    BY <1>1, <1>10 DEF Fill
  <2>2. QED
    BY <1>1, <2>1 DEF LeftoverMarked, PollThreads
<1>11. ASSUME NEW e \in Drivers, TakeEvent(e)
       PROVE  LeftoverMarked'
  <2>1. /\ p.pc = "events" /\ p.i = e /\ p'.pc = "events" /\ p'.i = e /\ revents' = revents
        /\ \A d \in Drivers \ {e} : reader'[d] = reader[d]
    BY <1>1, <1>11 DEF TakeEvent, PollThreads
  <2>2. QED
    BY <1>1, <2>1, Zenon DEF LeftoverMarked
<1>12. CASE CallGoesOn \/ CallBegins
  BY <1>2, <1>12, CallKeeps
<1>13. ASSUME NEW e \in Drivers, Report(e)
       PROVE  LeftoverMarked'
  BY <1>2, <1>13, Zenon DEF Report
<1>14. CASE UNCHANGED vars
  BY <1>2, <1>14, Zenon DEF vars
<1>15. CASE PollThread
  BY <1>4, <1>5, <1>6, <1>7, <1>8, <1>9, <1>10, <1>11, <1>15 DEF PollThread
<1>16. QED
  BY <1>12, <1>13, <1>14, <1>15 DEF Next

-----------------------------------------------------------------------------
LEMMA InitInv == Init => IInv
<1> SUFFICES ASSUME Init PROVE IInv
  OBVIOUS
<1>1. FieldsOK
  <2>1. 0 \in 0..PipeCap /\ 0 \in 0..MaxReports /\ 0 \in Nat
    BY ConstantTypes
  <2>2. QED
    BY <2>1, Zenon DEF Init, FieldsOK
<1>2. QueuesOK
  BY ConstantTypes DEF Init, QueuesOK
<1>3. p \in PollThreads /\ c \in CallThreads
  BY ConstantTypes DEF Init, PollThreads, PollSteps, CallThreads, CallSteps
<1>4. AtDriver /\ PendingSeen /\ LeftoverMarked /\ EnabledSince
  BY DEF Init, AtDriver, PendingSeen, LeftoverMarked, EnabledSince
<1>5. CountsAddUp
  BY DEF Init, CountsAddUp, CountsRight, Overlap, Completing, Calling
<1>6. QED
  BY <1>1, <1>2, <1>3, <1>4, <1>5 DEF IInv, TypeOK

\* The inductive invariant: types, the counts of both threads, the requests
\* and leftovers that a waiting thread must not miss (nusensors.cpp:555-599),
\* and mEnabledTime against the activations.
THEOREM Invariance == Spec => []IInv
<1>1. IInv /\ [Next]_vars => IInv'
  BY TypeStep, CountsStep, PendingStep, LeftoverStep, EnabledSinceStep DEF IInv
<1>2. QED
  BY InitInv, <1>1, PTL DEF Spec

\* Types, and with them the bounds: a reader holds at most N events, the pipe at
\* most PipeCap messages, and the polling thread never writes behind the array
\* (nusensors.cpp:585).
THEOREM TypeCorrect == Spec => []TypeOK
<1>1. IInv => TypeOK
  BY DEF IInv
<1>2. QED
  BY Invariance, <1>1, PTL

LEMMA CompletedInTime ==
  ASSUME NEW done \in Nat, NEW asks \in Nat, NEW left \in Nat,
         NEW calls \in {0, 1}, NEW ends \in {0, 1},
         done + left + calls = asks + ends, ends = 1 => left > 0
  PROVE  done <= asks
  OBVIOUS

\* A flush is completed at most once (BatchSensor.cpp:335) for any number of
\* sensors and flushes, unless a flush() overlapped the loop.
THEOREM FlushedOnceHolds == Spec => []FlushedOnce
<1>1. IInv => FlushedOnce
  <2> SUFFICES ASSUME IInv, ~raced, NEW d \in Drivers
      PROVE  answered[d] <= asked[d]
    BY Zenon DEF FlushedOnce
  <2>1. /\ CountsRight /\ answered[d] \in Nat /\ asked[d] \in Nat /\ flushSensorReq[d] \in Nat
    BY Zenon DEF IInv, CountsAddUp, TypeOK, FieldsOK
  <2>2. Completing(d) = 1 => flushSensorReq[d] > 0
    BY <2>1 DEF Completing, CountsRight
  <2>3. Completing(d) \in {0, 1} /\ Calling(d) \in {0, 1}
    BY Zenon DEF Completing, Calling
  <2>4. answered[d] + flushSensorReq[d] + Calling(d) = asked[d] + Completing(d)
    BY <2>1 DEF CountsRight
  <2> HIDE DEF Completing, Calling
  <2>5. QED
    BY <2>1, <2>2, <2>3, <2>4, CompletedInTime, Zenon
<1>2. QED
  BY Invariance, <1>1, PTL

\* poll() never waits while a reader holds events or a flush is unanswered
\* (nusensors.cpp:599).
THEOREM NoLostWakeupHolds == Spec => []NoLostWakeup
<1>1. IInv => NoLostWakeup
  <2> SUFFICES ASSUME IInv, p.pc = "poll", Waits, ~Ready, NEW d \in Drivers
      PROVE  /\ reader[d] = <<>>
             /\ raced \/ answered[d] = asked[d] \/ (c.d = d /\ c.pc \in {"store", "pending", "wake"})
    BY DEF NoLostWakeup
  <2>1. reader[d] = <<>>
    BY DEF IInv, LeftoverMarked
  <2>2. ASSUME ~raced, ~(c.d = d /\ c.pc \in {"store", "pending", "wake"})
        PROVE  answered[d] = asked[d]
    <3>1. /\ CountsRight /\ answered[d] \in Nat /\ asked[d] \in Nat /\ flushSensorReq[d] \in Nat
          /\ p.count = Count /\ Count \in Nat /\ ~(pipe > 0)
      BY Zenon, <2>2, ConstantTypes DEF IInv, CountsAddUp, TypeOK, FieldsOK, Waits, Ready
    <3>2. flushSensorReq[d] = 0
      BY <2>2, <3>1 DEF IInv, PendingSeen
    <3>3. Completing(d) = 0 /\ Calling(d) = 0
      BY <2>2, Zenon DEF Completing, Calling
    <3>4. QED
      BY <3>1, <3>2, <3>3 DEF CountsRight
  <2>3. QED
    BY <2>1, <2>2, Zenon
<1>2. QED
  BY Invariance, <1>1, PTL

\* After an activation no report from before it is delivered (Acceleration.cpp:325).
THEOREM NoStaleReportsHolds == Spec => NoStaleReports
<1>1. IInv /\ [Next]_vars =>
        [\A d \in Drivers : last'[d] # last[d] =>
           last'[d] > since[d] \/ (c.pc = "time" /\ c.d = d)]_vars
  BY DeliveredYoung, Zenon DEF IInv
<1>2. QED
  BY Invariance, <1>1, PTL DEF Spec, NoStaleReports

-----------------------------------------------------------------------------
(* Reports on their way. *)

\* What a device has reported is read in order: q has the events that follow the
\* first n, and each report is its data and then its SYN.
Follows(q, n) ==
  \A i \in 1..Len(q) : \A k \in 1..MaxReports :
    /\ n + i = 2 * k - 1 => q[i] = <<"data", k>>
    /\ n + i = 2 * k => q[i] = <<"SYN", k>>

\* Events of d that fill() has read from the device, and that readEvents() has taken.
Read(d) == 2 * emitted[d] - Len(dev[d])
Taken(d) == Read(d) - Len(reader[d])

\* Between the data and the SYN of a report, mPendingEvent is that report.  Of the
\* reports whose SYN was taken, those that are owed were delivered.
InStep(d) ==
  /\ Taken(d) >= 0
  /\ Follows(dev[d], Read(d)) /\ Follows(reader[d], Taken(d))
  /\ \A k \in 1..MaxReports : Taken(d) = 2 * k - 1 => complete[d] /\ timestamp[d] = k
  /\ mEnabled[d] /\ ~(c.pc = "time" /\ c.d = d) =>
       \A k \in 1..MaxReports : 2 * k <= Taken(d) /\ k > mEnabledTime[d] => k <= last[d]
AllInStep == \A d \in Drivers : InStep(d)

LEMMA ConcatTwo ==
  ASSUME NEW S, NEW s \in Seq(S), NEW x \in S, NEW y \in S
  PROVE  /\ Len(s) \in Nat /\ Len(s \o <<x, y>>) = Len(s) + 2
         /\ \A i \in 1..Len(s) : (s \o <<x, y>>)[i] = s[i]
         /\ (s \o <<x, y>>)[Len(s) + 1] = x /\ (s \o <<x, y>>)[Len(s) + 2] = y
<1>1. <<x, y>> \in Seq(S) /\ Len(<<x, y>>) = 2 /\ <<x, y>>[1] = x /\ <<x, y>>[2] = y
  OBVIOUS
<1>2. \A r \in Seq(S) :
        /\ Len(s) \in Nat /\ Len(s \o r) = Len(s) + Len(r)
        /\ \A i \in 1..Len(s) : (s \o r)[i] = s[i]
        /\ \A i \in 1..Len(r) : (s \o r)[Len(s) + i] = r[i]
  OBVIOUS
<1>3. 1 \in 1..2 /\ 2 \in 1..2
  OBVIOUS
<1> QED
  BY <1>1, <1>2, <1>3, Zenon

LEMMA CutFacts ==
  ASSUME NEW S, NEW q \in Seq(S), NEW r \in Seq(S), NEW n \in 0..Len(q)
  PROVE  /\ Len(q) \in Nat /\ Len(r) \in Nat
         /\ Len(SubSeq(q, n + 1, Len(q))) = Len(q) - n
         /\ \A i \in 1..(Len(q) - n) : SubSeq(q, n + 1, Len(q))[i] = q[n + i]
         /\ Len(r \o SubSeq(q, 1, n)) = Len(r) + n
         /\ \A i \in 1..Len(r) : (r \o SubSeq(q, 1, n))[i] = r[i]
         /\ \A i \in 1..n : (r \o SubSeq(q, 1, n))[Len(r) + i] = q[i]
<1>1. /\ Len(q) \in Nat /\ Len(r) \in Nat /\ n \in Nat
      /\ Len(SubSeq(q, n + 1, Len(q))) = Len(q) - n
      /\ \A i \in 1..(Len(q) - n) : SubSeq(q, n + 1, Len(q))[i] = q[n + i]
  OBVIOUS
<1>2. /\ SubSeq(q, 1, n) \in Seq(S) /\ Len(SubSeq(q, 1, n)) = n
      /\ \A i \in 1..n : SubSeq(q, 1, n)[i] = q[i]
  OBVIOUS
<1>3. \A s \in Seq(S) : /\ Len(r \o s) = Len(r) + Len(s)
                        /\ \A i \in 1..Len(r) : (r \o s)[i] = r[i]
                        /\ \A i \in 1..Len(s) : (r \o s)[Len(r) + i] = s[i]
  OBVIOUS
<1> QED
  BY <1>1, <1>2, <1>3, Zenon

LEMMA TailFacts ==
  ASSUME NEW S, NEW q \in Seq(S), q # <<>>
  PROVE  /\ Len(q) \in Nat /\ Len(q) >= 1 /\ Len(Tail(q)) = Len(q) - 1 /\ Head(q) = q[1]
         /\ \A i \in 1..(Len(q) - 1) : Tail(q)[i] = q[1 + i]
OBVIOUS

LEMMA FollowsReport ==
  ASSUME NEW q \in Seq(Events), NEW e \in Nat, e + 1 \in 1..MaxReports,
         Follows(q, 2 * e - Len(q))
  PROVE  /\ Follows(q \o <<<<"data", e + 1>>, <<"SYN", e + 1>>>>, 2 * e - Len(q))
         /\ Len(q \o <<<<"data", e + 1>>, <<"SYN", e + 1>>>>) = Len(q) + 2 /\ Len(q) \in Nat
<1> DEFINE r == q \o <<<<"data", e + 1>>, <<"SYN", e + 1>>>>
<1>1. <<"data", e + 1>> \in Events /\ <<"SYN", e + 1>> \in Events
  BY DEF Events
<1>2. /\ Len(q) \in Nat /\ Len(r) = Len(q) + 2 /\ \A i \in 1..Len(q) : r[i] = q[i]
      /\ r[Len(q) + 1] = <<"data", e + 1>> /\ r[Len(q) + 2] = <<"SYN", e + 1>>
  BY <1>1, ConcatTwo
<1> HIDE DEF r
<1>3. SUFFICES ASSUME NEW i \in 1..Len(r), NEW k \in 1..MaxReports
               PROVE  /\ 2 * e - Len(q) + i = 2 * k - 1 => r[i] = <<"data", k>>
                      /\ 2 * e - Len(q) + i = 2 * k => r[i] = <<"SYN", k>>
  BY <1>2, Zenon DEF Follows, r
<1>4. CASE i \in 1..Len(q)
  BY <1>2, <1>4, Zenon DEF Follows
<1>5. CASE i = Len(q) + 1
  <2>1. /\ 2 * e - Len(q) + i # 2 * k
        /\ 2 * e - Len(q) + i = 2 * k - 1 => k = e + 1
    BY <1>2, <1>5, ConstantTypes
  <2> QED
    BY <1>2, <1>5, <2>1, Zenon
<1>6. CASE i = Len(q) + 2
  <2>1. /\ 2 * e - Len(q) + i # 2 * k - 1
        /\ 2 * e - Len(q) + i = 2 * k => k = e + 1
    BY <1>2, <1>6, ConstantTypes
  <2> QED
    BY <1>2, <1>6, <2>1, Zenon
<1>7. i \in 1..Len(q) \/ i = Len(q) + 1 \/ i = Len(q) + 2
  BY <1>2, <1>3, SMTT(30)
<1> QED
  BY <1>4, <1>5, <1>6, <1>7, Zenon

LEMMA FollowsFill ==
  ASSUME NEW q \in Seq(Events), NEW r \in Seq(Events), NEW n \in 0..Len(q), NEW m \in Int,
         Follows(r, m), Follows(q, m + Len(r))
  PROVE  /\ Follows(SubSeq(q, n + 1, Len(q)), m + Len(r) + n)
         /\ Follows(r \o SubSeq(q, 1, n), m)
         /\ Len(SubSeq(q, n + 1, Len(q))) = Len(q) - n
         /\ Len(r \o SubSeq(q, 1, n)) = Len(r) + n
<1> DEFINE a == SubSeq(q, n + 1, Len(q))
           b == r \o SubSeq(q, 1, n)
<1>1. /\ Len(q) \in Nat /\ Len(r) \in Nat /\ n \in Nat
      /\ Len(a) = Len(q) - n /\ \A i \in 1..(Len(q) - n) : a[i] = q[n + i]
      /\ Len(b) = Len(r) + n /\ \A i \in 1..Len(r) : b[i] = r[i]
      /\ \A i \in 1..n : b[Len(r) + i] = q[i]
  BY CutFacts
<1> HIDE DEF a, b
<1>2. Follows(a, m + Len(r) + n)
  <2>1. SUFFICES ASSUME NEW i \in 1..Len(a), NEW k \in 1..MaxReports
                 PROVE  /\ m + Len(r) + n + i = 2 * k - 1 => a[i] = <<"data", k>>
                        /\ m + Len(r) + n + i = 2 * k => a[i] = <<"SYN", k>>
    BY Zenon DEF Follows
  <2>2. PICK j \in 1..Len(q) : j = n + i
    BY <1>1, <2>1
  <2>3. a[i] = q[j] /\ m + Len(r) + n + i = m + Len(r) + j
    BY <1>1, <2>1, <2>2
  <2> QED
    BY <2>3, ZenonT(30) DEF Follows
<1>3. Follows(b, m)
  <2>1. SUFFICES ASSUME NEW i \in 1..Len(b), NEW k \in 1..MaxReports
                 PROVE  /\ m + i = 2 * k - 1 => b[i] = <<"data", k>>
                        /\ m + i = 2 * k => b[i] = <<"SYN", k>>
    BY Zenon DEF Follows
  <2>2. CASE i \in 1..Len(r)
    BY <1>1, <2>2, Zenon DEF Follows
  <2>3. CASE i \notin 1..Len(r)
    <3>1. PICK j \in 1..n : i = Len(r) + j
      <4>1. i - Len(r) \in 1..n /\ i = Len(r) + (i - Len(r))
        BY <1>1, <2>1, <2>3
      <4> QED
        BY <4>1, Zenon
    <3>2. b[i] = q[j] /\ j \in 1..Len(q) /\ m + i = m + Len(r) + j
      BY <1>1, <3>1, SMTT(30)
    <3> QED
      BY <3>2, SMTT(30) DEF Follows
  <2> QED
    BY <2>2, <2>3, Zenon
<1> QED
  BY <1>1, <1>2, <1>3, Zenon DEF a, b

LEMMA Shift ==
  ASSUME NEW e \in Nat, NEW l \in Nat, NEW m \in Nat, NEW n \in Nat
  PROVE  /\ 2 * e - l - m + m + n = 2 * e - (l - n)
         /\ 2 * e - (l - n) - (m + n) = 2 * e - l - m
OBVIOUS

InOrder(e, q, r) ==
  /\ e \in Nat /\ q \in Seq(Events) /\ r \in Seq(Events)
  /\ Follows(q, 2 * e - Len(q)) /\ Follows(r, 2 * e - Len(q) - Len(r))

Moved(q, r, n, q2, r2) ==
  /\ n \in 0..Len(q) /\ q2 = SubSeq(q, n + 1, Len(q)) /\ r2 = r \o SubSeq(q, 1, n)

LEMMA FillSound ==
  ASSUME NEW e, NEW q, NEW r, NEW n, NEW q2, NEW r2, InOrder(e, q, r), Moved(q, r, n, q2, r2)
  PROVE  /\ 2 * e - Len(q2) - Len(r2) = 2 * e - Len(q) - Len(r)
         /\ Follows(q2, 2 * e - Len(q2)) /\ Follows(r2, 2 * e - Len(q2) - Len(r2))
<1>0. /\ e \in Nat /\ q \in Seq(Events) /\ r \in Seq(Events)
      /\ Follows(q, 2 * e - Len(q)) /\ Follows(r, 2 * e - Len(q) - Len(r))
      /\ n \in 0..Len(q)
  BY DEF InOrder, Moved
<1>1. /\ Len(q) \in Nat /\ Len(r) \in Nat /\ n \in Nat
      /\ Len(q2) = Len(q) - n /\ Len(r2) = Len(r) + n
  BY <1>0, CutFacts DEF Moved
<1>2. \A m \in Int : Follows(r, m) /\ Follows(q, m + Len(r)) =>
                     Follows(q2, m + Len(r) + n) /\ Follows(r2, m)
  BY <1>0, FollowsFill, Zenon DEF Moved
<1>3. 2 * e - Len(q) - Len(r) \in Int /\ 2 * e - Len(q) - Len(r) + Len(r) = 2 * e - Len(q)
  BY <1>0, <1>1
<1>4. Follows(q2, 2 * e - Len(q) - Len(r) + Len(r) + n)
      /\ Follows(r2, 2 * e - Len(q) - Len(r))
  BY <1>0, <1>2, <1>3, Zenon
<1>5. /\ 2 * e - Len(q) - Len(r) + Len(r) + n = 2 * e - Len(q2)
      /\ 2 * e - Len(q2) - Len(r2) = 2 * e - Len(q) - Len(r)
  <2>1. /\ 2 * e - Len(q) - Len(r) + Len(r) + n = 2 * e - (Len(q) - n)
        /\ 2 * e - (Len(q) - n) - (Len(r) + n) = 2 * e - Len(q) - Len(r)
    BY <1>0, <1>1, Shift
  <2> QED
    BY <1>1, <2>1, Zenon
<1> QED
  BY <1>4, <1>5, Zenon

LEMMA FollowsTake ==
  ASSUME NEW q \in Seq(Events), q # <<>>, NEW n \in Int, Follows(q, n)
  PROVE  /\ Follows(Tail(q), n + 1)
         /\ \A k \in 1..MaxReports : /\ n + 1 = 2 * k - 1 => Head(q) = <<"data", k>>
                                     /\ n + 1 = 2 * k => Head(q) = <<"SYN", k>>
<1>1. /\ Len(q) \in Nat /\ Len(q) >= 1 /\ Len(Tail(q)) = Len(q) - 1 /\ Head(q) = q[1]
      /\ \A i \in 1..(Len(q) - 1) : Tail(q)[i] = q[1 + i]
  BY TailFacts, Zenon
<1>2. \A i \in 1..Len(Tail(q)) : /\ Tail(q)[i] = q[1 + i] /\ 1 + i \in 1..Len(q)
                                 /\ n + 1 + i = n + (1 + i)
  BY <1>1
<1>3. 1 \in 1..Len(q)
  BY <1>1
<1> QED
  BY <1>1, <1>2, <1>3 DEF Follows

LEMMA Position ==
  ASSUME NEW n \in Nat, NEW m \in Nat, n < 2 * m
  PROVE  \E k \in 1..m : n + 1 = 2 * k - 1 \/ n + 1 = 2 * k
<1> DEFINE k == (n + 2) \div 2
<1>1. k \in Int /\ (n + 2 = 2 * k \/ n + 2 = 2 * k + 1)
  OBVIOUS
<1> HIDE DEF k
<1>2. k \in 1..m /\ (n + 1 = 2 * k - 1 \/ n + 1 = 2 * k)
  BY <1>1, SMTT(30)
<1> QED
  BY <1>2

\* A driver that was enabled after its reports owes none of the reports taken.
LEMMA NoneOwed ==
  \A e, l, m, n \in Nat : \A t \in Int : \A k \in 1..n :
    t <= 2 * e - l /\ m >= e /\ 2 * k <= t => ~(k > m)
  OBVIOUS

LEMMA TakenBelow ==
  \A e, l, n \in Nat : \A t \in Int :
    t >= 0 /\ t <= 2 * e - l /\ l >= 1 /\ e \in 0..n => t \in Nat /\ t < 2 * e /\ t < 2 * n
  OBVIOUS

\* The event behind t events is the data of report k, or its SYN.
LEMMA AtData ==
  \A t, n \in Nat : \A k, j \in 1..n :
    t + 1 = 2 * k - 1 => /\ t + 1 = 2 * j - 1 => j = k
                         /\ 2 * j <= t + 1 => 2 * j <= t
  OBVIOUS
LEMMA AtSyn ==
  ASSUME NEW t \in Nat, NEW n \in Nat, NEW k \in 1..n, t + 1 = 2 * k
  PROVE  /\ t = 2 * k - 1 /\ \A e \in Nat : t < 2 * e => k <= e
         /\ \A j \in 1..n : /\ t + 1 # 2 * j - 1
                            /\ 2 * j <= t + 1 => j <= k /\ (j = k \/ 2 * j <= t)
  OBVIOUS

LEMMA PairFields == \A x, y : <<x, y>>[1] = x /\ <<x, y>>[2] = y
  OBVIOUS

LEMMA DriverTypes ==
  ASSUME TypeOK, NEW d \in Drivers
  PROVE  /\ emitted[d] \in 0..MaxReports /\ emitted[d] \in Nat /\ MaxReports \in Nat
         /\ dev[d] \in Seq(Events) /\ reader[d] \in Seq(Events)
         /\ Len(dev[d]) \in Nat /\ Len(reader[d]) \in Nat
         /\ mEnabledTime[d] \in Nat /\ last[d] \in Nat /\ timestamp[d] \in Nat
         /\ Read(d) \in Int /\ Taken(d) \in Int
         /\ Read(d) = Taken(d) + Len(reader[d])
         /\ Taken(d) <= 2 * emitted[d] - Len(reader[d])
<1>1. /\ emitted[d] \in 0..MaxReports /\ dev[d] \in Seq(Events) /\ reader[d] \in Seq(Events)
      /\ mEnabledTime[d] \in Nat /\ last[d] \in Nat /\ timestamp[d] \in Nat
  BY Zenon DEF TypeOK, FieldsOK, QueuesOK
<1>2. emitted[d] \in Nat /\ MaxReports \in Nat /\ Len(dev[d]) \in Nat /\ Len(reader[d]) \in Nat
  BY <1>1, ConstantTypes, SMTT(30)
<1>3. \A e, l, r \in Nat : /\ 2 * e - l \in Int /\ 2 * e - l - r \in Int
                           /\ 2 * e - l = 2 * e - l - r + r /\ 2 * e - l - r <= 2 * e - r
  OBVIOUS
<1>4. /\ Read(d) \in Int /\ Taken(d) \in Int /\ Read(d) = Taken(d) + Len(reader[d])
      /\ Taken(d) <= 2 * emitted[d] - Len(reader[d])
  BY <1>2, <1>3, SMTT(30) DEF Read, Taken
<1> QED
  BY <1>1, <1>2, <1>4, Zenon

\* A driver whose queues and pending event do not change keeps in step, also when an
\* activation gives it a new mEnabledTime.
LEMMA DriverSame ==
  ASSUME TypeOK, NEW d \in Drivers, InStep(d),
         UNCHANGED <<emitted[d], dev[d], reader[d], complete[d], timestamp[d], last[d]>>,
         mEnabled'[d] /\ ~(c'.pc = "time" /\ c'.d = d) =>
           \/ /\ mEnabled[d] /\ ~(c.pc = "time" /\ c.d = d)
              /\ mEnabledTime'[d] = mEnabledTime[d]
           \/ mEnabledTime'[d] \in Nat /\ mEnabledTime'[d] >= emitted[d]
  PROVE  InStep(d)'
<1>1. Read(d)' = Read(d) /\ Taken(d)' = Taken(d)
  BY Zenon DEF Read, Taken
<1>2. /\ Taken(d)' >= 0
      /\ Follows(dev[d], Read(d))' /\ Follows(reader[d], Taken(d))'
      /\ \A k \in 1..MaxReports : Taken(d)' = 2 * k - 1 => complete'[d] /\ timestamp'[d] = k
  <2>1. dev'[d] = dev[d] /\ reader'[d] = reader[d]
    BY Zenon
  <2>2. Follows(dev'[d], Read(d)') /\ Follows(reader'[d], Taken(d)')
    BY <1>1, <2>1, Zenon DEF InStep
  <2>3. Follows(dev[d], Read(d))' /\ Follows(reader[d], Taken(d))'
    BY <2>2, Zenon DEF Follows
  <2> QED
    BY <1>1, <2>3, Zenon DEF InStep
<1>3. ASSUME mEnabled'[d], ~(c'.pc = "time" /\ c'.d = d), NEW k \in 1..MaxReports,
             2 * k <= Taken(d)', k > mEnabledTime'[d]
      PROVE  k <= last'[d]
  <2>1. CASE mEnabledTime'[d] \in Nat /\ mEnabledTime'[d] >= emitted[d]
    <3>1. /\ Taken(d) <= 2 * emitted[d] - Len(reader[d]) /\ emitted[d] \in Nat
          /\ Len(reader[d]) \in Nat /\ Taken(d) \in Int /\ MaxReports \in Nat
      BY DriverTypes, Zenon
    <3> QED
      BY <1>1, <1>3, <2>1, <3>1, NoneOwed, Zenon
  <2>2. CASE /\ mEnabled[d] /\ ~(c.pc = "time" /\ c.d = d)
             /\ mEnabledTime'[d] = mEnabledTime[d]
    BY <1>1, <1>3, <2>2, Zenon DEF InStep
  <2> QED
    BY <1>3, <2>1, <2>2, Zenon
<1> QED
  BY <1>2, <1>3, Zenon DEF InStep

LEMMA ReportKeeps ==
  ASSUME TypeOK, NEW d \in Drivers, InStep(d), Report(d)
  PROVE  InStep(d)'
<1>1. /\ emitted'[d] = emitted[d] + 1 /\ emitted[d] < MaxReports
      /\ dev'[d] = dev[d] \o <<<<"data", emitted[d] + 1>>, <<"SYN", emitted[d] + 1>>>>
      /\ UNCHANGED <<reader, complete, timestamp, last, mEnabled, mEnabledTime, c>>
  BY Zenon DEF Report, TypeOK, FieldsOK, QueuesOK, readVars, driverVars, callVars
<1>2. /\ emitted[d] \in Nat /\ emitted[d] + 1 \in 1..MaxReports
      /\ dev[d] \in Seq(Events) /\ Len(dev[d]) \in Nat /\ Len(reader[d]) \in Nat
  <2>1. /\ emitted[d] \in Nat /\ MaxReports \in Nat
        /\ dev[d] \in Seq(Events) /\ Len(dev[d]) \in Nat /\ Len(reader[d]) \in Nat
    BY DriverTypes, Zenon
  <2> QED
    BY <1>1, <2>1
<1>3. Read(d) = 2 * emitted[d] - Len(dev[d]) /\ Follows(dev[d], Read(d))
  BY Zenon DEF Read, InStep
<1>4. Len(dev'[d]) = Len(dev[d]) + 2 /\ Follows(dev'[d], Read(d))
  BY <1>1, <1>2, <1>3, FollowsReport, Zenon
<1>5. Read(d)' = Read(d) /\ Taken(d)' = Taken(d)
  <2>1. \A e, l \in Nat : 2 * (e + 1) - (l + 2) = 2 * e - l
    OBVIOUS
  <2>2. Read(d)' = Read(d)
    BY <1>1, <1>2, <1>3, <1>4, <2>1, Zenon DEF Read
  <2> QED
    BY <1>1, <2>2, Zenon DEF Taken
<1>6. Follows(dev[d], Read(d))' /\ Follows(reader[d], Taken(d))'
  <2>1. Follows(dev[d], Read(d))'
    BY <1>4, <1>5, Zenon DEF Follows
  <2>2. Follows(reader[d], Taken(d))'
    <3>1. Follows(reader'[d], Taken(d)')
      BY <1>1, <1>5, Zenon DEF InStep
    <3> QED
      BY <3>1, Zenon DEF Follows
  <2> QED
    BY <2>1, <2>2, Zenon
<1> QED
  BY <1>1, <1>5, <1>6, Zenon DEF InStep

LEMMA FillKeeps ==
  ASSUME TypeOK, NEW d \in Drivers, InStep(d), Fill(d)
  PROVE  InStep(d)'
<1>1. UNCHANGED <<complete, timestamp, last, mEnabled, mEnabledTime, c, emitted>>
  BY Zenon DEF Fill, pollUnchanged, driverVars, callVars
<1>2. /\ emitted[d] \in Nat /\ dev[d] \in Seq(Events) /\ reader[d] \in Seq(Events)
      /\ Len(dev[d]) \in Nat /\ Len(reader[d]) \in Nat
  BY DriverTypes, Zenon
<1>3. CASE UNCHANGED <<reader, dev>>
  BY <1>1, <1>3, DriverSame, Zenon
<1>4. CASE Len(reader[d]) < N
  <2> DEFINE room == N - Len(reader[d])
             n == IF Len(dev[d]) < room THEN Len(dev[d]) ELSE room
  <2>1. n \in 0..Len(dev[d])
    BY <1>2, <1>4, ConstantTypes
  <2>2. Moved(dev[d], reader[d], n, dev'[d], reader'[d])
    <3>1. /\ reader'[d] = reader[d] \o SubSeq(dev[d], 1, n)
          /\ dev'[d] = SubSeq(dev[d], n + 1, Len(dev[d]))
      BY <1>4, Zenon DEF Fill, Unread, TypeOK, QueuesOK
    <3> QED
      BY <2>1, <3>1, Zenon DEF Moved
  <2> HIDE DEF n
  <2>3. InOrder(emitted[d], dev[d], reader[d])
    BY <1>2, Zenon DEF InOrder, InStep, Read, Taken
  <2>4. /\ 2 * emitted[d] - Len(dev'[d]) - Len(reader'[d])
             = 2 * emitted[d] - Len(dev[d]) - Len(reader[d])
        /\ Follows(dev'[d], 2 * emitted[d] - Len(dev'[d]))
        /\ Follows(reader'[d], 2 * emitted[d] - Len(dev'[d]) - Len(reader'[d]))
    BY <2>2, <2>3, FillSound, Zenon
  <2>5. Taken(d)' = Taken(d)
    BY <1>1, <2>4, Zenon DEF Read, Taken
  <2>6. Follows(dev[d], Read(d))' /\ Follows(reader[d], Taken(d))'
    BY <1>1, <2>4, Zenon DEF Follows, Read, Taken
  <2> QED
    BY <1>1, <2>5, <2>6, Zenon DEF InStep
<1> QED
  BY <1>3, <1>4, Zenon DEF Fill

LEMMA TakeKeeps ==
  ASSUME TypeOK, NEW d \in Drivers, InStep(d), TakeEvent(d)
  PROVE  InStep(d)'
<1> DEFINE e == Head(reader[d])
           tested == e[1] = "SYN" /\ mEnabled[d] /\ emitted[d] >= mEnabledTime[d]
           delivers == e[1] = "SYN" /\ Delivers(d)
<1>1. /\ UNCHANGED <<mEnabled, mEnabledTime, c, emitted, dev>> /\ reader[d] # <<>>
      /\ reader'[d] = Tail(reader[d])
  BY Zenon DEF TakeEvent, pollUnchanged, driverVars, callVars, TypeOK, QueuesOK
<1>2. /\ timestamp'[d] = IF e[1] = "data" THEN e[2] ELSE IF delivers THEN 0 ELSE timestamp[d]
      /\ last'[d] = IF delivers THEN timestamp[d] ELSE last[d]
      /\ complete'[d] = (e[1] = "data" \/ (complete[d] /\ ~tested))
  BY Zenon DEF TakeEvent, TypeOK, FieldsOK, QueuesOK
<1>3. /\ emitted[d] \in 0..MaxReports /\ emitted[d] \in Nat /\ MaxReports \in Nat
      /\ dev[d] \in Seq(Events) /\ reader[d] \in Seq(Events)
      /\ Len(dev[d]) \in Nat /\ Len(reader[d]) \in Nat
      /\ mEnabledTime[d] \in Nat /\ last[d] \in Nat /\ timestamp[d] \in Nat
      /\ Taken(d) \in Int /\ Taken(d) <= 2 * emitted[d] - Len(reader[d])
  BY DriverTypes, Zenon
<1>4. Len(reader[d]) >= 1 /\ Len(reader'[d]) = Len(reader[d]) - 1
  BY <1>1, <1>3, TailFacts, Zenon
<1>5. Taken(d) \in Nat /\ Taken(d) < 2 * emitted[d]
  BY <1>3, <1>4, TakenBelow, Zenon DEF InStep
<1>6. Read(d)' = Read(d) /\ Taken(d)' = Taken(d) + 1
  <2>1. \A m \in Int : \A l \in Nat : m - (l - 1) = m - l + 1
    OBVIOUS
  <2>2. Read(d) \in Int /\ Read(d)' = Read(d)
    BY <1>1, DriverTypes, Zenon DEF Read
  <2> QED
    BY <1>3, <1>4, <2>1, <2>2, Zenon DEF Taken
<1>7. /\ Follows(reader'[d], Taken(d) + 1)
      /\ \A k \in 1..MaxReports : /\ Taken(d) + 1 = 2 * k - 1 => e = <<"data", k>>
                                  /\ Taken(d) + 1 = 2 * k => e = <<"SYN", k>>
  BY <1>1, <1>3, FollowsTake, Zenon DEF InStep
<1>8. Follows(dev[d], Read(d))' /\ Follows(reader[d], Taken(d))' /\ Taken(d)' >= 0
  <2>1. Follows(dev[d], Read(d))'
    <3>1. Follows(dev'[d], Read(d)')
      BY <1>1, <1>6, Zenon DEF InStep
    <3> QED
      BY <3>1, Zenon DEF Follows
  <2>2. Follows(reader[d], Taken(d))'
    BY <1>6, <1>7, Zenon DEF Follows
  <2>3. \A t \in Nat : t + 1 >= 0
    OBVIOUS
  <2> QED
    BY <1>5, <1>6, <2>1, <2>2, <2>3, Zenon
<1>9. PICK k \in 1..MaxReports : Taken(d) + 1 = 2 * k - 1 \/ Taken(d) + 1 = 2 * k
  <2>1. Taken(d) < 2 * MaxReports
    BY <1>3, <1>4, <1>5, TakenBelow, Zenon DEF InStep
  <2> QED
    BY <1>3, <1>5, <2>1, Position, Zenon
<1>10. CASE Taken(d) + 1 = 2 * k - 1
  <2>1. e[1] = "data" /\ e[2] = k
    <3>1. e = <<"data", k>>
      BY <1>7, <1>10, Zenon
    <3>2. <<"data", k>>[1] = "data" /\ <<"data", k>>[2] = k
      BY PairFields, Zenon
    <3> QED
      BY <3>1, <3>2, Zenon
  <2>2. timestamp'[d] = k /\ last'[d] = last[d] /\ complete'[d]
    BY <1>2, <2>1, Zenon
  <2>3. \A j \in 1..MaxReports : /\ Taken(d) + 1 = 2 * j - 1 => j = k
                                 /\ 2 * j <= Taken(d) + 1 => 2 * j <= Taken(d)
    BY <1>3, <1>5, <1>10, AtData, Zenon
  <2>4. \A j \in 1..MaxReports : Taken(d)' = 2 * j - 1 => complete'[d] /\ timestamp'[d] = j
    BY <1>6, <2>2, <2>3, Zenon
  <2>5. mEnabled'[d] /\ ~(c'.pc = "time" /\ c'.d = d) =>
          \A j \in 1..MaxReports : 2 * j <= Taken(d)' /\ j > mEnabledTime'[d] => j <= last'[d]
    BY <1>1, <1>6, <2>2, <2>3, Zenon DEF InStep
  <2> QED
    BY <1>8, <2>4, <2>5, Zenon DEF InStep
<1>11. CASE Taken(d) + 1 = 2 * k
  <2>1. e[1] = "SYN"
    <3>1. e = <<"SYN", k>>
      BY <1>7, <1>11, Zenon
    <3> QED
      BY <3>1, PairFields, Zenon
  <2>2. complete[d] /\ timestamp[d] = k
    <3>1. Taken(d) = 2 * k - 1
      BY <1>3, <1>5, <1>11, AtSyn, Zenon
    <3> QED
      BY <3>1, Zenon DEF InStep
  <2>3. \A j \in 1..MaxReports :
          /\ Taken(d) + 1 # 2 * j - 1
          /\ 2 * j <= Taken(d) + 1 => j <= k /\ (j = k \/ 2 * j <= Taken(d))
    BY <1>3, <1>5, <1>11, AtSyn, Zenon
  <2>4. k <= emitted[d]
    BY <1>3, <1>5, <1>11, AtSyn, Zenon
  <2>5. mEnabled[d] /\ k > mEnabledTime[d] => delivers
    <3>1. \A e1, m, n \in Nat : \A j \in 1..n : j <= e1 /\ j > m => e1 >= m
      OBVIOUS
    <3> QED
      BY <1>3, <2>1, <2>2, <2>4, <3>1, Zenon DEF Delivers
  <2>6. delivers => last'[d] = k
    BY <1>2, <2>2, Zenon
  <2>7. ~delivers => last'[d] = last[d]
    BY <1>2, Zenon
  <2> HIDE DEF delivers
  <2>8. ASSUME mEnabled[d], ~(c.pc = "time" /\ c.d = d), NEW j \in 1..MaxReports,
               2 * j <= Taken(d) + 1, j > mEnabledTime[d]
        PROVE  j <= last'[d]
    <3>1. CASE delivers
      BY <2>3, <2>6, <2>8, <3>1, Zenon
    <3>2. CASE ~delivers
      <4>1. j # k
        BY <2>5, <2>8, <3>2, Zenon
      <4>2. j <= last[d]
        BY <2>3, <2>8, <4>1, Zenon DEF InStep
      <4> QED
        BY <2>7, <3>2, <4>2, Zenon
    <3> QED
      BY <3>1, <3>2, Zenon
  <2>9. \A j \in 1..MaxReports : Taken(d)' = 2 * j - 1 => complete'[d] /\ timestamp'[d] = j
    BY <1>6, <2>3, Zenon
  <2>10. mEnabled'[d] /\ ~(c'.pc = "time" /\ c'.d = d) =>
           \A j \in 1..MaxReports : 2 * j <= Taken(d)' /\ j > mEnabledTime'[d] => j <= last'[d]
    BY <1>1, <1>6, <2>8, Zenon
  <2> QED
    BY <1>8, <2>9, <2>10, Zenon DEF InStep
<1> QED
  BY <1>9, <1>10, <1>11, Zenon

LEMMA InStepKept ==
  ASSUME TypeOK, AllInStep, [Next]_vars
  PROVE  AllInStep'
<1>1. SUFFICES ASSUME NEW d \in Drivers PROVE InStep(d)'
  BY Zenon DEF AllInStep
<1>2. InStep(d)
  BY DEF AllInStep
<1>3. /\ emitted \in [Drivers -> 0..MaxReports] /\ dev \in [Drivers -> Seq(Events)]
      /\ reader \in [Drivers -> Seq(Events)] /\ complete \in [Drivers -> BOOLEAN]
      /\ timestamp \in [Drivers -> Nat] /\ last \in [Drivers -> Nat]
      /\ mEnabled \in [Drivers -> BOOLEAN] /\ mEnabledTime \in [Drivers -> Nat]
      /\ c \in CallThreads
  BY Zenon DEF TypeOK, FieldsOK, QueuesOK
<1>4. CASE UNCHANGED <<emitted, dev, readVars, driverVars, c>>
  BY <1>2, <1>4, DriverSame, Zenon DEF readVars, driverVars
<1>5. ASSUME NEW e \in Drivers, Report(e) PROVE InStep(d)'
  <2>1. CASE e = d
    BY <1>2, <1>5, <2>1, ReportKeeps, SMTT(30)
  <2>2. CASE e # d
    BY <1>2, <1>3, <1>5, <2>2, DriverSame, Zenon DEF Report, readVars, driverVars,
       callVars
  <2> QED
    BY <2>1, <2>2, Zenon
<1>6. ASSUME NEW e \in Drivers, Fill(e) PROVE InStep(d)'
  <2>1. CASE e = d
    BY <1>2, <1>6, <2>1, FillKeeps
  <2>2. CASE e # d
    <3>1. UNCHANGED <<emitted, timestamp, complete, last, mEnabled, mEnabledTime, c>>
      BY <1>6, Zenon DEF Fill, pollUnchanged, driverVars, callVars
    <3>2. reader'[d] = reader[d] /\ dev'[d] = dev[d]
      BY <1>3, <1>6, <2>2, Zenon DEF Fill
    <3> QED
      BY <1>2, <3>1, <3>2, DriverSame, Zenon
  <2> QED
    BY <2>1, <2>2
<1>7. ASSUME NEW e \in Drivers, TakeEvent(e) PROVE InStep(d)'
  <2>1. CASE e = d
    BY <1>2, <1>7, <2>1, TakeKeeps
  <2>2. CASE e # d
    <3>1. UNCHANGED <<emitted, dev, mEnabled, mEnabledTime, c>>
      BY <1>7 DEF TakeEvent, pollUnchanged, driverVars, callVars
    <3>2. /\ reader'[d] = reader[d] /\ timestamp'[d] = timestamp[d]
          /\ complete'[d] = complete[d] /\ last'[d] = last[d]
      BY <1>3, <1>7, <2>2, SMTT(30) DEF TakeEvent
    <3> QED
      BY <1>2, <3>1, <3>2, DriverSame, Zenon
  <2> QED
    BY <2>1, <2>2
<1>8. ASSUME NEW e \in Drivers, ActivateBegins(e) PROVE InStep(d)'
  <2>1. UNCHANGED <<emitted, dev, reader, timestamp, complete, last, mEnabledTime>>
    BY <1>8 DEF ActivateBegins, readVars, kernelVars
  <2>2. c.pc = "idle" /\ c'.pc = "time" /\ c'.d = e /\ (d # e => mEnabled'[d] = mEnabled[d])
    BY <1>3, <1>8, Zenon DEF ActivateBegins, CallThreads
  <2> QED
    BY <1>2, <2>1, <2>2, DriverSame, Zenon
<1>9. ASSUME NEW e \in Drivers, DeactivateBegins(e) PROVE InStep(d)'
  <2>1. UNCHANGED <<emitted, dev, reader, timestamp, complete, last, mEnabledTime>>
    BY <1>9 DEF DeactivateBegins, readVars, kernelVars
  <2>2. c.pc = "idle" /\ (d # e => mEnabled'[d] = mEnabled[d]) /\ (d = e => ~mEnabled'[d])
    BY <1>3, <1>9, Zenon DEF DeactivateBegins
  <2> QED
    BY <1>2, <2>1, <2>2, DriverSame, Zenon
<1>10. ASSUME NEW e \in Drivers, FlushLoads(e) PROVE InStep(d)'
  <2>1. UNCHANGED <<emitted, dev, reader, timestamp, complete, last, mEnabledTime, mEnabled>>
        /\ c.pc = "idle"
    BY <1>10, Zenon DEF FlushLoads, readVars, kernelVars, driverVars
  <2> QED
    BY <1>2, <2>1, DriverSame, Zenon
<1>11. CASE EnableWritesTime
  <2>1. UNCHANGED <<emitted, dev, reader, timestamp, complete, last, mEnabled>>
    BY <1>11, Zenon DEF EnableWritesTime, readVars, kernelVars
  <2>2. /\ d # c.d => mEnabledTime'[d] = mEnabledTime[d]
        /\ d = c.d => mEnabledTime'[d] = emitted[d] + Ignore
    BY <1>3, <1>11 DEF EnableWritesTime
  <2>3. emitted[d] + Ignore \in Nat /\ emitted[d] + Ignore >= emitted[d]
    <3>1. emitted[d] \in Nat /\ Ignore \in Nat
      BY DriverTypes, ConstantTypes, Zenon
    <3> QED
      BY <3>1
  <2> QED
    BY <1>2, <2>1, <2>2, <2>3, DriverSame, Zenon
<1>12. CASE EnableSwitchesDevice \/ WriteWake \/ FlushStores \/ FlushSetsPending
  <2>1. UNCHANGED <<emitted, dev, reader, timestamp, complete, last, mEnabledTime, mEnabled>>
        /\ c.pc # "time"
    BY <1>12 DEF EnableSwitchesDevice, WriteWake, FlushStores, FlushSetsPending, readVars,
       kernelVars, driverVars
  <2> QED
    BY <1>2, <2>1, DriverSame, Zenon
<1>13. CASE \/ PollBegins \/ Scan \/ FlushCompletes \/ FlushCountLoads \/ FlushCountStores
            \/ FlushLoopGoesOn \/ FlushLoopEnds \/ FlushClearsPending \/ EventsEnd \/ Poll
  <2>1. UNCHANGED <<emitted, dev, readVars, driverVars, c>>
    BY <1>13, Zenon DEF PollBegins, Scan, FlushCompletes, FlushCountLoads, FlushCountStores,
       FlushLoopGoesOn, FlushLoopEnds, FlushClearsPending, EventsEnd, Poll, pollUnchanged, callVars
  <2> QED
    BY <1>4, <2>1
<1>14. CASE UNCHANGED vars
  BY <1>4, <1>14, Zenon DEF vars, kernelVars, callVars
<1> QED
  BY <1>5, <1>6, <1>7, <1>8, <1>9, <1>10, <1>11, <1>12, <1>13, <1>14, Zenon
  DEF Next, PollThread, CallGoesOn, CallBegins

\* No report that an enabled sensor owes the framework is lost (Acceleration.cpp:325,
\* nusensors.cpp:570): neither where fill() cuts off a read in the middle of a report, nor
\* where the framework's array is full, nor between the two stores of enable().
THEOREM NothingLostHolds == Spec => []NothingLost
<1>1. Init => AllInStep
  <2> SUFFICES ASSUME Init, NEW d \in Drivers PROVE InStep(d)
    BY Zenon DEF AllInStep
  <2>1. emitted[d] = 0 /\ dev[d] = <<>> /\ reader[d] = <<>> /\ ~mEnabled[d]
    BY Zenon DEF Init
  <2>2. Read(d) = 0 /\ Taken(d) = 0
    <3>1. Len(dev[d]) = 0 /\ Len(reader[d]) = 0
      BY <2>1, Zenon
    <3>2. 2 * 0 - 0 = 0 /\ 2 * 0 - 0 - 0 = 0
      BY SMTT(30)
    <3> QED
      BY <2>1, <3>1, <3>2, Zenon DEF Read, Taken
  <2>3. Follows(dev[d], Read(d)) /\ Follows(reader[d], Taken(d))
    <3>1. \A i : i \notin 1..0
      OBVIOUS
    <3>2. Len(dev[d]) = 0 /\ Len(reader[d]) = 0
      BY <2>1, Zenon
    <3> QED
      BY <3>1, <3>2, Zenon DEF Follows
  <2>4. 0 >= 0 /\ \A k \in 1..MaxReports : 0 # 2 * k - 1 /\ ~(2 * k <= 0)
    BY ConstantTypes
  <2> QED
    BY <2>1, <2>2, <2>3, <2>4, Zenon DEF InStep
<1>2. IInv /\ AllInStep /\ [Next]_vars => AllInStep'
  BY InStepKept, Zenon DEF IInv
<1>3. IInv /\ AllInStep => NothingLost
  <2> SUFFICES ASSUME IInv, AllInStep, NEW d \in Drivers,
                      mEnabled[d], ~(c.pc = "time" /\ c.d = d),
                      NEW k \in (mEnabledTime[d] + 1)..emitted[d], ~(k <= last[d])
               PROVE  \E q \in {dev[d], reader[d]} : \E i \in 1..Len(q) : q[i] = <<"SYN", k>>
    BY Zenon DEF NothingLost
  <2>1. /\ emitted[d] \in 0..MaxReports /\ MaxReports \in Nat /\ mEnabledTime[d] \in Nat
        /\ Len(dev[d]) \in Nat /\ Len(reader[d]) \in Nat /\ Taken(d) \in Int
        /\ Read(d) = Taken(d) + Len(reader[d]) /\ Read(d) = 2 * emitted[d] - Len(dev[d])
    BY DriverTypes, Zenon DEF IInv, Read
  <2>2. k \in 1..MaxReports /\ k > mEnabledTime[d] /\ k <= emitted[d]
    <3>1. \A e, m, n \in Nat : \A j \in (m + 1)..e :
            e \in 0..n => j \in 1..n /\ j > m /\ j <= e
      OBVIOUS
    <3>2. emitted[d] \in Nat
      BY DriverTypes, Zenon DEF IInv
    <3> QED
      BY <2>1, <3>1, <3>2, Zenon
  <2>3. InStep(d)
    BY Zenon DEF AllInStep
  <2>4. 2 * k > Taken(d)
    <3>1. ~(2 * k <= Taken(d))
      BY <2>2, <2>3, Zenon DEF InStep
    <3>2. \A n \in Nat : \A j \in 1..n : \A t \in Int : 2 * j <= t \/ 2 * j > t
      OBVIOUS
    <3> QED
      BY <2>1, <2>2, <3>1, <3>2, Zenon
  <2>5. CASE 2 * k <= Read(d)
    <3>1. 2 * k - Taken(d) \in 1..Len(reader[d]) /\ Taken(d) + (2 * k - Taken(d)) = 2 * k
      <4>1. \A l, n \in Nat : \A j \in 1..n : \A t, r \in Int :
              r = t + l /\ 2 * j > t /\ 2 * j <= r =>
                2 * j - t \in 1..l /\ t + (2 * j - t) = 2 * j
        OBVIOUS
      <4>2. Read(d) \in Int
        BY DriverTypes, Zenon DEF IInv
      <4> QED
        BY <2>1, <2>2, <2>4, <2>5, <4>1, <4>2, Zenon
    <3>2. reader[d][2 * k - Taken(d)] = <<"SYN", k>>
      BY <2>2, <2>3, <3>1, Zenon DEF InStep, Follows
    <3> QED
      BY <3>1, <3>2, Zenon
  <2>6. CASE 2 * k > Read(d)
    <3>1. 2 * k - Read(d) \in 1..Len(dev[d]) /\ Read(d) + (2 * k - Read(d)) = 2 * k
      <4>1. \A e, l \in Nat : \A n, j \in Int :
              n = 2 * e - l /\ j <= e /\ 2 * j > n =>
                2 * j - n \in 1..l /\ n + (2 * j - n) = 2 * j
        BY SMTT(30)
      <4>2. /\ emitted[d] \in Nat /\ Len(dev[d]) \in Nat /\ Read(d) \in Int
            /\ Read(d) = 2 * emitted[d] - Len(dev[d])
        BY DriverTypes, Zenon DEF IInv, Read
      <4>3. k \in Int
        BY <2>2, SMTT(30)
      <4> QED
        BY <2>2, <2>6, <4>1, <4>2, <4>3, Zenon
    <3>2. dev[d][2 * k - Read(d)] = <<"SYN", k>>
      BY <2>2, <2>3, <3>1, Zenon DEF InStep, Follows
    <3> QED
      BY <3>1, <3>2, Zenon
  <2> QED
    <3>1. \A n \in Nat : \A j \in 1..n : \A t \in Int : 2 * j <= t \/ 2 * j > t
      OBVIOUS
    <3>2. Read(d) \in Int
      BY DriverTypes, Zenon DEF IInv
    <3> QED
      BY <2>1, <2>2, <2>5, <2>6, <3>1, <3>2, Zenon
<1> QED
  BY <1>1, <1>2, <1>3, Invariance, PTL DEF Spec
=============================================================================
