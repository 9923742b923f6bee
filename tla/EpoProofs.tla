----------------------------- MODULE EpoProofs -----------------------------
(***************************************************************************)
(* Theorems about Epo, for any number of days and editions, any limits and *)
(* any capacities of the sockets.                                          *)
(***************************************************************************)
EXTENDS Epo, TLAPS

Editions == {Short} \cup 1..LastEdition
Files == Seq([n : 0..9, edition : Editions])
Disk == [0..9 -> {Short} \cup 0..LastEdition]
EpoRecords ==
  [pc : {"wait", "loop"}, updated : BOOLEAN, failed : BOOLEAN,
   count : 0..9, retry : BOOLEAN, delay : 0..DelayLimit,
   file_retrying : 0..9 \cup {NoFile}, retry_time : 0..RetryLimit]
QepoFiles == {"none", "valid", "other", "broken"}
QepoRecords ==
  [pc : {"wait", "try"}, left : 0..TryLimit, res : BOOLEAN, stale : BOOLEAN, file : QepoFiles]
Messages == {"EPO", "QEPO"} \X {"SUCCESS", "FAIL"}
MainQueue == {q \in Seq(Messages) : Len(q) <= MainCap}
Networks == [connected : BOOLEAN, wifi : BOOLEAN]
Sessions == {"off", "starting", "started"}
Answers == ({"idle", "waiting"} \X {"none"}) \cup ({"SUCCESS", "FAIL"} \X Responses)

\* The invariant that FilesInOrder needs.  No file has a piece of an edition that
\* is still to come.  While the EPO thread is in its loop, EPOHAL.DAT has as many
\* pieces as the counter says, and the last piece on disk is of their edition; that
\* is what the test for a new edition compares with.
NotNewer(file) == \A i \in 1..Len(file) : file[i].edition <= server
Resumable(e, file, disk) ==
  e.count > 0 => Len(file) = e.count /\ disk[e.count - 1] = file[1].edition
FilesKept ==
  ~ShortReplies =>
    /\ InOrder(hal) /\ InOrder(dat) /\ NotNewer(hal) /\ NotNewer(dat)
    /\ epo.pc = "loop" => Resumable(epo, hal, piece)

IInv == TypeOK /\ OneDownload /\ FilesKept

-----------------------------------------------------------------------------
(* Types. *)

LEMMA ConstantTypes ==
  /\ Days \in Nat /\ LastEdition \in Nat \ {0} /\ RetryLimit \in Nat /\ DelayLimit \in Nat
  /\ TryLimit \in Nat /\ MaxRequests \in Nat /\ EpoCap \in Nat \ {0} /\ MainCap \in Nat \ {0}
  /\ ShortReplies \in BOOLEAN
BY EpoConstants

\* The type invariant with a name for each set, of a state and of its successor.
Typed ==
  /\ net \in Networks /\ gps \in Sessions
  /\ downloading \in BOOLEAN /\ armed \in BOOLEAN /\ lost \in BOOLEAN
  /\ mainq \in MainQueue /\ epoq \in 0..EpoCap /\ qepoq \in 0..EpoCap
  /\ epo \in EpoRecords /\ hal \in Files /\ dat \in Files /\ piece \in Disk
  /\ server \in 1..LastEdition
  /\ qepo \in QepoRecords /\ told \in Answers /\ asked \in 0..MaxRequests

LEMMA Types == TypeOK => Typed
BY DEF TypeOK, Typed, Networks, Sessions, MainQueue, Messages, EpoRecords, Files, Editions,
   Disk,
   QepoRecords, QepoFiles, Answers

LEMMA TypesBack == Typed => TypeOK
BY DEF TypeOK, Typed, Networks, Sessions, MainQueue, Messages, EpoRecords, Files, Editions,
   Disk,
   QepoRecords, QepoFiles, Answers

LEMMA TypesNext == Typed' => TypeOK'
BY DEF TypeOK, Typed, Networks, Sessions, MainQueue, Messages, EpoRecords, Files, Editions,
   Disk,
   QepoRecords, QepoFiles, Answers

LEMMA ElementOfSeq ==
  ASSUME NEW S, NEW s \in Seq(S), NEW i \in 1..Len(s)
  PROVE  s[i] \in S
OBVIOUS

LEMMA AppendType ==
  ASSUME NEW file \in Files, NEW k \in 0..9, NEW e \in Editions
  PROVE  Append(file, Piece(k, e)) \in Files
<1>1. Piece(k, e) \in [n : 0..9, edition : Editions]
  BY DEF Piece
<1> QED
  BY <1>1 DEF Files

\* What a fetch leaves behind is well typed, and the thread stays in its loop.
Outcomes == [epo : {e \in EpoRecords : e.pc = "loop"}, hal : Files, piece : Disk]
LEMMA OutcomeType ==
  ASSUME NEW e \in {x \in EpoRecords : x.pc = "loop"}, NEW file \in Files, NEW disk \in Disk
  PROVE  Outcome(e, file, disk) \in Outcomes
BY DEF Outcome, Outcomes

LEMMA FetchType ==
  ASSUME Typed, NEW e \in EpoRecords, e.pc = "loop", e.count = epo.count,
         NEW o \in mtk_gps_epo_file_update(e)
  PROVE  o \in Outcomes
<1>1. /\ hal \in Files /\ piece \in Disk /\ server \in 1..LastEdition /\ epo.count \in 0..9
      /\ e.count \in 0..9 /\ Short \in Editions /\ server \in Editions
  BY ConstantTypes DEF Typed, EpoRecords, Editions, Short
<1>2. << >> \in Files
  BY DEF Files
<1>3. \A ed \in Editions : Appended(Piece(e.count, ed)) \in Files
  BY <1>1, <1>2, AppendType, Zenon DEF Appended
<1>4. \A ed \in {0} \cup Editions : [piece EXCEPT ![e.count] = ed] \in Disk
  <2>1. {0} \cup Editions \subseteq {Short} \cup 0..LastEdition
    BY ConstantTypes DEF Editions
  <2> QED
    BY <1>1, <2>1 DEF Disk
<1>5. \A f \in BOOLEAN : /\ [e EXCEPT !.failed = f] \in EpoRecords
                         /\ [e EXCEPT !.failed = f].pc = "loop"
  BY DEF EpoRecords
<1>6. CASE o \in FetchFailures(e)
  <2>1. o = Outcome([e EXCEPT !.failed = TRUE], hal, [piece EXCEPT ![e.count] = 0])
        \/ o = Outcome([e EXCEPT !.failed = TRUE], Appended(Piece(e.count, Short)),
                       [piece EXCEPT ![e.count] = Short])
    BY <1>6 DEF FetchFailures
  <2>2. [e EXCEPT !.failed = TRUE] \in {x \in EpoRecords : x.pc = "loop"}
    BY <1>5, Zenon
  <2>3. 0 \in {0} \cup Editions /\ Short \in {0} \cup Editions
    BY <1>1
  <2>4. Appended(Piece(e.count, Short)) \in Files
    BY <1>1, <1>3
  <2>5. [piece EXCEPT ![e.count] = 0] \in Disk /\ [piece EXCEPT ![e.count] = Short] \in Disk
    BY <2>3, <1>4, Zenon
  <2> QED
    BY <2>1, <2>2, <2>4, <2>5, OutcomeType, <1>1
<1>7. CASE o = Fetched(e) /\ IsChanged(server)
  <2>1. [e EXCEPT !.count = 0] \in EpoRecords /\ [e EXCEPT !.count = 0].pc = "loop"
    BY DEF EpoRecords
  <2>2. [m \in 0..9 |-> IF m <= e.count THEN 0 ELSE piece[m]] \in Disk
    BY <1>1, ConstantTypes DEF Disk
  <2> QED
    BY <2>1, <2>2, <1>2, <1>7, Zenon DEF Fetched, Outcome, Outcomes
<1>8. CASE o = Fetched(e) /\ ~IsChanged(server) /\ ~Complete(e.count + 1)
  <2>1. [e EXCEPT !.count = e.count + 1] \in EpoRecords
        /\ [e EXCEPT !.count = e.count + 1].pc = "loop"
    BY <1>1, <1>8 DEF EpoRecords, Complete
  <2> QED
    BY <2>1, <1>1, <1>3, <1>4, <1>8, Zenon DEF Fetched, Outcome, Outcomes
<1>9. CASE o = Fetched(e) /\ ~IsChanged(server) /\ Complete(e.count + 1)
  <2> DEFINE d == [e EXCEPT !.count = 0, !.updated = FALSE, !.failed = FALSE]
             disk == [m \in 0..9 |-> IF m < CountTemp THEN 0
                                     ELSE [piece EXCEPT ![e.count] = server][m]]
  <2>1. d \in EpoRecords /\ d.pc = "loop"
    <3>1. 0 \in 0..9 /\ FALSE \in BOOLEAN
      OBVIOUS
    <3> QED
      BY <3>1, Zenon DEF EpoRecords
  <2>2. disk \in Disk
    BY <1>1, <1>4, ConstantTypes DEF Disk
  <2>3. o = Outcome(d, Appended(Piece(e.count, server)), disk)
    BY <1>9 DEF Fetched
  <2> HIDE DEF d, disk
  <2> QED
    BY <2>1, <2>2, <2>3, <1>1, <1>3 DEF Outcome, Outcomes
<1> QED
  BY <1>6, <1>7, <1>8, <1>9 DEF mtk_gps_epo_file_update

LEMMA RetryType ==
  ASSUME NEW e \in EpoRecords, NEW before
  PROVE  /\ RetryAccounted(before, e) \in EpoRecords
         /\ RetryAccounted(before, e).pc = e.pc
         /\ RetryAccounted(before, e).count = e.count
<1>1. CASE before # e.count
  BY <1>1 DEF RetryAccounted
<1>2. CASE before = e.count
  <2> DEFINE n == IF e.file_retrying = e.count THEN e.retry_time + 1 ELSE 0
  <2>1. CASE n < RetryLimit
    <3>1. n \in 0..RetryLimit
      BY <2>1, ConstantTypes DEF EpoRecords
    <3>2. RetryAccounted(before, e) =
            [e EXCEPT !.file_retrying = e.count, !.retry_time = n, !.retry = FALSE]
      BY <1>2, <2>1 DEF RetryAccounted
    <3> HIDE DEF n
    <3>3. e.count \in 0..9 \cup {NoFile} /\ FALSE \in BOOLEAN
      BY DEF EpoRecords
    <3> QED
      BY <3>1, <3>2, <3>3, ZenonT(30) DEF EpoRecords
  <2>2. CASE ~(n < RetryLimit)
    <3>1. RetryAccounted(before, e) =
            [e EXCEPT !.file_retrying = NoFile, !.retry_time = 0, !.failed = FALSE, !.delay = 0]
      BY <1>2, <2>2 DEF RetryAccounted
    <3>2. 0 \in 0..RetryLimit /\ 0 \in 0..DelayLimit /\ NoFile \in 0..9 \cup {NoFile}
          /\ FALSE \in BOOLEAN
      BY ConstantTypes
    <3> QED
      BY <3>1, <3>2, ZenonT(30) DEF EpoRecords
  <2> QED
    BY <2>1, <2>2
<1> QED
  BY <1>1, <1>2

LEMMA RetriesType ==
  ASSUME Typed, epo.pc = "loop", NEW o \in Retries
  PROVE  o \in Outcomes
<1> DEFINE e == [epo EXCEPT !.file_retrying = IF @ = NoFile THEN epo.count ELSE @]
<1>1. e \in EpoRecords /\ e.pc = "loop" /\ e.count = epo.count
  BY DEF Typed, EpoRecords
<1> HIDE DEF e
<1>2. CASE o \in mtk_gps_epo_file_update(e)
  BY <1>1, <1>2, FetchType
<1>3. CASE o = Outcome([e EXCEPT !.failed = FALSE, !.count = 0, !.updated = TRUE, !.delay = 0],
                       <<>>, piece)
  <2>1. /\ 0 \in 0..9 /\ 0 \in 0..DelayLimit /\ FALSE \in BOOLEAN /\ TRUE \in BOOLEAN
        /\ << >> \in Files /\ piece \in Disk
    BY ConstantTypes DEF Typed, Files
  <2> DEFINE d == [e EXCEPT !.failed = FALSE, !.count = 0, !.updated = TRUE, !.delay = 0]
  <2>2. d \in EpoRecords /\ d.pc = "loop"
    BY <1>1, <2>1, Zenon DEF EpoRecords
  <2> HIDE DEF d
  <2>3. d \in {x \in EpoRecords : x.pc = "loop"}
    BY <2>2
  <2> QED
    BY <1>3, <2>1, <2>3, OutcomeType, Zenon DEF d
<1> QED
  BY <1>2, <1>3 DEF Retries, e

LEMMA TriggerType ==
  ASSUME Typed, NEW allowed, TriggerDownload(allowed)
  PROVE  /\ epo' \in EpoRecords
         /\ (epo' = [epo EXCEPT !.count = 0] /\ ~downloading) \/ epo' = epo
         /\ downloading' \in BOOLEAN /\ epoq' \in 0..EpoCap /\ lost' \in BOOLEAN
<1>1. epo \in EpoRecords /\ epo.count \in 0..9
  BY DEF Typed, EpoRecords
<1>2. (epo' = [epo EXCEPT !.count = 0] /\ ~downloading) \/ epo' = epo
  <2>1. epo = [epo EXCEPT !.count = epo.count]
    BY <1>1 DEF EpoRecords
  <2> QED
    BY <2>1 DEF TriggerDownload, ExpiryTested
<1>3. [epo EXCEPT !.count = 0] \in EpoRecords
  BY <1>1 DEF EpoRecords
<1>4. epo' \in EpoRecords
  BY <1>1, <1>2, <1>3
<1>5. downloading' \in BOOLEAN /\ lost' \in BOOLEAN
  BY Zenon DEF Typed, TriggerDownload, BeginDownload, epo_downloader_start
<1>6. epoq' \in 0..EpoCap
  BY ConstantTypes DEF Typed, TriggerDownload, BeginDownload, epo_downloader_start
<1> QED
  BY <1>2, <1>4, <1>5, <1>6

\* What queues of completions share.
LEMMA QueueType ==
  ASSUME NEW q \in MainQueue
  PROVE  /\ q \in Seq(Messages) /\ Len(q) \in Nat /\ Len(q) <= MainCap
         /\ \A m \in Messages : Len(q) < MainCap => Append(q, m) \in MainQueue
         /\ q # <<>> => /\ Tail(q) \in MainQueue /\ Head(q) \in Messages /\ Head(q) = q[1]
                        /\ Len(Tail(q)) = Len(q) - 1
                        /\ \A i \in 1..Len(Tail(q)) : Tail(q)[i] = q[i + 1]
<1>1. q \in Seq(Messages) /\ Len(q) \in Nat /\ Len(q) <= MainCap
  BY DEF MainQueue
<1>2. ASSUME NEW m \in Messages, Len(q) < MainCap
      PROVE  Append(q, m) \in MainQueue
  <2>1. Append(q, m) \in Seq(Messages) /\ Len(Append(q, m)) = Len(q) + 1
    BY <1>1
  <2> QED
    BY <1>1, <1>2, <2>1, ConstantTypes DEF MainQueue
<1>3. ASSUME q # <<>>
      PROVE  /\ Tail(q) \in MainQueue /\ Head(q) \in Messages /\ Head(q) = q[1]
             /\ Len(Tail(q)) = Len(q) - 1
             /\ \A i \in 1..Len(Tail(q)) : Tail(q)[i] = q[i + 1]
  <2>1. /\ Tail(q) \in Seq(Messages) /\ Head(q) \in Messages /\ Head(q) = q[1]
        /\ Len(Tail(q)) = Len(q) - 1
        /\ \A i \in 1..Len(Tail(q)) : Tail(q)[i] = q[i + 1]
    BY <1>1, <1>3
  <2> QED
    BY <1>1, <2>1, ConstantTypes DEF MainQueue
<1> QED
  BY <1>1, <1>2, <1>3

LEMMA SendType ==
  ASSUME Typed, NEW m \in Messages, SendMain(m)
  PROVE  mainq' \in MainQueue /\ lost' \in BOOLEAN
<1>1. mainq' \in MainQueue
  BY QueueType, Zenon DEF Typed, SendMain
<1>2. lost' \in BOOLEAN
  BY Zenon DEF Typed, SendMain
<1> QED
  BY <1>1, <1>2

LEMMA QepoTriedType ==
  ASSUME qepo \in QepoRecords, NEW stale \in BOOLEAN, NEW q \in QepoTried(stale)
  PROVE  q \in QepoRecords
<1>1. PICK d \in QepoDownloads :
        q = [qepo EXCEPT !.res = d[1], !.file = d[2],
                         !.stale = IF d[2] = "other" THEN stale ELSE @]
  BY Zenon DEF QepoTried
<1>2. d[1] \in BOOLEAN /\ d[2] \in QepoFiles
  <2>1. qepo.res \in BOOLEAN /\ qepo.file \in QepoFiles
    BY DEF QepoRecords
  <2>2. CASE d = <<qepo.res, qepo.file>>
    BY <2>1, <2>2
  <2>3. CASE d = <<FALSE, "broken">>
    BY <2>3 DEF QepoFiles
  <2>4. CASE d \in {TRUE} \X {"valid", "other", "broken"}
    BY <2>4, Zenon DEF QepoFiles
  <2> QED
    BY <2>2, <2>3, <2>4, Zenon DEF QepoDownloads
<1>3. (IF d[2] = "other" THEN stale ELSE qepo.stale) \in BOOLEAN
  BY DEF QepoRecords
<1> QED
  BY <1>1, <1>2, <1>3, Zenon DEF QepoRecords

-----------------------------------------------------------------------------
(* Every step keeps the types. *)

LEMMA MainTypes ==
  ASSUME Typed,
         \/ \E c, w \in BOOLEAN : hal_update_network_state(c, w)
         \/ hal_gps_start \/ GpsStarts \/ GpsStops \/ TakeEpoDone
  PROVE  Typed'
<1>1. ASSUME NEW c \in BOOLEAN, NEW w \in BOOLEAN, hal_update_network_state(c, w)
      PROVE  Typed'
  <2>1. /\ epo' \in EpoRecords /\ downloading' \in BOOLEAN /\ epoq' \in 0..EpoCap
        /\ lost' \in BOOLEAN
    BY <1>1, TriggerType DEF hal_update_network_state
  <2>2. net' \in Networks
    BY <1>1 DEF hal_update_network_state, Networks
  <2> QED
    BY <1>1, <2>1, <2>2 DEF Typed, hal_update_network_state, qepoVars
<1>2. CASE hal_gps_start
  <2>1. /\ epo' \in EpoRecords /\ downloading' \in BOOLEAN /\ epoq' \in 0..EpoCap
        /\ lost' \in BOOLEAN
    BY <1>2, TriggerType, Zenon DEF hal_gps_start
  <2>2. gps' \in Sessions
    BY <1>2 DEF Typed, hal_gps_start, Sessions
  <2> QED
    BY <1>2, <2>1, <2>2 DEF Typed, hal_gps_start, qepoVars
<1>3. CASE GpsStarts
  BY <1>3 DEF Typed, GpsStarts, AgentUpdatesFile, Sessions, epoVars, qepoVars
<1>4. CASE GpsStops
  BY <1>4 DEF Typed, GpsStops, Sessions, epoVars, qepoVars
<1>5. CASE TakeEpoDone
  <2>1. mainq' \in MainQueue
    BY <1>5, QueueType DEF Typed, TakeEpoDone
  <2>2. << >> \in Files
    BY DEF Files
  <2> QED
    BY <1>5, <2>1, <2>2, Zenon DEF Typed, TakeEpoDone, qepoVars
<1> QED
  BY <1>1, <1>2, <1>3, <1>4, <1>5

LEMMA EpoTypes ==
  ASSUME Typed, EpoTake \/ EpoLoop \/ retry_alarm_timeout_handler
  PROVE  Typed'
<1>0. /\ 0 \in 0..9 /\ 0 \in 0..DelayLimit /\ TRUE \in BOOLEAN /\ FALSE \in BOOLEAN
      /\ << >> \in Files
  BY ConstantTypes DEF Files
<1>1. CASE EpoTake
  <2>1. epo' = [epo EXCEPT !.pc = "loop", !.updated = TRUE, !.failed = FALSE, !.count = 0]
    BY <1>1 DEF EpoTake
  <2>2. epo' \in EpoRecords
    BY <1>0, <2>1, Zenon DEF Typed, EpoRecords
  <2>3. epoq' \in 0..EpoCap
    BY <1>1, ConstantTypes, SMTT(30) DEF Typed, EpoTake
  <2> QED
    BY <1>0, <1>1, <2>2, <2>3 DEF Typed, EpoTake, qepoVars
<1>2. CASE EpoFetches
  <2> DEFINE e == [epo EXCEPT !.failed = FALSE]
  <2>1. PICK o \in mtk_gps_epo_file_update(e) :
          Becomes([o.epo EXCEPT !.updated = @ /\ ~o.epo.failed], o)
    BY <1>2, Zenon DEF EpoFetches
  <2>2. e \in EpoRecords /\ e.pc = "loop" /\ e.count = epo.count
    BY <1>2, Zenon DEF Typed, EpoRecords, EpoFetches, EpoPolls
  <2> HIDE DEF e
  <2>3. o \in Outcomes
    BY <2>2, FetchType
  <2>4. o.epo \in EpoRecords /\ o.hal \in Files /\ o.piece \in Disk
    BY <2>3 DEF Outcomes
  <2>5. (o.epo.updated /\ ~o.epo.failed) \in BOOLEAN
    OBVIOUS
  <2>6. epo' \in EpoRecords
    BY <2>1, <2>4, <2>5, Zenon DEF Becomes, EpoRecords
  <2> QED
    BY <1>2, <2>1, <2>4, <2>6 DEF Typed, EpoFetches, Becomes, qepoVars
<1>3. CASE EpoRetries
  <2>1. PICK o \in Retries :
          /\ Becomes(RetryAccounted(epo.count, o.epo), o)
          /\ armed' = (armed \/ ~RetryAccounted(epo.count, o.epo).retry)
    BY <1>3 DEF EpoRetries
  <2>2. o \in Outcomes
    BY <1>3, RetriesType DEF EpoRetries, EpoPolls
  <2>3. o.epo \in EpoRecords /\ o.hal \in Files /\ o.piece \in Disk
    BY <2>2 DEF Outcomes
  <2>4. epo' \in EpoRecords
    BY <2>1, <2>3, RetryType DEF Becomes
  <2>5. armed' \in BOOLEAN
    BY <2>1
  <2> QED
    BY <1>3, <2>1, <2>3, <2>4, <2>5 DEF Typed, EpoRetries, Becomes, qepoVars
<1>4. CASE EpoWaits
  <2>1. [epo EXCEPT !.failed = FALSE, !.delay = 0] \in EpoRecords
    BY <1>0, Zenon DEF Typed, EpoRecords
  <2>2. epo.delay < DelayLimit => [epo EXCEPT !.delay = @ + 1] \in EpoRecords
    BY ConstantTypes DEF Typed, EpoRecords
  <2>3. epo.delay \in Nat
    BY DEF Typed, EpoRecords
  <2>4. Delayed(epo) \in EpoRecords
    BY <2>1, <2>2, <2>3, ConstantTypes DEF Delayed
  <2>5. epo' \in EpoRecords
    BY <1>4, <2>1, <2>4 DEF EpoWaits
  <2> QED
    BY <1>4, <2>5 DEF Typed, EpoWaits, qepoVars
<1>5. CASE EpoEnds
  <2>1. epo' \in EpoRecords
    BY <1>5 DEF Typed, EpoEnds, EpoRecords
  <2>2. mainq' \in MainQueue /\ lost' \in BOOLEAN
    <3>1. <<"EPO", IF epo.count # 0 THEN "FAIL" ELSE "SUCCESS">> \in Messages
      BY DEF Messages
    <3> QED
      BY <1>5, <3>1, SendType DEF EpoEnds
  <2> QED
    BY <1>5, <2>1, <2>2 DEF Typed, EpoEnds, qepoVars
<1>6. CASE retry_alarm_timeout_handler
  <2>1. epo' \in EpoRecords
    BY <1>0, <1>6, Zenon DEF Typed, EpoRecords, retry_alarm_timeout_handler
  <2> QED
    BY <1>6, <2>1, Zenon DEF Typed, retry_alarm_timeout_handler, qepoVars
<1> QED
  BY <1>1, <1>2, <1>3, <1>4, <1>5, <1>6 DEF EpoLoop

LEMMA QepoTypes ==
  ASSUME Typed, TakeQepoDone \/ MnlRequestsQepo \/ QepoTake \/ QepoTries
  PROVE  Typed'
<1>0. qepo \in QepoRecords /\ TryLimit \in 0..TryLimit
  BY ConstantTypes DEF Typed
<1>1. CASE TakeQepoDone
  <2>1. mainq' \in MainQueue /\ Head(mainq) \in Messages
    BY <1>1, QueueType DEF Typed, TakeQepoDone
  <2>2. qepo' \in QepoRecords
    BY <1>0, <1>1 DEF TakeQepoDone, QepoRecords, QepoFiles
  <2>3. Head(mainq)[2] \in {"SUCCESS", "FAIL"}
    BY <2>1 DEF Messages
  <2>4. told' \in Answers
    <3>1. CASE told' = Idle
      BY <3>1 DEF Idle, Answers
    <3>2. CASE \E r \in QepoResponse(Head(mainq)[2]) : told' = <<Head(mainq)[2], r>>
      BY <2>3, <3>2 DEF QepoResponse, Responses, Answers
    <3> QED
      BY <1>1, <3>1, <3>2 DEF TakeQepoDone
  <2> QED
    BY <1>1, <2>1, <2>2, <2>4 DEF Typed, TakeQepoDone, epoVars
<1>2. CASE MnlRequestsQepo
  <2>1. qepo' \in QepoRecords
    BY <1>0, <1>2 DEF MnlRequestsQepo, QepoRecords, QepoFiles
  <2>2. lost' \in BOOLEAN
    BY <1>2 DEF MnlRequestsQepo
  <2>3. qepoq' \in 0..EpoCap /\ asked' \in 0..MaxRequests
    BY <1>2, ConstantTypes DEF Typed, MnlRequestsQepo
  <2>4. told' \in Answers
    BY <1>2 DEF MnlRequestsQepo, Waiting, Answers
  <2> QED
    BY <1>2, <2>1, <2>2, <2>3, <2>4 DEF Typed, MnlRequestsQepo, epoVars
<1>3. CASE QepoTake
  <2>1. qepo' \in QepoRecords
    BY <1>0, <1>3, Zenon DEF QepoTake, QepoRecords
  <2>2. qepoq' \in 0..EpoCap
    BY <1>3, ConstantTypes DEF Typed, QepoTake
  <2> QED
    BY <1>3, <2>1, <2>2 DEF Typed, QepoTake, epoVars
<1>4. CASE QepoTries
  <2> DEFINE done(q) == <<"QEPO", IF q.file = "valid" THEN "SUCCESS" ELSE "FAIL">>
  <2>0. PICK stale \in BOOLEAN : \E q \in QepoTried(stale) :
          \/ q.left > 0 /\ qepo' = [q EXCEPT !.left = @ - 1] /\ UNCHANGED <<mainq, lost>>
          \/ /\ qepo' = [q EXCEPT !.pc = "wait", !.left = TryLimit, !.res = @ /\ ~q.stale]
             /\ SendMain(done(q))
    BY <1>4, Zenon DEF QepoTries
  <2>1. PICK q \in QepoTried(stale) :
          \/ q.left > 0 /\ qepo' = [q EXCEPT !.left = @ - 1] /\ UNCHANGED <<mainq, lost>>
          \/ /\ qepo' = [q EXCEPT !.pc = "wait", !.left = TryLimit, !.res = @ /\ ~q.stale]
             /\ SendMain(done(q))
    BY <2>0, Zenon
  <2>2. q \in QepoRecords
    BY <1>0, QepoTriedType, SMTT(30)
  <2>3. CASE q.left > 0 /\ qepo' = [q EXCEPT !.left = @ - 1] /\ UNCHANGED <<mainq, lost>>
    <3>1. qepo' \in QepoRecords
      BY <2>2, <2>3, ConstantTypes, SMTT(30) DEF QepoRecords
    <3> QED
      BY <1>4, <2>3, <3>1, Zenon DEF Typed, QepoTries, epoVars
  <2>4. CASE /\ qepo' = [q EXCEPT !.pc = "wait", !.left = TryLimit, !.res = @ /\ ~q.stale]
             /\ SendMain(done(q))
    <3>1. (q.res /\ ~q.stale) \in BOOLEAN /\ done(q) \in Messages
      BY DEF Messages
    <3>2. qepo' \in QepoRecords
      BY <1>0, <2>2, <2>4, <3>1, Zenon DEF QepoRecords
    <3>3. mainq' \in MainQueue /\ lost' \in BOOLEAN
      BY <2>4, <3>1, SendType
    <3> QED
      BY <1>4, <3>2, <3>3, Zenon DEF Typed, QepoTries, epoVars
  <2> QED
    BY <2>1, <2>3, <2>4
<1> QED
  BY <1>1, <1>2, <1>3, <1>4

LEMMA InitTypes == Init => Typed
<1>1. SUFFICES ASSUME Init PROVE Typed
  OBVIOUS
<1>2. net \in Networks /\ epo \in EpoRecords /\ qepo \in QepoRecords /\ told \in Answers
  BY <1>1, ConstantTypes DEF Init, Networks, EpoStart, EpoRecords, QepoStart, QepoRecords,
     QepoFiles, Idle, Answers
<1>3. mainq \in MainQueue /\ hal \in Files /\ dat \in Files /\ piece \in Disk
  BY <1>1, ConstantTypes DEF Init, MainQueue, Files, Disk
<1>4. downloading \in BOOLEAN /\ armed \in BOOLEAN /\ lost \in BOOLEAN
  BY <1>1, Zenon DEF Init
<1>5. /\ gps \in Sessions /\ epoq \in 0..EpoCap /\ qepoq \in 0..EpoCap
      /\ server \in 1..LastEdition /\ asked \in 0..MaxRequests
  BY <1>1, ConstantTypes DEF Init, Sessions
<1> QED
  BY <1>2, <1>3, <1>4, <1>5 DEF Typed

LEMMA OtherTypes ==
  ASSUME Typed, ServerUpdates \/ MnldRestarts
  PROVE  Typed'
<1>1. CASE ServerUpdates
  <2>1. server' \in 1..LastEdition
    BY <1>1, ConstantTypes DEF Typed, ServerUpdates
  <2> QED
    BY <1>1, <2>1, Zenon DEF Typed, ServerUpdates, epoVars, qepoVars
<1>2. CASE MnldRestarts
  <2>1. net' \in Networks /\ gps' \in Sessions /\ told' \in Answers
    BY <1>2 DEF MnldRestarts, Networks, Sessions, Idle, Answers
  <2>2. epo' \in EpoRecords
    BY <1>2, ConstantTypes DEF MnldRestarts, EpoStart, EpoRecords
  <2>3. qepo' \in QepoRecords
    <3>1. QepoStart \in QepoRecords /\ qepo.file \in QepoFiles
      BY ConstantTypes DEF Typed, QepoStart, QepoRecords, QepoFiles
    <3>2. qepo' = [QepoStart EXCEPT !.file = qepo.file]
      BY <1>2 DEF MnldRestarts
    <3> QED
      BY <3>1, <3>2 DEF QepoRecords
  <2>4. mainq' \in MainQueue /\ epoq' \in 0..EpoCap /\ qepoq' \in 0..EpoCap
    BY <1>2, ConstantTypes DEF MnldRestarts, MainQueue
  <2> QED
    BY <1>2, <2>1, <2>2, <2>3, <2>4, Zenon DEF Typed, MnldRestarts
<1> QED
  BY <1>1, <1>2

LEMMA StepTypes == Typed /\ [Next]_vars => Typed'
<1>1. SUFFICES ASSUME Typed, [Next]_vars PROVE Typed'
  OBVIOUS
<1>2. CASE UNCHANGED vars
  BY <1>1, <1>2 DEF Typed, vars, epoVars, qepoVars
<1>3. CASE Next
  BY <1>1, <1>3, MainTypes, EpoTypes, QepoTypes, OtherTypes DEF Next
<1> QED
  BY <1>1, <1>2, <1>3

\* Where the EPO thread is changes only when it takes a start or ends its loop.
LEMMA EpoPcKept ==
  ASSUME Typed, EpoFetches \/ EpoRetries \/ EpoWaits \/ retry_alarm_timeout_handler
  PROVE  epo'.pc = epo.pc
<1>1. CASE EpoFetches
  <2> DEFINE e == [epo EXCEPT !.failed = FALSE]
  <2>1. PICK o \in mtk_gps_epo_file_update(e) :
          Becomes([o.epo EXCEPT !.updated = @ /\ ~o.epo.failed], o)
    BY <1>1, Zenon DEF EpoFetches
  <2>2. e \in EpoRecords /\ e.pc = "loop" /\ e.count = epo.count /\ epo.pc = "loop"
    BY <1>1, Zenon DEF Typed, EpoRecords, EpoFetches, EpoPolls
  <2> HIDE DEF e
  <2>3. o.epo \in EpoRecords /\ o.epo.pc = "loop"
    BY <2>2, FetchType DEF Outcomes
  <2> QED
    BY <2>1, <2>2, <2>3 DEF Becomes, EpoRecords
<1>2. CASE EpoRetries
  <2>1. epo.pc = "loop"
    BY <1>2, Zenon DEF EpoRetries, EpoPolls
  <2>2. \A o \in Retries : o.epo \in EpoRecords /\ o.epo.pc = "loop"
    BY <2>1, RetriesType DEF Outcomes
  <2> QED
    BY <1>2, <2>1, <2>2, RetryType DEF EpoRetries, Becomes
<1>3. CASE EpoWaits \/ retry_alarm_timeout_handler
  BY <1>3, Zenon DEF Typed, EpoRecords, EpoWaits, Delayed, retry_alarm_timeout_handler
<1> QED
  BY <1>1, <1>2, <1>3

-----------------------------------------------------------------------------
(* One download at a time. *)

LEMMA DonesAppended ==
  ASSUME mainq \in MainQueue, NEW m \in Messages, mainq' = Append(mainq, m)
  PROVE  \A i \in Dones("EPO")' : i \in Dones("EPO") \/ (i = Len(mainq) + 1 /\ m[1] = "EPO")
<1>1. mainq \in Seq(Messages) /\ Len(mainq) \in Nat
  BY QueueType
<1>2. /\ Len(mainq') = Len(mainq) + 1 /\ mainq'[Len(mainq) + 1] = m
      /\ \A i \in 1..Len(mainq) : mainq'[i] = mainq[i]
  BY <1>1
<1> QED
  BY <1>1, <1>2 DEF Dones

LEMMA DonesTaken ==
  ASSUME mainq \in MainQueue, mainq # <<>>, mainq' = Tail(mainq)
  PROVE  /\ \A i \in Dones("EPO")' : i \in Nat \ {0} /\ i + 1 \in Dones("EPO")
         /\ Head(mainq)[1] = "EPO" => 1 \in Dones("EPO")
<1>1. /\ Len(mainq) \in Nat /\ Len(mainq) # 0 /\ Len(mainq') = Len(mainq) - 1
      /\ \A i \in 1..Len(mainq') : mainq'[i] = mainq[i + 1]
      /\ Head(mainq) = mainq[1]
  BY QueueType
<1> QED
  BY <1>1 DEF Dones

\* A step that leaves the queue, the starts, the flag and the place of the EPO
\* thread alone.
LEMMA DownloadUntouched ==
  ASSUME OneDownload, UNCHANGED <<mainq, epoq, downloading>>, epo'.pc = epo.pc
  PROVE  OneDownload'
BY DEF OneDownload, Dones, B

LEMMA TriggerKeepsOne ==
  ASSUME Typed, OneDownload, NEW allowed, TriggerDownload(allowed), UNCHANGED mainq
  PROVE  OneDownload'
<1>1. epo'.pc = epo.pc
  BY TriggerType DEF Typed, EpoRecords
<1>2. CASE UNCHANGED <<downloading, epoq>>
  BY <1>1, <1>2, DownloadUntouched
<1>3. CASE BeginDownload /\ ~downloading
  <2>1. epoq = 0 /\ epo.pc # "loop" /\ Dones("EPO") = {}
    BY <1>3 DEF Typed, OneDownload, B
  <2>2. epoq' = 1 /\ downloading'
    BY <1>3, <2>1, ConstantTypes DEF BeginDownload, epo_downloader_start
  <2>3. Dones("EPO")' = {}
    BY <2>1 DEF Dones
  <2> QED
    BY <1>1, <2>1, <2>2, <2>3 DEF OneDownload, B
<1> QED
  BY <1>2, <1>3 DEF TriggerDownload

LEMMA OneDownloadKept == Typed /\ OneDownload /\ [Next]_vars => OneDownload'
<1>1. SUFFICES ASSUME Typed, OneDownload, [Next]_vars PROVE OneDownload'
  OBVIOUS
<1>2. ASSUME NEW c \in BOOLEAN, NEW w \in BOOLEAN, hal_update_network_state(c, w)
      PROVE  OneDownload'
  BY <1>1, <1>2, TriggerKeepsOne DEF hal_update_network_state
<1>3. CASE hal_gps_start
  BY <1>1, <1>3, TriggerKeepsOne, Zenon DEF hal_gps_start
<1>4. CASE GpsStarts \/ GpsStops \/ ServerUpdates \/ UNCHANGED vars
  BY <1>1, <1>4, DownloadUntouched, Zenon DEF GpsStarts, GpsStops, ServerUpdates, vars,
     epoVars
<1>5. CASE TakeEpoDone
  <2>1. 1 \in Dones("EPO") /\ \A i \in Dones("EPO")' : i \in Nat \ {0} /\ i + 1 \in Dones("EPO")
    BY <1>1, <1>5, DonesTaken, Zenon DEF Typed, TakeEpoDone
  <2>2. Dones("EPO")' = {}
    BY <1>1, <2>1 DEF OneDownload
  <2> QED
    BY <1>1, <1>5, <2>1, <2>2 DEF OneDownload, TakeEpoDone, B
<1>6. CASE TakeQepoDone
  <2>1. \A i \in Dones("EPO")' : i \in Nat \ {0} /\ i + 1 \in Dones("EPO")
    BY <1>1, <1>6, DonesTaken DEF Typed, TakeQepoDone
  <2>2. \A i, j \in Dones("EPO")' : i = j
    BY <1>1, <2>1 DEF OneDownload
  <2> QED
    BY <1>1, <1>6, <2>1, <2>2 DEF OneDownload, TakeQepoDone, epoVars, B
<1>7. CASE EpoTake
  BY <1>1, <1>7 DEF Typed, EpoRecords, OneDownload, Dones, EpoTake, B
<1>8. CASE EpoFetches \/ EpoRetries \/ EpoWaits \/ retry_alarm_timeout_handler
  <2>1. epo'.pc = epo.pc
    BY <1>1, <1>8, EpoPcKept
  <2> QED
    BY <1>1, <1>8, <2>1, DownloadUntouched
       DEF EpoFetches, EpoRetries, EpoWaits, retry_alarm_timeout_handler
<1>9. CASE EpoEnds
  <2>1. epo.pc = "loop" /\ epo'.pc = "wait" /\ downloading' = downloading /\ epoq' = epoq
    BY <1>1, <1>9 DEF Typed, EpoRecords, EpoEnds, EpoPolls
  <2>2. epoq = 0 /\ downloading /\ Dones("EPO") = {}
    BY <1>1, <2>1 DEF Typed, OneDownload, B
  <2>3. \A i \in Dones("EPO")' : i = Len(mainq) + 1
    <3>1. <<"EPO", IF epo.count # 0 THEN "FAIL" ELSE "SUCCESS">> \in Messages
      BY DEF Messages
    <3>2. CASE mainq' = mainq
      BY <2>2, <3>2 DEF Dones
    <3> QED
      BY <1>1, <1>9, <2>2, <3>1, <3>2, DonesAppended DEF Typed, EpoEnds, SendMain
  <2> QED
    BY <2>1, <2>2, <2>3 DEF OneDownload, B
<1>10. CASE MnlRequestsQepo \/ QepoTake
  BY <1>1, <1>10, DownloadUntouched DEF MnlRequestsQepo, QepoTake, epoVars
<1>11. CASE QepoTries
  <2>1. UNCHANGED <<downloading, epoq, epo>>
    BY <1>11 DEF QepoTries, epoVars
  <2>2. Dones("EPO")' \subseteq Dones("EPO")
    <3>1. CASE mainq' = mainq
      BY <3>1 DEF Dones
    <3>2. ASSUME NEW r \in {"SUCCESS", "FAIL"}, mainq' = Append(mainq, <<"QEPO", r>>)
          PROVE  Dones("EPO")' \subseteq Dones("EPO")
      <4>1. <<"QEPO", r>> \in Messages /\ <<"QEPO", r>>[1] # "EPO"
        BY DEF Messages
      <4> QED
        BY <1>1, <3>2, <4>1, DonesAppended DEF Typed
    <3>3. \/ mainq' = mainq
          \/ \E r \in {"SUCCESS", "FAIL"} : mainq' = Append(mainq, <<"QEPO", r>>)
      BY <1>11 DEF QepoTries, SendMain
    <3> QED
      BY <3>1, <3>2, <3>3
  <2> QED
    BY <1>1, <2>1, <2>2 DEF OneDownload, B
<1>12. CASE MnldRestarts
  BY <1>12 DEF MnldRestarts, OneDownload, Dones, EpoStart, B
<1> QED
  BY <1>1, <1>2, <1>3, <1>4, <1>5, <1>6, <1>7, <1>8, <1>9, <1>10, <1>11, <1>12
     DEF Next, EpoLoop

-----------------------------------------------------------------------------
(* The pieces in the files. *)

LEMMA EmptyFile == InOrder(<<>>) /\ NotNewer(<<>>)
BY DEF InOrder, NotNewer

\* A file grows in order by the next piece of its edition.
LEMMA GrowsInOrder ==
  ASSUME NEW file \in Files, InOrder(file), NEW e \in 1..LastEdition, Len(file) \in 0..9,
         file # <<>> => file[1].edition = e, NEW g, g = Append(file, Piece(Len(file), e))
  PROVE  InOrder(g) /\ Len(g) = Len(file) + 1 /\ g[1].edition = e
<1>1. file \in Seq([n : 0..9, edition : Editions]) /\ Len(file) \in Nat
  BY DEF Files
<1>2. /\ Len(g) = Len(file) + 1 /\ g[Len(file) + 1] = Piece(Len(file), e)
      /\ \A i \in 1..Len(file) : g[i] = file[i]
  BY <1>1
<1>3. e # Short
  BY ConstantTypes DEF Short
<1>4. g[1].edition = e
  <2>1. CASE Len(file) = 0
    BY <1>2, <2>1 DEF Piece
  <2>2. CASE Len(file) # 0
    BY <1>1, <1>2, <2>2
  <2> QED
    BY <2>1, <2>2
<1>5. ASSUME NEW i \in 1..Len(g)
      PROVE  g[i].edition # Short /\ g[i] = Piece(i - 1, g[1].edition)
  <2>1. CASE i = Len(file) + 1
    BY <1>1, <1>2, <1>3, <1>4, <2>1 DEF Piece
  <2>2. CASE i \in 1..Len(file)
    <3>1. file[i].edition # Short /\ file[i] = Piece(i - 1, file[1].edition) /\ file # <<>>
      BY <1>1, <2>2 DEF InOrder
    <3> QED
      BY <1>2, <1>4, <2>2, <3>1, Zenon
  <2> QED
    BY <1>1, <1>2, <1>5, <2>1, <2>2
<1> QED
  BY <1>2, <1>4, <1>5 DEF InOrder

\* In a file in order every piece has the edition of the first.
LEMMA OneEdition ==
  ASSUME NEW file \in Files, InOrder(file), file # <<>> => file[1].edition <= server
  PROVE  NotNewer(file)
<1>1. ASSUME NEW i \in 1..Len(file) PROVE file[i].edition <= server
  <2>1. file[i] = Piece(i - 1, file[1].edition) /\ file # <<>>
    BY DEF InOrder, Files
  <2> QED
    BY <2>1 DEF Piece
<1> QED
  BY <1>1, Zenon DEF NotNewer

Kept(e, file, disk) == InOrder(file) /\ NotNewer(file) /\ Resumable(e, file, disk)

\* A fetch keeps EPOHAL.DAT in order: the piece it appends is the next one, and the
\* server still publishes the edition of the pieces before it.
LEMMA FetchKeeps ==
  ASSUME Typed, ~ShortReplies, Kept(epo, hal, piece),
         NEW e \in EpoRecords, e.pc = "loop", e.count = epo.count,
         NEW o \in mtk_gps_epo_file_update(e)
  PROVE  Kept(o.epo, o.hal, o.piece)
<1>1. /\ hal \in Files /\ piece \in Disk /\ server \in 1..LastEdition /\ e.count \in 0..9
      /\ epo.count = e.count /\ LastEdition \in Nat
  BY ConstantTypes, Zenon DEF Typed, EpoRecords
<1>2. CASE o = Outcome([e EXCEPT !.failed = TRUE], hal, [piece EXCEPT ![e.count] = 0])
  <2>1. o.hal = hal /\ o.epo.count = e.count /\ o.piece = [piece EXCEPT ![e.count] = 0]
    BY <1>2 DEF Outcome, EpoRecords
  <2>2. e.count > 0 => o.piece[e.count - 1] = piece[e.count - 1]
    BY <1>1, <2>1 DEF Disk
  <2> QED
    BY <1>1, <2>1, <2>2, Zenon DEF Kept, Resumable
<1>3. CASE o = Fetched(e) /\ IsChanged(server)
  <2>1. o.hal = <<>> /\ o.epo.count = 0
    BY <1>3 DEF Fetched, Outcome, EpoRecords
  <2> QED
    BY <2>1, EmptyFile DEF Kept, Resumable
<1>4. CASE o = Fetched(e) /\ ~IsChanged(server)
  <2> DEFINE file == IF epo.count = 0 THEN <<>> ELSE hal
  <2>1. file \in Files /\ InOrder(file) /\ Len(file) = e.count
    BY <1>1, EmptyFile DEF Kept, Resumable, Files
  <2>2. file # <<>> => file[1].edition = server
    <3>1. SUFFICES ASSUME e.count > 0 PROVE hal[1].edition = server
      BY <1>1
    <3>2. /\ piece[e.count - 1] = hal[1].edition /\ Len(hal) = e.count
          /\ ~(server > piece[e.count - 1])
      BY <1>1, <1>4, <3>1, Zenon DEF Kept, Resumable, IsChanged
    <3>3. hal[1].edition <= server /\ hal[1].edition # Short
      BY <1>1, <3>1, <3>2 DEF Kept, InOrder, NotNewer
    <3>4. piece[e.count - 1] \in Int
      BY <1>1, <3>1 DEF Disk, Short
    <3> QED
      BY <1>1, <3>2, <3>3, <3>4
  <2>3. Appended(Piece(e.count, server)) = Append(file, Piece(Len(file), server))
    BY <2>1 DEF Appended
  <2> HIDE DEF file
  <2>4. /\ InOrder(Appended(Piece(e.count, server)))
        /\ Len(Appended(Piece(e.count, server))) = e.count + 1
        /\ Appended(Piece(e.count, server))[1].edition = server
    <3>1. Len(file) \in 0..9
      BY <1>1, <2>1, Zenon
    <3> QED
      <4> DEFINE g == Appended(Piece(e.count, server))
      <4>1. g = Append(file, Piece(Len(file), server))
        BY <2>3, Zenon
      <4> HIDE DEF g
      <4>2. InOrder(g) /\ Len(g) = Len(file) + 1 /\ g[1].edition = server
        BY <1>1, <2>1, <2>2, <3>1, <4>1, GrowsInOrder, ZenonT(30)
      <4> QED
        BY <2>1, <4>2 DEF g
  <2>5. o.hal = Appended(Piece(e.count, server)) /\ o.hal \in Files
    <3>1. o.hal = Appended(Piece(e.count, server))
      BY <1>4 DEF Fetched, Outcome
    <3> QED
      BY <3>1, FetchType, Zenon DEF Outcomes
  <2>6. NotNewer(o.hal)
    BY <1>1, <2>4, <2>5, OneEdition
  <2>7. CASE Complete(e.count + 1)
    <3>1. o.epo.count = 0
      BY <1>4, <2>7, Zenon DEF Fetched, Outcome, EpoRecords
    <3> QED
      BY <2>4, <2>5, <2>6, <3>1 DEF Kept, Resumable
  <2>8. CASE ~Complete(e.count + 1)
    <3>1. o.epo.count = e.count + 1 /\ o.piece = [piece EXCEPT ![e.count] = server]
      BY <1>4, <2>8 DEF Fetched, Outcome, EpoRecords
    <3>2. o.piece[e.count] = server
      BY <1>1, <3>1, Zenon DEF Disk
    <3> QED
      BY <1>1, <2>4, <2>5, <2>6, <3>1, <3>2, SMTT(30) DEF Kept, Resumable
  <2> QED
    BY <2>7, <2>8, Zenon
<1> QED
  BY <1>2, <1>3, <1>4 DEF mtk_gps_epo_file_update, FetchFailures

LEMMA RetriesKeep ==
  ASSUME Typed, ~ShortReplies, Kept(epo, hal, piece), epo.pc = "loop", NEW o \in Retries
  PROVE  Kept(o.epo, o.hal, o.piece)
<1> DEFINE e == [epo EXCEPT !.file_retrying = IF @ = NoFile THEN epo.count ELSE @]
<1>1. e \in EpoRecords /\ e.pc = "loop" /\ e.count = epo.count
  BY DEF Typed, EpoRecords
<1> HIDE DEF e
<1>2. CASE o \in mtk_gps_epo_file_update(e)
  BY <1>1, <1>2, FetchKeeps, Zenon
<1>3. CASE o = Outcome([e EXCEPT !.failed = FALSE, !.count = 0, !.updated = TRUE, !.delay = 0],
                       <<>>, piece)
  <2>1. o.hal = <<>> /\ o.epo.count = 0
    BY <1>1, <1>3, Zenon DEF Outcome, EpoRecords
  <2> QED
    BY <2>1, EmptyFile DEF Kept, Resumable
<1> QED
  BY <1>2, <1>3 DEF Retries, e

\* What the thread itself does to its counter and its files in the loop.
LEMMA LoopKeeps ==
  ASSUME Typed, ~ShortReplies, Kept(epo, hal, piece), epo.pc = "loop",
         EpoFetches \/ EpoRetries \/ EpoWaits \/ retry_alarm_timeout_handler
  PROVE  Kept(epo, hal, piece)'
<1>0. server' = server
  BY DEF EpoFetches, EpoRetries, EpoWaits, retry_alarm_timeout_handler
<1>1. CASE EpoFetches
  <2> DEFINE e == [epo EXCEPT !.failed = FALSE]
  <2>1. PICK o \in mtk_gps_epo_file_update(e) :
          Becomes([o.epo EXCEPT !.updated = @ /\ ~o.epo.failed], o)
    BY <1>1, Zenon DEF EpoFetches
  <2>2. e \in EpoRecords /\ e.pc = "loop" /\ e.count = epo.count
    BY Zenon DEF Typed, EpoRecords
  <2> HIDE DEF e
  <2>3. Kept(o.epo, o.hal, o.piece) /\ o.epo \in EpoRecords
    BY <2>2, FetchKeeps, FetchType, Zenon DEF Outcomes
  <2>4. epo'.count = o.epo.count /\ hal' = o.hal /\ piece' = o.piece
    BY <2>1, <2>3 DEF Becomes, EpoRecords
  <2> QED
    BY <1>0, <2>3, <2>4, Zenon DEF Kept, NotNewer, Resumable
<1>2. CASE EpoRetries
  <2>1. PICK o \in Retries : Becomes(RetryAccounted(epo.count, o.epo), o)
    BY <1>2, Zenon DEF EpoRetries
  <2>2. Kept(o.epo, o.hal, o.piece) /\ o.epo \in EpoRecords
    BY RetriesKeep, RetriesType, Zenon DEF Outcomes
  <2>3. epo'.count = o.epo.count /\ hal' = o.hal /\ piece' = o.piece
    BY <2>1, <2>2, RetryType, Zenon DEF Becomes
  <2> QED
    BY <1>0, <2>2, <2>3, Zenon DEF Kept, NotNewer, Resumable
<1>3. CASE EpoWaits \/ retry_alarm_timeout_handler
  <2>1. epo'.count = epo.count /\ UNCHANGED <<hal, piece>>
    BY <1>3, Zenon DEF Typed, EpoRecords, EpoWaits, Delayed, retry_alarm_timeout_handler
  <2> QED
    BY <1>0, <2>1, Zenon DEF Kept, InOrder, NotNewer, Resumable
<1> QED
  BY <1>1, <1>2, <1>3

\* The same statement as FilesKept, in terms of Kept.
LEMMA FilesKeptIs ==
  FilesKept <=>
    (~ShortReplies => /\ InOrder(hal) /\ InOrder(dat) /\ NotNewer(hal) /\ NotNewer(dat)
                      /\ epo.pc = "loop" => Kept(epo, hal, piece))
BY DEF FilesKept, Kept

LEMMA FilesStayKept == Typed /\ OneDownload /\ FilesKept /\ [Next]_vars => FilesKept'
<1>1. SUFFICES ASSUME Typed, OneDownload, FilesKept, [Next]_vars, ~ShortReplies
               PROVE  /\ InOrder(hal)' /\ InOrder(dat)' /\ NotNewer(hal)' /\ NotNewer(dat)'
                      /\ epo'.pc = "loop" => Resumable(epo, hal, piece)'
  BY Zenon DEF FilesKept
<1>2. /\ InOrder(hal) /\ InOrder(dat) /\ NotNewer(hal) /\ NotNewer(dat)
      /\ epo.pc = "loop" => Kept(epo, hal, piece)
  BY <1>1, FilesKeptIs
<1>3. ASSUME \E a : TriggerDownload(a), UNCHANGED <<hal, dat, piece, server>>
      PROVE  /\ InOrder(hal)' /\ InOrder(dat)' /\ NotNewer(hal)' /\ NotNewer(dat)'
             /\ epo'.pc = "loop" => Resumable(epo, hal, piece)'
  <2>1. epo'.pc = epo.pc /\ epo'.count \in {0, epo.count}
    BY <1>1, <1>3, TriggerType DEF Typed, EpoRecords
  <2> QED
    BY <1>2, <1>3, <2>1 DEF Kept, InOrder, NotNewer, Resumable
<1>4. CASE (\E c, w \in BOOLEAN : hal_update_network_state(c, w)) \/ hal_gps_start
  <2>1. (\E a : TriggerDownload(a)) /\ UNCHANGED <<hal, dat, piece, server>>
    BY <1>4, Zenon DEF hal_update_network_state, hal_gps_start
  <2> QED
    BY <1>3, <2>1, Zenon
<1>5. CASE GpsStarts \/ GpsStops
  BY <1>2, <1>5, Zenon DEF GpsStarts, GpsStops, AgentUpdatesFile, epoVars, Kept, InOrder,
     NotNewer,
     Resumable
<1>6. CASE TakeEpoDone
  <2>1. epo'.pc = "wait"
    <3>1. 1 \in Dones("EPO")
      BY <1>1, <1>6, DonesTaken, Zenon DEF Typed, TakeEpoDone
    <3> QED
      BY <1>1, <1>6, <3>1 DEF OneDownload, TakeEpoDone
  <2> QED
    BY <1>2, <1>6, <2>1, EmptyFile, Zenon DEF TakeEpoDone, InOrder, NotNewer
<1>7. CASE EpoTake
  <2>1. hal' = <<>> /\ dat' = <<>> /\ epo'.count = 0
    BY <1>1, <1>7 DEF Typed, EpoRecords, EpoTake
  <2> QED
    BY <2>1 DEF InOrder, NotNewer, Resumable
<1>8. CASE EpoFetches \/ EpoRetries \/ EpoWaits \/ retry_alarm_timeout_handler
  <2>1. InOrder(dat)' /\ NotNewer(dat)'
    BY <1>2, <1>8
       DEF EpoFetches, EpoRetries, EpoWaits, retry_alarm_timeout_handler, InOrder, NotNewer
  <2>2. CASE epo.pc = "loop"
    BY <1>1, <1>2, <1>8, <2>1, <2>2, LoopKeeps DEF Kept
  <2>3. CASE epo.pc # "loop"
    <3>1. retry_alarm_timeout_handler
      BY <1>8, <2>3 DEF EpoFetches, EpoRetries, EpoWaits, EpoPolls
    <3>2. epo'.pc = epo.pc
      BY <1>1, <1>8, EpoPcKept
    <3> QED
      BY <1>2, <2>1, <2>3, <3>1, <3>2 DEF retry_alarm_timeout_handler, InOrder, NotNewer
  <2> QED
    BY <2>2, <2>3
<1>9. CASE EpoEnds
  <2>1. epo'.pc = "wait"
    BY <1>1, <1>9 DEF Typed, EpoRecords, EpoEnds
  <2> QED
    BY <1>2, <1>9, <2>1 DEF EpoEnds, InOrder, NotNewer
<1>10. CASE \/ TakeQepoDone \/ MnlRequestsQepo \/ QepoTake \/ QepoTries \/ UNCHANGED vars
  <2>1. UNCHANGED <<epo, hal, dat, piece, server>>
    BY <1>10, Zenon DEF TakeQepoDone, MnlRequestsQepo, QepoTake, QepoTries, vars, epoVars
  <2> QED
    BY <1>2, <2>1, Zenon DEF Kept, InOrder, NotNewer, Resumable
<1>11. CASE ServerUpdates
  <2>1. UNCHANGED <<epo, hal, dat, piece>> /\ server' = server + 1
    BY <1>11 DEF ServerUpdates, epoVars
  <2>2. ASSUME NEW file \in Files, NotNewer(file)
        PROVE  \A i \in 1..Len(file) : file[i].edition <= server'
    <3>1. \A i \in 1..Len(file) : file[i].edition \in Int
      <4>1. Editions \subseteq Int
        BY ConstantTypes DEF Editions, Short
      <4>2. ASSUME NEW i \in 1..Len(file) PROVE file[i].edition \in Editions
        <5>1. file[i] \in [n : 0..9, edition : Editions]
          BY <2>2, ElementOfSeq, Zenon DEF Files
        <5> QED
          BY <5>1
      <4> QED
        BY <4>1, <4>2, Zenon
    <3> QED
      BY <1>1, <2>1, <2>2, <3>1 DEF Typed, NotNewer
  <2> QED
    BY <1>1, <1>2, <2>1, <2>2, Zenon DEF Typed, Kept, InOrder, NotNewer, Resumable
<1>12. CASE MnldRestarts
  <2>1. epo'.pc = "wait" /\ UNCHANGED <<hal, dat, server>>
    BY <1>12 DEF MnldRestarts, EpoStart
  <2> QED
    BY <1>2, <2>1, Zenon DEF InOrder, NotNewer
<1> QED
  BY <1>1, <1>4, <1>5, <1>6, <1>7, <1>8, <1>9, <1>10, <1>11, <1>12, Zenon DEF Next, EpoLoop

-----------------------------------------------------------------------------
(* The theorems. *)

\* The inductive invariant holds: the types, the bookkeeping of downloads and the
\* pieces in the files (mnld.c, epo.c, qepo.c).
THEOREM Invariance == Spec => []IInv
<1>1. Init => IInv
  <2>1. SUFFICES ASSUME Init PROVE IInv
    OBVIOUS
  <2>2. Typed
    BY <2>1, InitTypes
  <2>3. OneDownload
    BY <2>1 DEF Init, OneDownload, Dones, EpoStart, B
  <2>4. FilesKept
    BY <2>1, EmptyFile, Zenon DEF Init, FilesKept, EpoStart
  <2> QED
    BY <2>2, <2>3, <2>4, TypesBack DEF IInv
<1>2. IInv /\ [Next]_vars => IInv'
  BY Types, TypesNext, StepTypes, OneDownloadKept, FilesStayKept DEF IInv
<1> QED
  BY <1>1, <1>2, PTL DEF Spec

\* The variables of mnld.c, epo.c and qepo.c keep their types, the counters of pieces,
\* retries and polls their limits (epo.c, qepo.c).
THEOREM TypeCorrect == Spec => []TypeOK
<1>1. IInv => TypeOK
  BY DEF IInv
<1> QED
  BY <1>1, Invariance, PTL

\* is_epo_downloading accounts for one download at most, also when messages are
\* dropped and mnld restarts (mnld.c:661, 1238).
THEOREM OneDownloadHolds == Spec => []OneDownload
<1>1. IInv => OneDownload
  BY DEF IInv
<1> QED
  BY <1>1, Invariance, PTL

\* When no reply is shorter than a satellite record, EPOHAL.DAT and EPO.DAT hold the
\* pieces of one edition in order, for any number of days and any retries
\* (epo.c:784, 960; gps_controller.c:1156).
THEOREM FilesInOrderHolds ==
  ASSUME ~ShortReplies
  PROVE  Spec => []FilesInOrder
<1>1. IInv => FilesInOrder
  BY DEF IInv, FilesKept, FilesInOrder
<1> QED
  BY <1>1, Invariance, PTL

\* The main thread's expiry test resets gps_epo_file_count only when the EPO thread
\* is not in a download (epo.c:1076): a start that waits, the loop and a completion
\* that waits all keep is_epo_downloading set.
THEOREM CounterNotSharedHolds == Spec => CounterNotShared
<1>1. IInv /\ [Next]_vars =>
        [epo.pc = "loop" /\ epo'.count # epo.count => EpoLoop \/ MnldRestarts]_vars
  <2>1. SUFFICES ASSUME IInv, Next, epo.pc = "loop", epo'.count # epo.count
                 PROVE  EpoLoop \/ MnldRestarts
    BY Zenon
  <2>2. Typed /\ downloading
    BY <2>1, Types DEF IInv, OneDownload, Typed, B
  <2>3. ASSUME \E a : TriggerDownload(a) PROVE FALSE
    BY <2>1, <2>2, <2>3, TriggerType
  <2>4. ~((\E c, w \in BOOLEAN : hal_update_network_state(c, w)) \/ hal_gps_start)
    BY <2>3, Zenon DEF hal_update_network_state, hal_gps_start
  <2>5. epo' # epo
    BY <2>1
  <2>6. ~(GpsStarts \/ GpsStops \/ TakeEpoDone \/ TakeQepoDone \/ MnlRequestsQepo \/ QepoTake
          \/ QepoTries \/ ServerUpdates)
    BY <2>5, Zenon DEF GpsStarts, GpsStops, TakeEpoDone, TakeQepoDone, MnlRequestsQepo,
       QepoTake,
       QepoTries, ServerUpdates, epoVars
  <2>7. ~EpoTake
    BY <2>1 DEF EpoTake
  <2>8. ~retry_alarm_timeout_handler
    BY <2>1, <2>2, Zenon DEF retry_alarm_timeout_handler, Typed, EpoRecords
  <2> QED
    BY <2>1, <2>4, <2>6, <2>7, <2>8, Zenon DEF Next
<1> QED
  BY <1>1, Invariance, PTL DEF Spec, CounterNotShared
-----------------------------------------------------------------------------
(* Why the waits of Epo can end.  What fairness adds is that the one named here  *)
(* is scheduled.                                                                 *)

\* As long as is_epo_downloading is set and no message was dropped, there is one who
\* will have it cleared: a start that waits for the EPO thread, the loop of that
\* thread, or a completion that waits for the main thread (mnld.c:663, 1238).
DownloadCarried ==
  downloading /\ ~lost => epoq > 0 \/ epo.pc = "loop" \/ Dones("EPO") # {}

\* The loop that may not retry yet has a timer that will let it (epo.c:133).
RetryComes == ~epo.retry => armed

\* As long as MNL waits for QEPO and no message was dropped, there is a start, a
\* download or a completion on its way (gps_controller.c:1527, qepo.c:308).
QepoCarried ==
  told = Waiting /\ ~lost => qepoq > 0 \/ qepo.pc = "try" \/ Dones("QEPO") # {}

\* A completion that is sent joins those in the queue, and is one of them.
LEMMA DonesStay ==
  ASSUME mainq \in MainQueue, NEW k, NEW m \in Messages, mainq' = Append(mainq, m)
  PROVE  Dones(k) \subseteq Dones(k)' /\ (m[1] = k => Dones(k)' # {})
<1>1. mainq \in Seq(Messages) /\ Len(mainq) \in Nat
  BY QueueType
<1>2. /\ Len(mainq') = Len(mainq) + 1 /\ mainq'[Len(mainq) + 1] = m
      /\ \A i \in 1..Len(mainq) : mainq'[i] = mainq[i]
  BY <1>1
<1>3. Len(mainq) + 1 \in 1..Len(mainq') /\ \A i \in 1..Len(mainq) : i \in 1..Len(mainq')
  BY <1>1, <1>2
<1> QED
  BY <1>2, <1>3, Zenon DEF Dones

\* A completion of one kind that is taken leaves those of the other kind.
LEMMA OtherDonesStay ==
  ASSUME mainq \in MainQueue, mainq # <<>>, mainq' = Tail(mainq), NEW k, Head(mainq)[1] # k,
         Dones(k) # {}
  PROVE  Dones(k)' # {}
<1>1. /\ Len(mainq) \in Nat /\ Len(mainq) # 0 /\ Len(mainq') = Len(mainq) - 1
      /\ \A i \in 1..Len(mainq') : mainq'[i] = mainq[i + 1]
      /\ Head(mainq) = mainq[1]
  BY QueueType
<1>2. PICK i \in 1..Len(mainq) : mainq[i][1] = k
  BY DEF Dones
<1>3. i # 1
  BY <1>1, <1>2
<1>4. i - 1 \in 1..Len(mainq') /\ mainq'[i - 1] = mainq[i]
  BY <1>1, <1>3
<1>5. i - 1 \in Dones(k)'
  BY <1>2, <1>4, Zenon DEF Dones
<1> QED
  BY <1>5

\* SendMain() delivers the completion or records that it was dropped; what waits stays.
LEMMA SendCarries ==
  ASSUME Typed, NEW k, NEW m \in Messages, SendMain(m)
  PROVE  /\ lost => lost'
         /\ Dones(k) # {} => Dones(k)' # {}
         /\ m[1] = k => lost' \/ Dones(k)' # {}
<1>1. CASE mainq' = Append(mainq, m) /\ UNCHANGED lost
  BY <1>1, DonesStay DEF Typed
<1>2. CASE mainq' = mainq /\ lost' = TRUE
  BY <1>2, Zenon DEF Dones
<1> QED
  BY <1>1, <1>2, Zenon DEF SendMain

LEMMA QueueKept == \A k : mainq' = mainq => Dones(k)' = Dones(k)
BY Zenon DEF Dones

\* A pass of the QEPO thread goes on, or ends and sends its completion.
LEMMA QepoTriesSends ==
  ASSUME Typed, QepoTries
  PROVE  /\ lost => lost'
         /\ \A k : Dones(k) # {} => Dones(k)' # {}
         /\ qepo'.pc = "try" \/ lost' \/ Dones("QEPO")' # {}
<1> DEFINE done(q) == <<"QEPO", IF q.file = "valid" THEN "SUCCESS" ELSE "FAIL">>
<1>1. PICK stale \in BOOLEAN : \E q \in QepoTried(stale) :
        \/ qepo' = [q EXCEPT !.left = @ - 1] /\ UNCHANGED <<mainq, lost>>
        \/ SendMain(done(q))
  BY Zenon DEF QepoTries
<1>2. PICK q \in QepoTried(stale) :
        \/ qepo' = [q EXCEPT !.left = @ - 1] /\ UNCHANGED <<mainq, lost>>
        \/ SendMain(done(q))
  BY <1>1, Zenon
<1>3. CASE qepo' = [q EXCEPT !.left = @ - 1] /\ UNCHANGED <<mainq, lost>>
  <2>1. q.pc = "try" /\ q \in QepoRecords
    <3>1. q \in QepoRecords
      BY QepoTriedType DEF Typed
    <3>2. PICK d \in QepoDownloads :
            q = [qepo EXCEPT !.res = d[1], !.file = d[2],
                             !.stale = IF d[2] = "other" THEN stale ELSE @]
      BY Zenon DEF QepoTried
    <3>3. q.pc = qepo.pc
      BY <3>2, Zenon DEF Typed, QepoRecords
    <3> QED
      BY <3>1, <3>3 DEF QepoTries
  <2>2. qepo'.pc = "try"
    BY <1>3, <2>1 DEF QepoRecords
  <2> QED
    BY <1>3, <2>2, QueueKept, Zenon
<1>4. CASE SendMain(done(q))
  <2>1. done(q) \in Messages /\ done(q)[1] = "QEPO"
    BY DEF Messages
  <2> HIDE DEF done
  <2> QED
    BY <1>4, <2>1, SendCarries, Zenon
<1> QED
  BY <1>2, <1>3, <1>4

-----------------------------------------------------------------------------
LEMMA TriggerCarries ==
  ASSUME Typed, DownloadCarried, NEW allowed, TriggerDownload(allowed), UNCHANGED mainq
  PROVE  DownloadCarried'
<1>1. epo'.pc = epo.pc
  BY TriggerType DEF Typed, EpoRecords
<1>2. CASE UNCHANGED <<downloading, epoq, lost>>
  BY <1>1, <1>2, QueueKept, Zenon DEF DownloadCarried
<1>3. CASE BeginDownload
  <2>1. epoq' > 0
    BY <1>3, ConstantTypes DEF Typed, BeginDownload, epo_downloader_start
  <2> QED
    BY <2>1, Zenon DEF DownloadCarried
<1> QED
  BY <1>2, <1>3, Zenon DEF TriggerDownload

LEMMA CarriedUntouched ==
  ASSUME DownloadCarried, UNCHANGED <<mainq, epoq, downloading>>, epo'.pc = epo.pc, lost => lost'
  PROVE  DownloadCarried'
<1>1. Dones("EPO")' = Dones("EPO") /\ epoq' = epoq /\ downloading' = downloading
  BY QueueKept, Zenon
<1> QED
  BY <1>1 DEF DownloadCarried

LEMMA DownloadStaysCarried == Typed /\ DownloadCarried /\ [Next]_vars => DownloadCarried'
<1>1. SUFFICES ASSUME Typed, DownloadCarried, [Next]_vars PROVE DownloadCarried'
  OBVIOUS
<1>2. ASSUME NEW c \in BOOLEAN, NEW w \in BOOLEAN, hal_update_network_state(c, w)
      PROVE  DownloadCarried'
  BY <1>1, <1>2, TriggerCarries, Zenon DEF hal_update_network_state
<1>3. CASE hal_gps_start
  BY <1>1, <1>3, TriggerCarries, Zenon DEF hal_gps_start
<1>4. CASE GpsStarts \/ GpsStops \/ ServerUpdates \/ UNCHANGED vars
  <2>1. UNCHANGED <<mainq, epoq, downloading, epo, lost>>
    BY <1>4, Zenon DEF GpsStarts, GpsStops, ServerUpdates, vars, epoVars
  <2> QED
    BY <1>1, <2>1, CarriedUntouched
<1>5. CASE TakeEpoDone
  <2>1. ~downloading'
    BY <1>5, Zenon DEF TakeEpoDone
  <2> QED
    BY <2>1, Zenon DEF DownloadCarried
<1>6. CASE TakeQepoDone
  <2>1. Dones("EPO") # {} => Dones("EPO")' # {}
    <3>1. mainq \in MainQueue /\ mainq # <<>> /\ mainq' = Tail(mainq) /\ Head(mainq)[1] # "EPO"
      BY <1>1, <1>6 DEF Typed, TakeQepoDone
    <3> QED
      BY <3>1, OtherDonesStay
  <2>2. downloading' = downloading /\ epoq' = epoq /\ epo' = epo /\ lost' = lost
    BY <1>6, Zenon DEF TakeQepoDone, epoVars
  <2> QED
    BY <1>1, <2>1, <2>2, Zenon DEF DownloadCarried
<1>7. CASE EpoTake
  <2>1. epo'.pc = "loop"
    BY <1>1, <1>7 DEF Typed, EpoRecords, EpoTake
  <2> QED
    BY <2>1, Zenon DEF DownloadCarried
<1>8. CASE EpoFetches \/ EpoRetries \/ EpoWaits \/ retry_alarm_timeout_handler
  <2>1. epo'.pc = epo.pc
    BY <1>1, <1>8, EpoPcKept
  <2>2. UNCHANGED <<mainq, epoq, downloading, lost>>
    BY <1>8, Zenon DEF EpoFetches, EpoRetries, EpoWaits, retry_alarm_timeout_handler
  <2> QED
    BY <1>1, <2>1, <2>2, CarriedUntouched
<1>9. CASE EpoEnds
  <2> DEFINE m == <<"EPO", IF epo.count # 0 THEN "FAIL" ELSE "SUCCESS">>
  <2>1. m \in Messages /\ m[1] = "EPO" /\ SendMain(m)
    BY <1>9 DEF EpoEnds, Messages
  <2>2. lost' \/ Dones("EPO")' # {}
    BY <1>1, <2>1, SendCarries
  <2> QED
    BY <2>2, Zenon DEF DownloadCarried
<1>10. CASE MnlRequestsQepo \/ QepoTake
  <2>1. UNCHANGED <<mainq, epoq, downloading, epo>>
    BY <1>10, Zenon DEF MnlRequestsQepo, QepoTake, epoVars
  <2>2. lost => lost'
    BY <1>10, Zenon DEF MnlRequestsQepo, QepoTake
  <2> QED
    BY <1>1, <2>1, <2>2, CarriedUntouched
<1>11. CASE QepoTries
  <2>1. downloading' = downloading /\ epoq' = epoq /\ epo' = epo
    BY <1>11, Zenon DEF QepoTries, epoVars
  <2>2. (lost => lost') /\ (Dones("EPO") # {} => Dones("EPO")' # {})
    BY <1>1, <1>11, QepoTriesSends
  <2> QED
    BY <1>1, <2>1, <2>2, Zenon DEF DownloadCarried
<1>12. CASE MnldRestarts
  <2>1. ~downloading'
    BY <1>12, Zenon DEF MnldRestarts
  <2> QED
    BY <2>1, Zenon DEF DownloadCarried
<1> QED
  BY <1>1, <1>2, <1>3, <1>4, <1>5, <1>6, <1>7, <1>8, <1>9, <1>10, <1>11, <1>12, Zenon
     DEF Next, EpoLoop

LEMMA QepoUntouched ==
  ASSUME QepoCarried, UNCHANGED <<mainq, qepoq, qepo, told>>, lost => lost'
  PROVE  QepoCarried'
<1>1. Dones("QEPO")' = Dones("QEPO") /\ qepoq' = qepoq /\ qepo' = qepo /\ told' = told
  BY QueueKept, Zenon
<1> QED
  BY <1>1, Zenon DEF QepoCarried, Waiting

LEMMA QepoStaysCarried == Typed /\ QepoCarried /\ [Next]_vars => QepoCarried'
<1>1. SUFFICES ASSUME Typed, QepoCarried, [Next]_vars PROVE QepoCarried'
  OBVIOUS
<1>2. ASSUME NEW a, TriggerDownload(a) PROVE lost => lost'
  BY <1>2, Zenon DEF TriggerDownload, BeginDownload, epo_downloader_start
<1>3. ASSUME NEW c \in BOOLEAN, NEW w \in BOOLEAN, hal_update_network_state(c, w)
      PROVE  QepoCarried'
  BY <1>1, <1>2, <1>3, QepoUntouched, Zenon DEF hal_update_network_state, qepoVars
<1>4. CASE hal_gps_start
  BY <1>1, <1>2, <1>4, QepoUntouched, Zenon DEF hal_gps_start, qepoVars
<1>5. CASE GpsStarts \/ GpsStops \/ ServerUpdates \/ UNCHANGED vars
  <2>1. UNCHANGED <<mainq, qepoq, qepo, told, lost>>
    BY <1>5, Zenon DEF GpsStarts, GpsStops, ServerUpdates, vars, qepoVars
  <2> QED
    BY <1>1, <2>1, QepoUntouched
<1>6. CASE EpoTake \/ EpoFetches \/ EpoRetries \/ EpoWaits \/ retry_alarm_timeout_handler
  <2>1. UNCHANGED <<mainq, qepoq, qepo, told, lost>>
    BY <1>6, Zenon DEF EpoTake, EpoFetches, EpoRetries, EpoWaits,
       retry_alarm_timeout_handler, qepoVars
  <2> QED
    BY <1>1, <2>1, QepoUntouched
<1>7. CASE TakeEpoDone
  <2>1. Dones("QEPO") # {} => Dones("QEPO")' # {}
    <3>1. mainq \in MainQueue /\ mainq # <<>> /\ mainq' = Tail(mainq) /\ Head(mainq)[1] # "QEPO"
      BY <1>1, <1>7 DEF Typed, TakeEpoDone
    <3> QED
      BY <3>1, OtherDonesStay
  <2>2. qepoq' = qepoq /\ qepo' = qepo /\ told' = told /\ lost' = lost
    BY <1>7, Zenon DEF TakeEpoDone, qepoVars
  <2> QED
    BY <1>1, <2>1, <2>2, Zenon DEF QepoCarried, Waiting
<1>8. CASE TakeQepoDone
  <2>1. mainq \in MainQueue /\ mainq # <<>> /\ Head(mainq)[2] \in {"SUCCESS", "FAIL"}
    BY <1>1, <1>8, QueueType DEF Typed, TakeQepoDone, Messages
  <2>2. told' = Idle \/ \E r \in QepoResponse(Head(mainq)[2]) : told' = <<Head(mainq)[2], r>>
    BY <1>8, Zenon DEF TakeQepoDone
  <2>3. told' # Waiting
    BY <2>1, <2>2 DEF Idle, Waiting
  <2> QED
    BY <2>3, Zenon DEF QepoCarried, Waiting
<1>9. CASE EpoEnds
  <2> DEFINE m == <<"EPO", IF epo.count # 0 THEN "FAIL" ELSE "SUCCESS">>
  <2>1. m \in Messages /\ SendMain(m)
    BY <1>9 DEF EpoEnds, Messages
  <2>2. (lost => lost') /\ (Dones("QEPO") # {} => Dones("QEPO")' # {})
    BY <1>1, <2>1, SendCarries
  <2>3. qepoq' = qepoq /\ qepo' = qepo /\ told' = told
    BY <1>9, Zenon DEF EpoEnds, qepoVars
  <2> QED
    BY <1>1, <2>2, <2>3, Zenon DEF QepoCarried, Waiting
<1>10. CASE MnlRequestsQepo
  <2>1. qepoq' > 0
    BY <1>1, <1>10, ConstantTypes DEF Typed, MnlRequestsQepo
  <2> QED
    BY <2>1, Zenon DEF QepoCarried
<1>11. CASE QepoTake
  <2>1. qepo'.pc = "try"
    BY <1>1, <1>11 DEF Typed, QepoRecords, QepoTake
  <2> QED
    BY <2>1, Zenon DEF QepoCarried
<1>12. CASE QepoTries
  <2>1. qepo'.pc = "try" \/ lost' \/ Dones("QEPO")' # {}
    BY <1>1, <1>12, QepoTriesSends
  <2> QED
    BY <2>1, Zenon DEF QepoCarried
<1>13. CASE MnldRestarts
  <2>1. told' # Waiting
    BY <1>13 DEF MnldRestarts, Idle, Waiting
  <2> QED
    BY <2>1, Zenon DEF QepoCarried, Waiting
<1> QED
  BY <1>1, <1>3, <1>4, <1>5, <1>6, <1>7, <1>8, <1>9, <1>10, <1>11, <1>12, <1>13, Zenon
     DEF Next, EpoLoop

LEMMA RetryStillComes == Typed /\ RetryComes /\ [Next]_vars => RetryComes'
<1>1. SUFFICES ASSUME Typed, RetryComes, [Next]_vars, ~epo'.retry PROVE armed'
  BY Zenon DEF RetryComes
<1>2. ASSUME NEW a, TriggerDownload(a) PROVE epo'.retry = epo.retry
  BY <1>1, <1>2, TriggerType DEF Typed, EpoRecords
<1>3. ASSUME NEW c \in BOOLEAN, NEW w \in BOOLEAN, hal_update_network_state(c, w)
      PROVE  armed'
  BY <1>1, <1>2, <1>3, Zenon DEF hal_update_network_state, RetryComes
<1>4. CASE hal_gps_start
  BY <1>1, <1>2, <1>4, Zenon DEF hal_gps_start, RetryComes
<1>5. CASE GpsStarts \/ GpsStops \/ ServerUpdates \/ TakeEpoDone \/ TakeQepoDone
           \/ MnlRequestsQepo \/ QepoTake \/ QepoTries \/ UNCHANGED vars
  BY <1>1, <1>5, Zenon DEF GpsStarts, GpsStops, ServerUpdates, TakeEpoDone, TakeQepoDone,
     MnlRequestsQepo, QepoTake, QepoTries, vars, epoVars, RetryComes
<1>6. CASE EpoTake \/ EpoWaits \/ EpoEnds
  <2>1. epo'.retry = epo.retry /\ armed' = armed
    BY <1>1, <1>6, Zenon DEF Typed, EpoRecords, EpoTake, EpoWaits, Delayed, EpoEnds
  <2> QED
    BY <1>1, <2>1, Zenon DEF RetryComes
<1>7. CASE EpoFetches
  <2> DEFINE e == [epo EXCEPT !.failed = FALSE]
  <2>1. PICK o \in mtk_gps_epo_file_update(e) :
          Becomes([o.epo EXCEPT !.updated = @ /\ ~o.epo.failed], o)
    BY <1>7, Zenon DEF EpoFetches
  <2>2. e \in EpoRecords /\ e.pc = "loop" /\ e.count = epo.count /\ e.retry = epo.retry
    BY <1>1, <1>7, Zenon DEF Typed, EpoRecords, EpoFetches, EpoPolls
  <2> HIDE DEF e
  <2>3. o.epo \in EpoRecords
    BY <1>1, <2>2, FetchType DEF Outcomes
  <2>4. o.epo.retry = e.retry
    <3>1. CASE o \in FetchFailures(e)
      BY <2>2, <3>1 DEF FetchFailures, Outcome, EpoRecords
    <3>2. CASE o = Fetched(e)
      BY <2>2, <3>2 DEF Fetched, Outcome, EpoRecords
    <3> QED
      BY <3>1, <3>2 DEF mtk_gps_epo_file_update
  <2>5. epo'.retry = epo.retry
    BY <2>1, <2>2, <2>3, <2>4 DEF Becomes, EpoRecords
  <2> QED
    BY <1>1, <1>7, <2>5, Zenon DEF EpoFetches, RetryComes
<1>8. CASE EpoRetries
  BY <1>1, <1>8, Zenon DEF EpoRetries, Becomes
<1>9. CASE retry_alarm_timeout_handler
  <2>1. epo'.retry
    BY <1>1, <1>9, Zenon DEF Typed, EpoRecords, retry_alarm_timeout_handler
  <2> QED
    BY <1>1, <2>1
<1>10. CASE MnldRestarts
  <2>1. epo'.retry
    BY <1>10, Zenon DEF MnldRestarts, EpoStart
  <2> QED
    BY <1>1, <2>1
<1> QED
  BY <1>1, <1>3, <1>4, <1>5, <1>6, <1>7, <1>8, <1>9, <1>10, Zenon DEF Next, EpoLoop

\* The flag is_epo_downloading is never left set by nobody (mnld.c:663, 1238), and a
\* loop that waits for its retry has its timer armed (epo.c:133): the safety half of
\* EpoDownloadEnds.
THEOREM DownloadCarriedHolds == Spec => [](DownloadCarried /\ RetryComes)
<1>1. Init => DownloadCarried /\ RetryComes
  <2>1. SUFFICES ASSUME Init PROVE DownloadCarried /\ RetryComes
    OBVIOUS
  <2>2. downloading = FALSE /\ epo.retry = TRUE
    BY <2>1, Zenon DEF Init, EpoStart
  <2> QED
    BY <2>2, Zenon DEF DownloadCarried, RetryComes
<1>2. Typed /\ DownloadCarried /\ RetryComes /\ [Next]_vars => (DownloadCarried /\ RetryComes)'
  BY DownloadStaysCarried, RetryStillComes, Zenon
<1>3. IInv => Typed
  BY Types DEF IInv
<1> QED
  BY <1>1, <1>2, <1>3, Invariance, PTL DEF Spec

\* A QEPO request of MNL is never forgotten by all threads (gps_controller.c:1527,
\* qepo.c:308): the safety half of QepoAnswered.
THEOREM QepoCarriedHolds == Spec => []QepoCarried
<1>1. Init => QepoCarried
  BY DEF Init, QepoCarried, Idle, Waiting
<1>2. IInv => Typed
  BY Types DEF IInv
<1> QED
  BY <1>1, <1>2, QepoStaysCarried, Invariance, PTL DEF Spec
=============================================================================
