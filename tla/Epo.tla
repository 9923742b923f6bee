-------------------------------- MODULE Epo --------------------------------
(***************************************************************************)
(* Download of satellite predictions (EPO) and of quarter-day predictions  *)
(* (QEPO) by mnld: epo.c, qepo.c and the parts of mnld.c and               *)
(* gps_controller.c that start a download and use its result.              *)
(*                                                                         *)
(* An EPO download fetches the pieces 0, 1, ... of three days each and     *)
(* appends them to EPOHAL.DAT.  The server publishes one edition a day;    *)
(* a piece is represented by its number and its edition.                   *)
(***************************************************************************)
EXTENDS Integers, Sequences

CONSTANTS
  Days,          \* gps_epo_download_days, from gps.conf
  EpoEnabled,    \* gps_epo_enable
  WifiTrigger,   \* gps_epo_wifi_trigger
  RetryLimit,    \* retries of one file before a download gives up (10)
  DelayLimit,    \* polls without a network before it gives up (10)
  TryLimit,      \* further tries of a QEPO download (10)
  ShortReplies,  \* can a reply be shorter than one satellite record?
  EpoCap,        \* capacity of the EPO and QEPO sockets
  MainCap,       \* capacity of MNLD_MAIN_SOCKET
  LastEdition,   \* bound: the server publishes editions 1 .. LastEdition
  MaxRequests    \* bound: QEPO requests of MNL

ASSUME EpoConstants ==
  /\ Days \in Nat /\ LastEdition \in Nat \ {0}
  /\ {EpoEnabled, WifiTrigger, ShortReplies} \subseteq BOOLEAN
  /\ {RetryLimit, DelayLimit, TryLimit, MaxRequests} \subseteq Nat
  /\ {EpoCap, MainCap} \subseteq Nat \ {0}

VARIABLES
  net,          \* [connected, wifi]: is_network_connected, is_wifi_connected
  gps,          \* the session: "off", "starting" or "started"
  downloading,  \* is_epo_downloading
  mainq,        \* MNLD_MAIN_SOCKET, completions of downloads only
  epoq, qepoq,  \* starts waiting for the EPO and for the QEPO thread
  epo,          \* the static variables of epo.c and where its thread is
  armed,        \* retry_download_timer is running
  hal, dat,     \* EPOHAL.DAT and EPO.DAT as sequences of pieces
  piece,        \* edition of each piece file on disk (0: no file)
  server,       \* the edition the server publishes, which is also the day
  qepo,         \* the static variables of qepo.c and where its thread is
  told,         \* history: MNL's last QEPO request and what it was told
  lost,         \* history: a start or a completion was dropped
  asked         \* bound: QEPO requests made

epoVars == <<epo, armed, hal, piece>>
qepoVars == <<qepo, told, asked>>
vars == <<net, gps, downloading, mainq, epoq, qepoq, epoVars, dat, server,
          qepoVars, lost>>

Short == -1                                    \* edition of a piece too short to read
NoFile == 50                                   \* file_retrying: none yet

\* Number of files a download has to fetch: one per three days, at most ten.
CountTemp == (Days + 2) \div 3
Complete(n) == ~(n < 10 /\ n < CountTemp)
Pieces == CHOOSE n \in 1..10 : Complete(n) /\ \A m \in 1..(n - 1) : ~Complete(m)

Idle == <<"idle", "none">>
Waiting == <<"waiting", "none">>
Responses == {"UPDATE_SUCCESS", "UPDATE_FAIL", "DOWNLOAD_FAIL"}

Piece(n, e) == [n |-> n, edition |-> e]
Readable(file) == file # <<>> /\ file[1].edition # Short

TypeOK ==
  /\ net \in [connected : BOOLEAN, wifi : BOOLEAN]
  /\ gps \in {"off", "starting", "started"}
  /\ downloading \in BOOLEAN /\ armed \in BOOLEAN /\ lost \in BOOLEAN
  /\ mainq \in Seq({"EPO", "QEPO"} \X {"SUCCESS", "FAIL"})
  /\ Len(mainq) <= MainCap
  /\ epoq \in 0..EpoCap /\ qepoq \in 0..EpoCap
  /\ epo \in [pc : {"wait", "loop"}, updated : BOOLEAN, failed : BOOLEAN,
              count : 0..9, retry : BOOLEAN, delay : 0..DelayLimit,
              file_retrying : 0..9 \cup {NoFile}, retry_time : 0..RetryLimit]
  /\ {hal, dat} \subseteq Seq([n : 0..9, edition : {Short} \cup 1..LastEdition])
  /\ piece \in [0..9 -> {Short} \cup 0..LastEdition]
  /\ server \in 1..LastEdition
  /\ qepo \in [pc : {"wait", "try"}, left : 0..TryLimit, res : BOOLEAN,
               stale : BOOLEAN, file : {"none", "valid", "other", "broken"}]
  /\ told \in ({"idle", "waiting"} \X {"none"}) \cup ({"SUCCESS", "FAIL"} \X Responses)
  /\ asked \in 0..MaxRequests

EpoStart == [pc |-> "wait", updated |-> FALSE, failed |-> FALSE, count |-> 0,
             retry |-> TRUE, delay |-> 0, file_retrying |-> NoFile,
             retry_time |-> 0]
QepoStart == [pc |-> "wait", left |-> TryLimit, res |-> TRUE, stale |-> FALSE,
              file |-> "none"]

Init ==
  /\ net = [connected |-> FALSE, wifi |-> FALSE] /\ gps = "off"
  /\ downloading = FALSE /\ mainq = <<>> /\ epoq = 0 /\ qepoq = 0
  /\ epo = EpoStart /\ armed = FALSE
  /\ hal = <<>> /\ dat = <<>> /\ piece = [n \in 0..9 |-> 0] /\ server = 1
  /\ qepo = QepoStart /\ told = Idle /\ asked = 0 /\ lost = FALSE

-----------------------------------------------------------------------------
(* Sockets and files.                                                       *)

\* safe_sendto() on MNLD_MAIN_SOCKET: the socket carries every other event
\* of the main thread too, so it may be full whatever is in mainq.
SendMain(m) ==
  \/ Len(mainq) < MainCap /\ mainq' = Append(mainq, m) /\ UNCHANGED lost
  \/ mainq' = mainq /\ lost' = TRUE

\* mtk_gps_epo_file_time_hal(): EPOHAL.DAT when it exists, else EPO.DAT.
NewestFile == IF hal # <<>> THEN hal ELSE dat

ExpiredAfter(days) ==
  CASE days < 3 -> 0 [] days \in 3..5 -> 2 [] days \in 6..8 -> 5 [] OTHER -> 7

\* mtk_epo_is_expired(0), without its side effect on the file counter.
Expired ==
  \/ ~Readable(NewestFile)
  \/ server - NewestFile[1].edition >= ExpiredAfter(3 * Len(NewestFile))

-----------------------------------------------------------------------------
(* Main thread.                                                             *)

\* The conditions of the triggers are evaluated from the left, and the expiry
\* test writes gps_epo_file_count, a variable of the EPO thread.
ExpiryTested(allowed) == allowed /\ ~downloading

\* epo_downloader_start(), its result ignored.
epo_downloader_start ==
  /\ epoq' = IF epoq < EpoCap THEN epoq + 1 ELSE epoq
  /\ lost' = (lost \/ epoq = EpoCap)

BeginDownload_NoFlag == epo_downloader_start /\ UNCHANGED downloading
BeginDownload == epo_downloader_start /\ downloading' = TRUE

TriggerDownload_ResetsFirst(allowed) ==
  /\ epo' = [epo EXCEPT !.count = IF allowed THEN 0 ELSE @]
  /\ IF allowed /\ ~downloading /\ Expired /\ EpoEnabled
     THEN BeginDownload
     ELSE UNCHANGED <<downloading, epoq, lost>>

TriggerDownload(allowed) ==
  /\ epo' = [epo EXCEPT !.count =
               IF ExpiryTested(allowed) /\ Expired THEN 0 ELSE @]
  /\ IF allowed /\ ~downloading /\ Expired /\ EpoEnabled
     THEN BeginDownload
     ELSE UNCHANGED <<downloading, epoq, lost>>

hal_update_network_state(connected, wifi) ==
  /\ net' = [connected |-> connected, wifi |-> wifi /\ connected]
  /\ TriggerDownload(connected /\ (gps # "off" \/ (wifi /\ WifiTrigger)))
  /\ UNCHANGED <<gps, mainq, qepoq, armed, hal, piece, dat, server, qepoVars>>

\* hal_gps_start(): the trigger does not look at the network.
hal_gps_start ==
  /\ TriggerDownload(TRUE)
  /\ gps' = IF gps = "off" THEN "starting" ELSE gps
  /\ UNCHANGED <<net, mainq, qepoq, armed, hal, piece, dat, server, qepoVars>>

\* mtk_agps_agent_epo_file_update(): MNL replaces EPO.DAT by EPOHAL.DAT.
AgentUpdatesFile == dat' \in {hal, dat}

\* linux_gps_init() hands an existing EPOHAL.DAT to MNL, complete or not.
GpsStarts ==
  /\ gps = "starting" /\ gps' = "started"
  /\ IF hal = <<>> THEN UNCHANGED dat ELSE AgentUpdatesFile
  /\ UNCHANGED <<net, downloading, mainq, epoq, qepoq, epoVars, server,
                 qepoVars, lost>>

GpsStops ==
  /\ gps # "off" /\ gps' = "off"
  /\ UNCHANGED <<net, downloading, mainq, epoq, qepoq, epoVars, dat, server,
                 qepoVars, lost>>

\* EPO2MAIN_EVENT_EPO_DONE: the result is only logged; epo_update_epo_file()
\* unlinks EPOHAL.DAT when MNL has taken it over.
TakeEpoDone ==
  /\ mainq # <<>> /\ Head(mainq)[1] = "EPO"
  /\ mainq' = Tail(mainq) /\ downloading' = FALSE
  /\ \/ gps = "started" /\ hal # <<>> /\ dat' = hal /\ hal' = <<>>
     \/ UNCHANGED <<dat, hal>>
  /\ UNCHANGED <<net, gps, epoq, qepoq, epo, armed, piece, server, qepoVars, lost>>

\* qepo_update_quarter_epo_file(): on success MNL takes the file over or
\* refuses it; on failure the answer is Qepo_res, where 0 is UPDATE_SUCCESS.
QepoResponse(result) ==
  IF result = "SUCCESS" THEN {"UPDATE_SUCCESS", "UPDATE_FAIL"}
                        ELSE {IF qepo.res THEN "UPDATE_SUCCESS" ELSE "DOWNLOAD_FAIL"}

TakeQepoDone_Unanswered ==
  /\ mainq # <<>> /\ Head(mainq)[1] = "QEPO"
  /\ mainq' = Tail(mainq)
  /\ UNCHANGED <<net, gps, downloading, epoq, qepoq, epoVars, dat, server, qepoVars, lost>>

TakeQepoDone ==
  /\ mainq # <<>> /\ Head(mainq)[1] = "QEPO"
  /\ mainq' = Tail(mainq)
  /\ IF gps = "started"
     THEN \E r \in QepoResponse(Head(mainq)[2]) :
            /\ told' = <<Head(mainq)[2], r>>
            /\ qepo' = [qepo EXCEPT !.file =
                  IF <<Head(mainq)[2], r>> = <<"SUCCESS", "UPDATE_SUCCESS">>
                  THEN "none" ELSE @]
     ELSE told' = Idle /\ UNCHANGED qepo
  /\ UNCHANGED <<net, gps, downloading, epoq, qepoq, epoVars, dat, server, asked, lost>>

-----------------------------------------------------------------------------
(* EPO thread.  One iteration of the loop of epo_file_update_impl() is one   *)
(* step.                                                                     *)

\* mtk_gps_epo_server_data_is_changed(): the piece starts a day or more after
\* the end of the previous one (or that one has gone).
IsChanged_Never(edition) == FALSE
IsChanged(edition) ==
  /\ epo.count > 0
  /\ piece[epo.count - 1] = 0 \/ edition > piece[epo.count - 1]

\* curl_easy_download_epo() appends to EPOHAL.DAT, which is begun anew with
\* the first piece.
Appended(p) == Append(IF epo.count = 0 THEN <<>> ELSE hal, p)

Outcome(e, h, p) == [epo |-> e, hal |-> h, piece |-> p]

\* mtk_gps_epo_file_update(), called with the thread's state e.  The download
\* fails, or the reply is too short to read ...
FetchFailures(e) ==
  {Outcome([e EXCEPT !.failed = TRUE], hal, [piece EXCEPT ![e.count] = 0])}
    \cup IF ShortReplies
         THEN {Outcome([e EXCEPT !.failed = TRUE], Appended(Piece(e.count, Short)),
                       [piece EXCEPT ![e.count] = Short])}
         ELSE {}

\* ... or the piece is of a newer edition, the next or the last one.
Fetched(e) ==
  IF IsChanged(server)
  THEN Outcome([e EXCEPT !.count = 0], <<>>,
               [m \in 0..9 |-> IF m <= e.count THEN 0 ELSE piece[m]])
  ELSE LET file == Appended(Piece(e.count, server))
           onDisk == [piece EXCEPT ![e.count] = server]
       IN IF ~Complete(e.count + 1)
          THEN Outcome([e EXCEPT !.count = @ + 1], file, onDisk)
          ELSE Outcome([e EXCEPT !.count = 0, !.updated = FALSE, !.failed = FALSE],
                       file,
                       [m \in 0..9 |-> IF m < CountTemp THEN 0 ELSE onDisk[m]])

mtk_gps_epo_file_update(e) == FetchFailures(e) \cup {Fetched(e)}

Becomes(e, o) == epo' = e /\ hal' = o.hal /\ piece' = o.piece

\* MAIN2EPO_EVENT_START, up to the loop of epo_file_update_impl().
EpoTake ==
  /\ epo.pc = "wait" /\ epoq > 0 /\ epoq' = epoq - 1
  /\ epo' = [epo EXCEPT !.pc = "loop", !.updated = TRUE, !.failed = FALSE,
                        !.count = 0]
  /\ hal' = <<>> /\ dat' = <<>>
  /\ UNCHANGED <<net, gps, downloading, mainq, qepoq, armed, piece, server,
                 qepoVars, lost>>

EpoPolls == epo.pc = "loop" /\ qepo.pc = "wait"    \* is_qepo_download_finished()

EpoFetches ==
  /\ EpoPolls /\ epo.updated
  /\ \E o \in mtk_gps_epo_file_update([epo EXCEPT !.failed = FALSE]) :
       Becomes([o.epo EXCEPT !.updated = @ /\ ~o.epo.failed], o)
  /\ UNCHANGED <<net, gps, downloading, mainq, epoq, qepoq, armed, dat, server,
                 qepoVars, lost>>

\* After a retry that has not moved the counter, when it was before: wait
\* for the timer, or give up on this file.
RetryAccounted_EachFresh(before, e) ==
  IF before # e.count THEN e ELSE [e EXCEPT !.retry = FALSE, !.file_retrying = e.count]

RetryAccounted(before, e) ==
  IF before # e.count THEN e
  ELSE LET n == IF e.file_retrying = e.count THEN e.retry_time + 1 ELSE 0 IN
       IF n < RetryLimit
       THEN [e EXCEPT !.file_retrying = e.count, !.retry_time = n, !.retry = FALSE]
       ELSE [e EXCEPT !.file_retrying = NoFile, !.retry_time = 0,
                      !.failed = FALSE, !.delay = 0]

Retries ==
  LET e == [epo EXCEPT !.file_retrying = IF @ = NoFile THEN epo.count ELSE @] IN
  IF Readable(NewestFile) /\ server > NewestFile[1].edition
  THEN {Outcome([e EXCEPT !.failed = FALSE, !.count = 0, !.updated = TRUE,
                          !.delay = 0], <<>>, piece)}
  ELSE mtk_gps_epo_file_update(e)

\* epo_file_update_retry()
EpoRetries ==
  /\ EpoPolls /\ ~epo.updated /\ epo.failed
  /\ gps # "off" \/ net.wifi
  /\ net.connected /\ epo.retry
  /\ \E o \in Retries :
       /\ Becomes(RetryAccounted(epo.count, o.epo), o)
       /\ armed' = (armed \/ ~RetryAccounted(epo.count, o.epo).retry)
  /\ UNCHANGED <<net, gps, downloading, mainq, epoq, qepoq, dat, server,
                 qepoVars, lost>>

\* A poll without a network: give up after DelayLimit of them.
Delayed_TooOften(e) ==
  IF e.delay > DelayLimit THEN [e EXCEPT !.failed = FALSE, !.delay = 0]
                          ELSE [e EXCEPT !.delay = @ + 1]
Delayed(e) ==
  IF e.delay >= DelayLimit THEN [e EXCEPT !.failed = FALSE, !.delay = 0]
                           ELSE [e EXCEPT !.delay = @ + 1]

EpoWaits ==
  /\ EpoPolls /\ ~epo.updated /\ epo.failed
  /\ \/ /\ gps # "off" \/ net.wifi
        /\ ~net.connected /\ epo.retry
        /\ epo' = Delayed(epo)
     \/ /\ gps = "off" /\ ~net.wifi
        /\ epo' = [epo EXCEPT !.failed = FALSE, !.delay = 0]
  /\ UNCHANGED <<net, gps, downloading, mainq, epoq, qepoq, armed, hal, piece,
                 dat, server, qepoVars, lost>>

\* End of the loop, and mnld_epo_download_done().
EpoEnds ==
  /\ EpoPolls /\ ~epo.updated /\ ~epo.failed
  /\ epo' = [epo EXCEPT !.pc = "wait"]
  /\ SendMain(<<"EPO", IF epo.count # 0 THEN "FAIL" ELSE "SUCCESS">>)
  /\ UNCHANGED <<net, gps, downloading, epoq, qepoq, armed, hal, piece, dat,
                 server, qepoVars>>

EpoLoop == EpoFetches \/ EpoRetries \/ EpoWaits \/ EpoEnds

retry_alarm_timeout_handler ==
  /\ armed /\ armed' = FALSE
  /\ epo' = [epo EXCEPT !.retry = TRUE]
  /\ UNCHANGED <<net, gps, downloading, mainq, epoq, qepoq, hal, piece, dat,
                 server, qepoVars, lost>>

-----------------------------------------------------------------------------
(* QEPO thread.                                                              *)

\* MTK_AGPS_CB_QEPO_DOWNLOAD_REQ of MNL: gps_mnl_set_gps_time() moves the time
\* a file must cover, and qepo_downloader_start() queues the download.
MnlRequestsQepo ==
  /\ gps = "started" /\ asked < MaxRequests /\ asked' = asked + 1
  /\ told' = Waiting
  /\ qepoq' = IF qepoq < EpoCap THEN qepoq + 1 ELSE qepoq
  /\ lost' = (lost \/ qepoq = EpoCap)
  /\ \E f \in {qepo.file} \cup (IF qepo.file = "valid" THEN {"other"} ELSE {}) :
       qepo' = [qepo EXCEPT !.file = f]
  /\ UNCHANGED <<net, gps, downloading, mainq, epoq, epoVars, dat, server>>

QepoTake ==
  /\ qepo.pc = "wait" /\ qepoq > 0 /\ qepoq' = qepoq - 1
  /\ qepo' = [qepo EXCEPT !.pc = "try", !.left = TryLimit]
  /\ UNCHANGED <<net, gps, downloading, mainq, epoq, epoVars, dat, server, told,
                 asked, lost>>

\* quarter_epo_download_process(), its result and the file: no URL and nothing
\* changed, a failed download that truncated the file, or a file that covers the
\* time, covers another time, or cannot be read.
QepoDownloads ==
  {<<qepo.res, qepo.file>>, <<FALSE, "broken">>}
    \cup ({TRUE} \X {"valid", "other", "broken"})

\* One try with is_quarter_epo_valid(), which may find a file that is a day old.
QepoTried(stale) ==
  {[qepo EXCEPT !.res = d[1], !.file = d[2],
                !.stale = IF d[2] = "other" THEN stale ELSE @] : d \in QepoDownloads}

\* One pass of the loop of qepo_file_update_impl(); the last one ends the
\* download with mnld_qepo_download_done().
QepoTries ==
  /\ qepo.pc = "try"
  /\ \E stale \in BOOLEAN : \E q \in QepoTried(stale) :
       IF q.file # "valid" /\ q.left > 0 /\ net.connected
       THEN /\ qepo' = [q EXCEPT !.left = @ - 1]
            /\ UNCHANGED <<mainq, lost>>
       ELSE /\ qepo' = [q EXCEPT !.pc = "wait", !.left = TryLimit,
                                 !.res = @ /\ ~q.stale]
            /\ SendMain(<<"QEPO", IF q.file = "valid" THEN "SUCCESS" ELSE "FAIL">>)
  /\ UNCHANGED <<net, gps, downloading, epoq, qepoq, epoVars, dat, server, told,
                 asked>>

-----------------------------------------------------------------------------
(* Environment.                                                              *)

ServerUpdates ==
  /\ server < LastEdition /\ server' = server + 1
  /\ UNCHANGED <<net, gps, downloading, mainq, epoq, qepoq, epoVars, dat,
                 qepoVars, lost>>

\* mnld dies and init starts it again: files stay.
MnldRestarts ==
  /\ net' = [connected |-> FALSE, wifi |-> FALSE] /\ gps' = "off"
  /\ downloading' = FALSE /\ mainq' = <<>> /\ epoq' = 0 /\ qepoq' = 0
  /\ epo' = EpoStart /\ armed' = FALSE
  /\ qepo' = [QepoStart EXCEPT !.file = qepo.file] /\ told' = Idle
  /\ UNCHANGED <<hal, piece, dat, server, asked, lost>>

Next ==
  \/ \E c, w \in BOOLEAN : hal_update_network_state(c, w)
  \/ hal_gps_start \/ GpsStarts \/ GpsStops
  \/ TakeEpoDone \/ TakeQepoDone
  \/ EpoTake \/ EpoLoop \/ retry_alarm_timeout_handler
  \/ MnlRequestsQepo \/ QepoTake \/ QepoTries
  \/ ServerUpdates \/ MnldRestarts

Spec == Init /\ [][Next]_vars

\* Threads are scheduled and an armed timer expires; nothing is assumed of the
\* network, of the server, of MNL or of the framework.
Fairness ==
  /\ WF_vars(TakeEpoDone \/ TakeQepoDone)
  /\ WF_vars(EpoTake \/ EpoLoop) /\ WF_vars(retry_alarm_timeout_handler)
  /\ WF_vars(QepoTake \/ QepoTries)
FairSpec == Spec /\ Fairness

-----------------------------------------------------------------------------
(* Properties.                                                               *)

Dones(k) == {i \in 1..Len(mainq) : mainq[i][1] = k}
B(b) == IF b THEN 1 ELSE 0

(* is_epo_downloading accounts for one download at most: a start that waits,  *)
(* the loop of the EPO thread and a completion that waits exclude each other, *)
(* and none of them exists while the flag is clear (mnld.c:661, 1238).        *)
OneDownload ==
  /\ epoq + B(epo.pc = "loop") <= B(downloading)
  /\ Dones("EPO") # {} => downloading /\ epoq = 0 /\ epo.pc = "wait"
  /\ \A i, j \in Dones("EPO") : i = j

(* EPOHAL.DAT and the EPO.DAT made from it hold the pieces 0, 1, ... of one   *)
(* edition, without a gap, a repetition or a mixture, whatever fails, however *)
(* often a download is resumed, and also when MNL takes the file over in the  *)
(* middle of a download (epo.c:784, 960; gps_controller.c:1156).              *)
InOrder(file) ==
  \A i \in 1..Len(file) : /\ file[i].edition # Short
                           /\ file[i] = Piece(i - 1, file[1].edition)
FilesInOrder == InOrder(hal) /\ InOrder(dat)

(* The main thread never writes gps_epo_file_count while the EPO thread uses  *)
(* it in a download, although its expiry test resets it (epo.c:1076).         *)
CounterNotShared ==
  [][epo.pc = "loop" /\ epo'.count # epo.count => EpoLoop \/ MnldRestarts]_vars

(* A download ends, by success or by giving up, and the flag is cleared, so   *)
(* that a later one can begin (mnld.c:663, epo.c:133).  Two cases are         *)
(* excluded: a dropped message, and a file on disk that is older than what    *)
(* the server publishes, with which every retry begins anew (epo.c:113).      *)
Outdated == Readable(NewestFile) /\ server > NewestFile[1].edition
EpoDownloadEnds == []<>(~downloading \/ lost \/ Outdated)

(* A QEPO request of MNL is answered unless GPS stops or a message is lost    *)
(* (gps_controller.c:1527, qepo.c:308).                                       *)
QepoAnswered == []<>(told # Waiting \/ lost \/ gps # "started")
=============================================================================
