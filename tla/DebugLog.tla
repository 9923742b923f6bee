----------------------------- MODULE DebugLog -----------------------------
(***************************************************************************)
(* The debug log of mnld (gps_dbg_log.c): MNL copies messages into one of  *)
(* two buffers, a logger thread writes full buffers to a file, mtklogger   *)
(* switches the log on and off through the main thread, and the control    *)
(* thread creates and ends the logger with every GPS session.              *)
(*                                                                         *)
(* A message is its number; a buffer is the sequence of its messages.      *)
(***************************************************************************)
EXTENDS Integers, Sequences, FiniteSets

CONSTANTS
  Threads,    \* identities for logger threads
  BufCap,     \* messages that fit into a buffer
  MaxMsg,     \* bound: messages MNL produces
  MaxFiles,   \* bound: files opened
  Dbg2File,   \* mnl_config.dbg2file: every start switches the log on
  Overlap     \* how far a session may overlap with its logger thread:
              \* "early_stop": GPS is stopped before the thread has begun
              \* "early_start": GPS is started before the last one has ended

ASSUME DebugLogConstants ==
  /\ IsFiniteSet(Threads) /\ Threads # {}
  /\ BufCap \in Nat \ {0} /\ MaxMsg \in Nat /\ MaxFiles \in Nat
  /\ Dbg2File \in BOOLEAN /\ Overlap \subseteq {"early_stop", "early_start"}

VARIABLES
  mnl,     \* MNL runs
  dbg,     \* gps_debuglog_state is ENABLE_DEBUG_MSG_WR_BY_MNLD
  exit,    \* g_gpsdbglogThreadExit
  inited,  \* g_pingpang_init
  buf,     \* the two buffers: state and messages
  next,    \* the buffer next_write points into, 0 for NULL
  file,    \* g_hLogFile: 0 for NULL, else the number of the opened file
  opened,  \* files opened so far
  cond,    \* the conditions WRITE and FLUSH of lock_for_sync
  log,     \* each logger thread: where it is and the FILE* it holds
  writer,  \* MNL's thread: "idle", or "copy" after the tests of dbg2file
  msgs,    \* messages produced so far
  out,     \* the messages written to files, in order
  bad      \* history: what should not happen

vars == <<mnl, dbg, exit, inited, buf, next, file, opened, cond, log, writer,
          msgs, out, bad>>

States == {"NOTINIT", "WRITABLE", "WRITING", "READABLE", "READING"}
Pcs == {"none", "init", "wait", "write", "flush", "drain"}
Alive == "null" \notin bad
Other(b) == 3 - b
Buffer(s) == [st |-> s, data |-> <<>>]

TypeOK ==
  /\ {mnl, dbg, exit, inited} \subseteq BOOLEAN
  /\ buf \in [1..2 -> [st : States, data : Seq(1..MaxMsg)]]
  /\ \A b \in 1..2 : Len(buf[b].data) <= BufCap
  /\ next \in 0..2 /\ opened \in 0..MaxFiles /\ file \in 0..opened
  /\ cond \in [{"WRITE", "FLUSH"} -> BOOLEAN]
  /\ log \in [Threads -> [pc : Pcs, filp : 0..MaxFiles]]
  /\ writer \in {"idle", "copy"} /\ msgs \in 0..MaxMsg /\ out \in Seq(1..MaxMsg)
  /\ bad \subseteq {"abnormal", "null", "stale"}

Init ==
  /\ mnl = FALSE /\ dbg = FALSE /\ exit = TRUE /\ inited = FALSE
  /\ buf = [b \in 1..2 |-> Buffer("NOTINIT")] /\ next = 0
  /\ file = 0 /\ opened = 0
  /\ cond = [c \in {"WRITE", "FLUSH"} |-> FALSE]
  /\ log = [t \in Threads |-> [pc |-> "none", filp |-> 0]]
  /\ writer = "idle" /\ msgs = 0 /\ out = <<>> /\ bad = {}

-----------------------------------------------------------------------------
(* Operations on the buffers.                                               *)

Writing == {b \in 1..2 : buf[b].st = "WRITING"}

\* gps_dbg_log_pingpang_init()
pingpang_init ==
  /\ inited' = TRUE /\ next' = 1
  /\ buf' = [b \in 1..2 |-> Buffer(IF b = 1 THEN "WRITING" ELSE "WRITABLE")]

InitUnlessDone(wanted) ==
  IF wanted /\ ~inited THEN pingpang_init ELSE UNCHANGED <<inited, next, buf>>

\* create_debug_log_file(): closes the open file and opens another one, whose
\* number is new.
create_debug_log_file ==
  \/ UNCHANGED <<file, opened>>             \* mkdir() fails
  \/ file' = 0 /\ UNCHANGED opened          \* open() fails
  \/ opened < MaxFiles /\ opened' = opened + 1 /\ file' = opened + 1

\* gps_dbg_log_pingpang_copy() of message m: a full buffer is handed to the
\* logger when the other one is writable, else its messages are given up.
CopyInto_Overwrite(b, m) ==
  /\ buf' = IF Len(buf[b].data) < BufCap
            THEN [buf EXCEPT ![b].data = Append(@, m)]
            ELSE [buf EXCEPT ![b].st = "READABLE",
                             ![Other(b)] = [st |-> "WRITING", data |-> <<m>>]]
  /\ next' = IF Len(buf[b].data) < BufCap THEN b ELSE Other(b)
  /\ cond' = [cond EXCEPT !.WRITE = @ \/ Len(buf[b].data) = BufCap]

CopyInto_NotFull(b, m) ==
  buf' = [buf EXCEPT ![b].data = Append(@, m)] /\ UNCHANGED <<next, cond>>

CopyInto(b, m) ==
  IF Len(buf[b].data) < BufCap
  THEN buf' = [buf EXCEPT ![b].data = Append(@, m)] /\ UNCHANGED <<next, cond>>
  ELSE IF buf[Other(b)].st = "WRITABLE"
  THEN /\ buf' = [buf EXCEPT ![b].st = "READABLE",
                             ![Other(b)] = [st |-> "WRITING", data |-> <<m>>]]
       /\ next' = Other(b) /\ cond' = [cond EXCEPT !.WRITE = TRUE]
  ELSE /\ buf' = [buf EXCEPT ![b].data = <<m>>]
       /\ next' = b /\ UNCHANGED cond

-----------------------------------------------------------------------------
(* MNL's thread: mnl_sys_alps_gps_dbg2file_mnld() tests, then copies.  When  *)
(* the buffers are gone in between, it copies through NULL and mnld dies.    *)

DbgTests ==
  /\ Alive /\ mnl /\ writer = "idle" /\ msgs < MaxMsg /\ dbg /\ next # 0
  /\ writer' = "copy"
  /\ UNCHANGED <<mnl, dbg, exit, inited, buf, next, file, opened, cond, log,
                 msgs, out, bad>>

DbgCopies ==
  /\ Alive /\ writer = "copy" /\ writer' = "idle" /\ msgs' = msgs + 1
  /\ IF next = 0
     THEN bad' = bad \cup {"null"} /\ UNCHANGED <<buf, next, cond>>
     ELSE IF Cardinality(Writing) # 1
     THEN bad' = bad \cup {"abnormal"} /\ UNCHANGED <<buf, next, cond>>
     ELSE (\E b \in Writing : CopyInto(b, msgs + 1)) /\ UNCHANGED bad
  /\ UNCHANGED <<mnl, dbg, exit, inited, file, opened, log, out>>

-----------------------------------------------------------------------------
(* The main thread: messages of mtklogger.                                   *)

\* deep_start: mtklog_gps_set_debug_file() when GPS is running.
deep_start ==
  /\ Alive /\ dbg' = TRUE
  /\ IF mnl THEN InitUnlessDone(TRUE) /\ create_debug_log_file
            ELSE UNCHANGED <<inited, next, buf, file, opened>>
  /\ UNCHANGED <<mnl, exit, cond, log, writer, msgs, out, bad>>

deep_stop_Releases ==
  /\ Alive /\ dbg' = FALSE /\ cond' = [c \in {"WRITE", "FLUSH"} |-> TRUE]
  /\ UNCHANGED <<mnl, exit, inited, buf, next, file, opened, log, writer, msgs,
                 out, bad>>

deep_stop ==
  /\ Alive /\ dbg' = FALSE
  /\ UNCHANGED <<mnl, exit, inited, buf, next, file, opened, cond, log, writer,
                 msgs, out, bad>>

-----------------------------------------------------------------------------
(* The control thread.                                                       *)

\* linux_gps_init(): gps_dbg_log_thread_init(), then mtk_gps_mnl_run().
gps_dbg_log_thread_init(t) ==
  /\ Alive /\ ~mnl /\ mnl' = TRUE
  /\ log[t].pc = "none"
  /\ "early_start" \in Overlap \/ \A u \in Threads : log[u].pc = "none"
  /\ dbg' = (dbg \/ Dbg2File)
  /\ exit' = FALSE
  /\ log' = [log EXCEPT ![t] = [pc |-> "init", filp |-> 0]]
  /\ UNCHANGED <<inited, buf, next, file, opened, cond, writer, msgs, out, bad>>

\* mnld_gps_stop_impl(): MNL is stopped first, so that nobody writes any more.
gps_stop_dbglog_release_condition_NoFlush ==
  /\ Alive /\ mnl /\ mnl' = FALSE /\ writer = "idle"
  /\ "early_stop" \in Overlap \/ \A t \in Threads : log[t].pc # "init"
  /\ exit' = TRUE /\ cond' = [cond EXCEPT !.WRITE = TRUE]
  /\ UNCHANGED <<dbg, inited, buf, next, file, opened, log, writer, msgs, out, bad>>

gps_stop_dbglog_release_condition ==
  /\ Alive /\ mnl /\ mnl' = FALSE /\ writer = "idle"
  /\ "early_stop" \in Overlap \/ \A t \in Threads : log[t].pc # "init"
  /\ exit' = TRUE
  /\ cond' = IF exit THEN cond ELSE [c \in {"WRITE", "FLUSH"} |-> TRUE]
  /\ UNCHANGED <<dbg, inited, buf, next, file, opened, log, writer, msgs, out, bad>>

-----------------------------------------------------------------------------
(* A logger thread.                                                          *)

\* pc of a thread that returns to the head of the loop
AfterLoop(t) == IF exit THEN "drain" ELSE "wait"

\* gps_dbg_log_thread() up to its loop.
LoggerBegins(t) ==
  /\ Alive /\ log[t].pc = "init"
  /\ cond' = [c \in {"WRITE", "FLUSH"} |-> FALSE]
  /\ InitUnlessDone(dbg)
  /\ IF dbg THEN \/ file' = 0 /\ UNCHANGED opened
                 \/ opened < MaxFiles /\ opened' = opened + 1 /\ file' = opened + 1
            ELSE file' = 0 /\ UNCHANGED opened
  /\ log' = [log EXCEPT ![t].pc = AfterLoop(t)]
  /\ UNCHANGED <<mnl, dbg, exit, writer, msgs, out, bad>>

\* Flushing ends with the buffers freed and the file closed.
FreeAndClose ==
  /\ inited' = FALSE /\ next' = 0 /\ file' = 0
  /\ buf' = [b \in 1..2 |-> Buffer("NOTINIT")]

\* The logger gets WRITE while the log is switched on.  The directory may have
\* become inaccessible; a full file is followed by a new one, whose opening may
\* fail, which leaves the loop; then a readable buffer is taken.
Readable == {b \in 1..2 : buf[b].st = "READABLE" /\ buf[Other(b)].st # "READABLE"}

Take(t, f) ==
  IF f # 0 /\ Readable # {}
  THEN /\ buf' = [b \in 1..2 |-> IF b \in Readable THEN [buf[b] EXCEPT !.st = "READING"]
                                                   ELSE buf[b]]
       /\ log' = [log EXCEPT ![t] = [pc |-> "write", filp |-> f]]
  ELSE UNCHANGED buf /\ log' = [log EXCEPT ![t].pc = AfterLoop(t)]

LoggerWakes(t) ==
  /\ Alive /\ log[t].pc = "wait" /\ cond.WRITE /\ dbg
  /\ cond' = [cond EXCEPT !.WRITE = FALSE]
  /\ \/ /\ file' = 0 /\ dbg' = FALSE /\ Take(t, 0)
        /\ UNCHANGED opened
     \/ Take(t, file) /\ UNCHANGED <<dbg, file, opened>>
     \/ /\ file # 0 /\ opened < MaxFiles
        /\ opened' = opened + 1 /\ file' = opened + 1
        /\ Take(t, file') /\ UNCHANGED dbg
     \/ /\ file # 0 /\ file' = 0
        /\ log' = [log EXCEPT ![t] = [pc |-> "none", filp |-> 0]]
        /\ UNCHANGED <<dbg, opened, buf>>
  /\ UNCHANGED <<mnl, exit, inited, next, writer, msgs, out, bad>>

Stale(t) == IF log[t].filp # file THEN {"stale"} ELSE {}

\* gps_dbg_log_pingpang_write(): the buffer is written and writable again.
LoggerWrites(t) ==
  /\ Alive /\ log[t].pc = "write"
  /\ \E b \in 1..2 :
       /\ buf[b].st = "READING"
       /\ out' = out \o buf[b].data
       /\ buf' = [buf EXCEPT ![b] = Buffer("WRITABLE")]
  /\ bad' = bad \cup Stale(t)
  /\ log' = [log EXCEPT ![t] = [pc |-> AfterLoop(t), filp |-> 0]]
  /\ UNCHANGED <<mnl, dbg, exit, inited, next, file, opened, cond, writer, msgs>>

\* The logger gets WRITE while the log is switched off.
LoggerSwitchedOff(t) ==
  /\ Alive /\ log[t].pc = "wait" /\ cond.WRITE /\ ~dbg
  /\ cond' = [cond EXCEPT !.WRITE = FALSE]
  /\ IF inited /\ file # 0
     THEN /\ log' = [log EXCEPT ![t] = [pc |-> "flush", filp |-> file]]
          /\ UNCHANGED <<inited, next, buf, file>>
     ELSE /\ log' = [log EXCEPT ![t].pc = AfterLoop(t)]
          /\ IF inited THEN FreeAndClose ELSE UNCHANGED <<inited, next, buf, file>>
  /\ UNCHANGED <<mnl, dbg, exit, opened, writer, msgs, out, bad>>

\* After the loop: nothing is left to do without an open file.
LoggerLeaves(t) ==
  /\ Alive /\ log[t].pc = "drain"
  /\ IF inited /\ file # 0
     THEN log' = [log EXCEPT ![t] = [pc |-> "flush", filp |-> file]] /\ UNCHANGED file
     ELSE log' = [log EXCEPT ![t].pc = "none"] /\ file' = 0
  /\ UNCHANGED <<mnl, dbg, exit, inited, buf, next, opened, cond, writer, msgs, out, bad>>

\* gps_dbg_log_pingpang_flush(): waits for FLUSH, writes what is readable, then
\* what is being written, and leaves FLUSH released.
Flushed_Swapped ==
  LET b == CHOOSE b \in Writing : TRUE
  IN buf[b].data \o (IF buf[Other(b)].st = "READABLE" THEN buf[Other(b)].data ELSE <<>>)

Flushed ==
  LET b == CHOOSE b \in Writing : TRUE
  IN (IF buf[Other(b)].st = "READABLE" THEN buf[Other(b)].data ELSE <<>>) \o buf[b].data

LoggerFlushes(t) ==
  /\ Alive /\ log[t].pc = "flush" /\ cond.FLUSH
  /\ IF Cardinality(Writing) = 1
     THEN out' = out \o Flushed /\ bad' = bad \cup Stale(t)
     ELSE UNCHANGED out /\ bad' = bad \cup {"abnormal"}
  /\ FreeAndClose
  /\ log' = [log EXCEPT ![t] = [pc |-> AfterLoop(t), filp |-> 0]]
  /\ UNCHANGED <<mnl, dbg, exit, opened, cond, writer, msgs>>

-----------------------------------------------------------------------------
Logger(t) ==
  \/ LoggerBegins(t) \/ LoggerWakes(t) \/ LoggerWrites(t)
  \/ LoggerSwitchedOff(t) \/ LoggerLeaves(t) \/ LoggerFlushes(t)

\* init starts a dead mnld again; the files remain.
Restart ==
  /\ "null" \in bad /\ bad' = bad \ {"null"}
  /\ mnl' = FALSE /\ dbg' = FALSE /\ exit' = TRUE
  /\ FreeAndClose
  /\ cond' = [c \in {"WRITE", "FLUSH"} |-> FALSE]
  /\ log' = [t \in Threads |-> [pc |-> "none", filp |-> 0]]
  /\ writer' = "idle" /\ UNCHANGED <<opened, msgs, out>>

Next ==
  \/ Restart
  \/ DbgTests \/ DbgCopies
  \/ deep_start \/ deep_stop
  \/ (\E t \in Threads : gps_dbg_log_thread_init(t))
  \/ gps_stop_dbglog_release_condition
  \/ (\E t \in Threads : Logger(t))

Spec == Init /\ [][Next]_vars

\* Logger threads are scheduled, and so is a writer between its test and its copy;
\* init restarts mnld.
Fairness ==
  /\ WF_vars(DbgCopies) /\ WF_vars(Restart)
  /\ \A t \in Threads : WF_vars(Logger(t))
FairSpec == Spec /\ Fairness

-----------------------------------------------------------------------------
\* The messages in the files are in the order in which MNL produced them, whole
\* buffers are missing at most, whatever is switched on and off meanwhile.
LogInOrder == \A i \in 1..(Len(out) - 1) : out[i] < out[i + 1]

\* The copy takes no lock, yet MNL and the logger never use the same buffer: one
\* buffer is being written, next_write points into it, and a logger that writes
\* to the file has the other one.  So the two "abnormal happens" of
\* gps_dbg_log_pingpang_copy() and _flush() are not reached.
BuffersExclusive ==
  /\ "abnormal" \notin bad
  /\ inited => Writing = {next}
  /\ \A t \in Threads : log[t].pc = "write" => \E b \in 1..2 : buf[b].st = "READING"

\* A logger thread that was told to stop ends.
LoggerEnds == \A t \in Threads : (exit /\ log[t].pc # "none") ~> (log[t].pc = "none" \/ ~exit)

\* "make sure will not copy to pingpang again": when gps_dbg_log_pingpang_flush()
\* takes next_write away, MNL is not in the middle of a copy.  Nothing but the
\* order of the calls ensures it: FLUSH is released after MNL has been stopped.
NotCopiedAgain ==
  [][\A t \in Threads : log[t].pc = "flush" /\ log'[t].pc # "flush"
                          => writer = "idle" \/ ~Alive]_vars
=============================================================================
