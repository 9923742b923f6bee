------------------------------- MODULE BtInit -------------------------------
(***************************************************************************)
(* Initialisation of the Bluetooth chip (bluetooth-mtk/driver/bluedroid).  *)
(* The stack calls the vendor library: FW_CFG and SCO_CFG create a thread  *)
(* that sends a script of HCI commands, one at a time, and waits for the   *)
(* completion of each; cleanup cancels the thread.  Completions arrive on  *)
(* the HCI thread of the stack.  The stack itself is external: it shuts    *)
(* its HCI thread down before it calls cleanup (comment at mtk.c:350).     *)
(***************************************************************************)
EXTENDS Integers, Sequences

CONSTANTS
  Threads,      \* slots for threads: a bound on those that exist at a time
  Chips,        \* values of the chip id property
  Pre, Post,    \* the scripts, by chip: functions on the chips a switch knows
  Others,       \* commands that neither read nor write the address
  EFuse         \* the address in the chip's eFUSE

Commands == {"get", "set"} \cup Others
Addresses == {"default", "valid", "efuse"}
Null == << >>    \* cur_script = NULL; a script that exists ends with "end"
Scripts == {Pre[c] : c \in DOMAIN Pre} \cup {Post[c] : c \in DOMAIN Post}

\* Every script ends, and only the first two commands of a preload script deal with
\* the address.  Both switches know the same chips; with the MT7623 they do not.
ASSUME BtConstants ==
  /\ Threads # {} /\ EFuse \in Addresses /\ {"get", "set", "end"} \cap Others = {}
  /\ DOMAIN Pre \subseteq Chips /\ DOMAIN Post = DOMAIN Pre
  /\ \A s \in Scripts : /\ s \in Seq(Commands \cup {"end"}) /\ s # << >>
                        /\ \A k \in DOMAIN s : (s[k] = "end") = (k = Len(s))
  /\ \A c \in DOMAIN Pre : /\ Len(Pre[c]) > 2 /\ Pre[c][1] = "get" /\ Pre[c][2] = "set"
                           /\ \A k \in 3..Len(Pre[c]) : Pre[c][k] \in Others \cup {"end"}
  /\ \A c \in DOMAIN Post : \A k \in DOMAIN Post[c] : Post[c][k] \in Others \cup {"end"}

VARIABLES
  call,             \* where the calling thread of the stack is
  phase,            \* the request of the stack and its answer
  bt_vnd_cbacks,    \* whether the callbacks are registered
  flight,           \* commands of which the HCI thread awaits the completion
  thr,              \* the threads
  worker_thread, worker_thread_running,
  mutex,            \* whether btinit_ctrl.mutex and .cond are initialised
  btinit,           \* chip_id, address in bt_nvram, cur_script
  cmd_status, wOpCode, fgGetEFUSE,
  nvram,            \* the address in NVRAM
  hist              \* history, see History

control == <<call, phase, bt_vnd_cbacks, worker_thread, worker_thread_running>>
shared == <<mutex, btinit, cmd_status, wOpCode, fgGetEFUSE, nvram>>
vars == <<control, shared, flight, thr, hist>>

NoThread == [pc |-> "none", kind |-> "fw", i |-> 1, ok |-> FALSE, killed |-> FALSE]
Started(kind) == [pc |-> "start", kind |-> kind, i |-> 1, ok |-> FALSE, killed |-> FALSE]
ThreadRecords ==
  [pc : {"none", "start", "next", "check", "wait", "destroy", "tell", "end"},
   kind : {"fw", "sco"}, i : Nat \ {0}, ok : BOOLEAN, killed : BOOLEAN]

Free == {t \in Threads : thr[t].pc = "none"}
NewThread == CHOOSE t \in Free : TRUE

\* acked: commands of this session the chip has completed; misread: an address
\* other than the one in NVRAM was taken for it and fgGetEFUSE may tell so still;
\* stray: a thread has cleared worker_thread_running of another one.
History == [acked : SUBSET Commands, misread : BOOLEAN, stray : BOOLEAN]
NoHistory == [acked |-> {}, misread |-> FALSE, stray |-> FALSE]

FieldsOK ==
  /\ call \in {"off", "idle", "created", "cleanup", "join", "callbacks"}
  /\ phase \in {"none", "fw", "fw_ok", "sco", "done", "failed"}
  /\ bt_vnd_cbacks \in BOOLEAN /\ flight \subseteq Commands
  /\ thr \in [Threads -> ThreadRecords]
  /\ worker_thread \in Threads /\ worker_thread_running \in BOOLEAN
  /\ mutex \in BOOLEAN
  /\ btinit \in [chip : Chips, addr : Addresses, script : Scripts \cup {Null}]
  /\ cmd_status \in {"SUCCESS", "FAIL", "PENDING"} /\ wOpCode \in Commands \cup {"none"}
  /\ fgGetEFUSE \in BOOLEAN /\ nvram \in Addresses /\ hist \in History

InScript(t) == thr[t].pc \in {"next", "check", "wait"}
TypeOK ==
  FieldsOK /\ \A t \in Threads : InScript(t) => thr[t].i \in DOMAIN btinit.script

Init ==
  /\ call = "off" /\ phase = "none" /\ bt_vnd_cbacks = FALSE /\ flight = {}
  /\ thr = [t \in Threads |-> NoThread]
  /\ worker_thread = NewThread /\ worker_thread_running = FALSE /\ mutex = FALSE
  /\ btinit \in [chip : Chips, addr : {"default"}, script : {Null}]
  /\ cmd_status = "SUCCESS" /\ wOpCode = "none" /\ fgGetEFUSE = FALSE
  /\ nvram \in {"default", "valid"}
  /\ hist = NoHistory

-----------------------------------------------------------------------------
(* The calls of the stack. *)

mtk_bt_init ==
  /\ call = "off"
  /\ call' = "idle" /\ phase' = "none" /\ bt_vnd_cbacks' = TRUE /\ flight' = {}
  /\ UNCHANGED <<worker_thread, worker_thread_running, shared, thr, hist>>

\* mtk_fw_cfg() gives up: no chip id, or neither an address nor a default for it.
FwCfgFails ==
  /\ call = "idle" /\ phase = "none"
  /\ phase' = "failed"
  /\ UNCHANGED <<call, bt_vnd_cbacks, worker_thread, worker_thread_running, shared, flight,
                 thr, hist>>

\* pthread_create(), which may fail.
CreateThread(kind, made) ==
  IF made THEN /\ thr' = [thr EXCEPT ![NewThread] = Started(kind)]
               /\ worker_thread' = NewThread /\ call' = "created" /\ phase' = kind
          ELSE phase' = "failed" /\ UNCHANGED <<thr, worker_thread, call>>

\* A read of NVRAM that fails, or yields zeros only, is replaced by the default
\* values of the chip.
bt_read_nvram(read) == IF read THEN nvram ELSE "default"

\* mtk_fw_cfg() and BT_InitDevice() up to pthread_create().
mtk_fw_cfg(read, made) ==
  /\ call = "idle" /\ phase = "none" /\ Free # {}
  /\ read \/ btinit.chip \in DOMAIN Pre
  /\ btinit' = [btinit EXCEPT !.addr = bt_read_nvram(read), !.script = Null]
  /\ worker_thread_running' = FALSE
  /\ hist' = [hist EXCEPT !.acked = {}, !.misread = ~read \/ (@ /\ fgGetEFUSE)]
  /\ CreateThread("fw", made)
  /\ UNCHANGED <<bt_vnd_cbacks, flight, mutex, cmd_status, wOpCode, fgGetEFUSE, nvram>>

\* BT_InitSCO(); the stack asks for it after a successful FW_CFG.
BT_InitSCO(made) ==
  /\ call = "idle" /\ phase = "fw_ok" /\ Free # {}
  /\ CreateThread("sco", made)
  /\ UNCHANGED <<bt_vnd_cbacks, worker_thread_running, shared, flight, hist>>

\* The statement behind pthread_create(): the thread may have run already.
InitReturns ==
  /\ call = "created"
  /\ worker_thread_running' = TRUE /\ call' = "idle"
  /\ UNCHANGED <<phase, bt_vnd_cbacks, worker_thread, shared, flight, thr, hist>>

\* The stack ends its HCI thread, which delivers nothing any more.
StackShutsDown ==
  /\ call = "idle"
  /\ call' = "cleanup" /\ flight' = {}
  /\ UNCHANGED <<phase, bt_vnd_cbacks, worker_thread, worker_thread_running, shared, thr, hist>>

\* mtk_bt_cleanup(): BT_Cleanup() signals the thread and joins it.
BT_Cleanup ==
  /\ call = "cleanup"
  /\ IF worker_thread_running
     THEN /\ thr' = [thr EXCEPT ![worker_thread].killed = thr[worker_thread].pc # "none"]
          /\ call' = "join"
     ELSE call' = "callbacks" /\ UNCHANGED thr
  /\ UNCHANGED <<phase, bt_vnd_cbacks, worker_thread, worker_thread_running, shared, flight, hist>>

CleanupJoins ==
  /\ call = "join" /\ thr[worker_thread].pc = "none"
  /\ worker_thread_running' = FALSE /\ call' = "callbacks"
  /\ UNCHANGED <<phase, bt_vnd_cbacks, worker_thread, shared, flight, thr, hist>>

clean_callbacks ==
  /\ call = "callbacks"
  /\ bt_vnd_cbacks' = FALSE /\ call' = "off"
  /\ UNCHANGED <<phase, worker_thread, worker_thread_running, shared, flight, thr, hist>>

-----------------------------------------------------------------------------
(* The threads: GORM_FW_Init_Thread and GORM_SCO_Init_Thread. *)

Goes(t, pc) == [thr EXCEPT ![t].pc = pc]

\* The last statements of a thread, in their order.
ExitOrder_TellFirst == [last |-> "tell", tell |-> "destroy", destroy |-> "end"]
ExitOrder == [last |-> "destroy", destroy |-> "tell", tell |-> "end"]
Leaves(t, ok) == [thr EXCEPT ![t].pc = ExitOrder.last, ![t].ok = ok]

\* The preload script; the eFUSE is asked for when NVRAM has the default address,
\* or when the flag is still set.
FwThreadStarts(t) ==
  LET known == btinit.chip \in DOMAIN Pre
      script == IF known THEN Pre[btinit.chip] ELSE btinit.script
      efuse == fgGetEFUSE \/ btinit.addr = "default"
  IN /\ thr[t].pc = "start" /\ thr[t].kind = "fw"
     /\ mutex' = TRUE
     /\ btinit' = [btinit EXCEPT !.script = script]
     /\ IF script = Null
        THEN thr' = Leaves(t, FALSE) /\ UNCHANGED fgGetEFUSE
        ELSE /\ fgGetEFUSE' = efuse
             /\ thr' = [thr EXCEPT ![t].pc = "next", ![t].i = IF efuse THEN 1 ELSE 2]
     /\ UNCHANGED <<control, flight, cmd_status, wOpCode, nvram, hist>>

\* The postload script; a chip that this switch does not know keeps cur_script.
ScoThreadStarts(t) ==
  LET script == IF btinit.chip \in DOMAIN Post THEN Post[btinit.chip] ELSE btinit.script
  IN /\ thr[t].pc = "start" /\ thr[t].kind = "sco"
     /\ mutex' = TRUE
     /\ btinit' = [btinit EXCEPT !.script = script]
     /\ thr' = IF script = Null THEN Leaves(t, FALSE) ELSE Goes(t, "next")
     /\ UNCHANGED <<control, flight, cmd_status, wOpCode, fgGetEFUSE, nvram, hist>>

\* Set_Local_BD_Addr: saves an address that is not from NVRAM, as far as the write
\* succeeds, and clears the flag.
FlagAfterSet_Kept == fgGetEFUSE
FlagAfterSet == FALSE
SavesAddress == btinit.addr = "default" \/ fgGetEFUSE
WriteBDAddrToNvram(written) == nvram' = IF written THEN btinit.addr ELSE nvram
SetAddress(written) ==
  /\ IF SavesAddress THEN WriteBDAddrToNvram(written) ELSE UNCHANGED nvram
  /\ fgGetEFUSE' = FlagAfterSet
  /\ hist' = [hist EXCEPT !.misread = FALSE]

\* The loop: the end of the script, a command that is sent, or one that is not,
\* for want of a buffer or because xmit_cb() refuses it.
CommandOf(t) == btinit.script[thr[t].i]
ScriptEnds(t) ==
  /\ thr[t].pc = "next" /\ CommandOf(t) = "end"
  /\ thr' = Leaves(t, TRUE)
  /\ UNCHANGED <<control, flight, shared, hist>>

\* What the command functions have in common: the opcode, and xmit_cb(), which
\* takes the command or refuses it.
GORMcmd_HCC(c, sent) ==
  wOpCode' = c /\ flight' = IF sent THEN flight \cup {c} ELSE flight

SendCommand(t, sent, written) ==
  LET c == CommandOf(t)
  IN /\ thr[t].pc = "next" /\ c # "end" /\ bt_vnd_cbacks
     /\ cmd_status' = "PENDING" /\ GORMcmd_HCC(c, sent)
     /\ IF c = "set" THEN SetAddress(written) ELSE UNCHANGED <<nvram, fgGetEFUSE, hist>>
     /\ thr' = IF sent THEN Goes(t, "check") ELSE Leaves(t, FALSE)
     /\ UNCHANGED <<control, mutex, btinit>>

NoBuffer(t) ==
  /\ thr[t].pc = "next" /\ CommandOf(t) # "end"
  /\ thr' = Leaves(t, FALSE)
  /\ UNCHANGED <<control, flight, shared, hist>>

\* With the mutex: wait for the event, then look at the status.
Failed_Never(status) == FALSE
Failed(status) == status = "FAIL"
Advanced_Twice(i) == i + 2
Advanced(i) == i + 1
CheckStatus(t) ==
  /\ thr[t].pc = "check"
  /\ thr' = IF cmd_status = "PENDING" THEN Goes(t, "wait")
            ELSE IF Failed(cmd_status) THEN Leaves(t, FALSE)
            ELSE [thr EXCEPT ![t].pc = "next", ![t].i = Advanced(@)]
  /\ UNCHANGED <<control, flight, shared, hist>>

\* pthread_cond_wait() may return without a signal.
WakesUp(t) ==
  /\ thr[t].pc = "wait"
  /\ thr' = Goes(t, "check")
  /\ UNCHANGED <<control, flight, shared, hist>>

DestroyMutex(t) ==
  /\ thr[t].pc = "destroy"
  /\ mutex' = FALSE
  /\ thr' = Goes(t, ExitOrder.destroy)
  /\ UNCHANGED <<control, flight, btinit, cmd_status, wOpCode, fgGetEFUSE, nvram, hist>>

\* fwcfg_cb() or scocfg_cb(); the stack goes by the answer it is waiting for.
TellStack(t) ==
  /\ thr[t].pc = "tell"
  /\ phase' = IF ~bt_vnd_cbacks \/ phase # thr[t].kind THEN phase
              ELSE IF thr[t].kind = "sco" THEN "done"
              ELSE IF thr[t].ok THEN "fw_ok" ELSE "failed"
  /\ thr' = Goes(t, ExitOrder.tell)
  /\ UNCHANGED <<call, bt_vnd_cbacks, worker_thread, worker_thread_running, flight, shared, hist>>

\* The thread clears the flag, whichever thread it stands for by now.
ThreadEnds(t) ==
  /\ thr[t].pc = "end"
  /\ worker_thread_running' = FALSE
  /\ hist' = [hist EXCEPT !.stray =
                 worker_thread # t /\ thr[worker_thread].pc # "none" /\ call # "created"]
  /\ thr' = [thr EXCEPT ![t] = NoThread]
  /\ UNCHANGED <<call, phase, bt_vnd_cbacks, worker_thread, flight, shared>>

\* The signal handler.
thread_exit(t) ==
  /\ thr[t].killed
  /\ mutex' = FALSE
  /\ thr' = [thr EXCEPT ![t] = NoThread]
  /\ UNCHANGED <<control, flight, btinit, cmd_status, wOpCode, fgGetEFUSE, nvram, hist>>

-----------------------------------------------------------------------------
(* The HCI thread: GORMevt_HCE_Get_Local_BD_Addr, GORMevt_HCE_Common_Complete. *)

\* pthread_cond_signal() wakes one of the threads that wait.
Waiting == {t \in Threads : thr[t].pc = "wait"}
Signalled_None == {thr}
Signalled == IF Waiting = {} THEN {thr} ELSE {Goes(t, "check") : t \in Waiting}

\* The answer to Get_Local_BD_Addr: the address is copied from the event, whatever
\* its status.
GORMevt_HCE_Get_Local_BD_Addr(status, bytes) ==
  btinit' = [btinit EXCEPT !.addr = IF status THEN EFuse ELSE bytes]

\* The completion of command c, with status 0 or not.
CommandCompletes(c, status, bytes) ==
  /\ call \in {"idle", "created"} /\ c \in flight
  /\ flight' = flight \ {c}
  /\ LET success == status /\ (c = "get" \/ c = wOpCode)
     IN /\ cmd_status' = IF success THEN "SUCCESS" ELSE "FAIL"
        /\ hist' = [hist EXCEPT !.acked = IF success THEN @ \cup {c} ELSE @]
  /\ IF c = "get" THEN GORMevt_HCE_Get_Local_BD_Addr(status, bytes) ELSE UNCHANGED btinit
  /\ thr' \in Signalled
  /\ UNCHANGED <<control, mutex, wOpCode, fgGetEFUSE, nvram>>

-----------------------------------------------------------------------------
\* The process of the stack dies, at any time, and is started again.
ProcessDies ==
  /\ call' = "off" /\ phase' = "none" /\ bt_vnd_cbacks' = FALSE /\ flight' = {}
  /\ thr' = [t \in Threads |-> NoThread]
  /\ worker_thread_running' = FALSE /\ mutex' = FALSE
  /\ btinit' = [btinit EXCEPT !.addr = "default", !.script = Null]
  /\ cmd_status' = "SUCCESS" /\ wOpCode' = "none" /\ fgGetEFUSE' = FALSE
  /\ hist' = NoHistory
  /\ UNCHANGED <<worker_thread, nvram>>

-----------------------------------------------------------------------------
ThreadSteps(t) ==
  \/ FwThreadStarts(t) \/ ScoThreadStarts(t) \/ ScriptEnds(t) \/ NoBuffer(t)
  \/ \E sent, written \in BOOLEAN : SendCommand(t, sent, written)
  \/ CheckStatus(t) \/ DestroyMutex(t) \/ TellStack(t) \/ ThreadEnds(t) \/ thread_exit(t)

Asks ==
  \/ mtk_bt_init \/ FwCfgFails \/ StackShutsDown
  \/ \E made \in BOOLEAN :
       BT_InitSCO(made) \/ \E read \in BOOLEAN : mtk_fw_cfg(read, made)
Proceeds == InitReturns \/ BT_Cleanup \/ CleanupJoins \/ clean_callbacks
Completions ==
  \E c \in Commands, status \in BOOLEAN, bytes \in Addresses : CommandCompletes(c, status, bytes)

\* An execution is followed until a thread is left behind without its flag; what
\* that thread does to later sessions is not modelled.
Next ==
  \/ /\ ~hist.stray
     /\ \/ Asks \/ Proceeds \/ Completions
        \/ \E t \in Threads : ThreadSteps(t) \/ WakesUp(t)
  \/ ProcessDies

\* The threads are scheduled, and the stack completes every command it accepted.
Fairness ==
  /\ WF_vars(Proceeds) /\ WF_vars(Completions)
  /\ \A t \in Threads : WF_vars(ThreadSteps(t)) /\ WF_vars(thread_exit(t))

Spec == Init /\ [][Next]_vars /\ Fairness

-----------------------------------------------------------------------------
(* Properties.  They are about executions in which no thread was left behind     *)
(* (hist.stray); the README says what happens to one.                            *)

\* Neither a thread of the library nor a completion on the HCI thread finds the
\* mutex destroyed: a thread destroys it (radiomod.c:1297, 1456, 1107) only when
\* its last command is completed, and before the stack can ask for the next thread.
MutexAlive ==
  ~hist.stray =>
    /\ \A t \in Threads : InScript(t) => mutex
    /\ flight # {} /\ call \in {"idle", "created"} => mutex

\* The stack is told that the firmware is configured (radiomod.c:1301) only when
\* the chip has completed every command of the script with success; the eFUSE is
\* left out when NVRAM has an address.
FwOkMeansConfigured ==
  ~hist.stray /\ phase \in {"fw_ok", "sco", "done"} =>
    \A k \in 2..(Len(Pre[btinit.chip]) - 1) : Pre[btinit.chip][k] \in hist.acked

\* An address in NVRAM is not replaced by the library (radiomod.c:310, 316), over
\* all sessions, aborted ones included; unless a read of NVRAM failed and its
\* default value is taken for the address.
AddressKept ==
  [][nvram # "default" /\ ~hist.misread /\ ~hist.stray => nvram' = nvram]_vars

\* Every FW_CFG and SCO_CFG is answered unless the stack shuts down, and every
\* cleanup returns: no wake-up is lost between the two threads (radiomod.c:1276),
\* and the join in BT_Cleanup (radiomgr.c:128) ends.
RequestsEnd ==
  /\ \A p \in {"fw", "sco"} :
       (phase = p /\ call = "idle") ~> (phase # p \/ call # "idle" \/ hist.stray)
  /\ call = "cleanup" ~> (call = "off" \/ hist.stray)
=============================================================================
