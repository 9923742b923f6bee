---------------------------- MODULE BtInitProofs ----------------------------
(***************************************************************************)
(* Theorems about BtInit, for any number of threads, any chips and any     *)
(* scripts that satisfy BtConstants.                                       *)
(***************************************************************************)
EXTENDS BtInit, TLAPS

-----------------------------------------------------------------------------
(* The inductive invariant. *)
AtWork(t) == thr[t].pc \notin {"none", "end"}
Open == call \in {"idle", "created"}

\* The only thread at work is the one that worker_thread names; its request is not
\* answered yet, and its flag is set as soon as the call that created it returns.
OneWorker ==
  \A t \in Threads : AtWork(t) =>
    /\ t = worker_thread /\ phase = thr[t].kind /\ bt_vnd_cbacks
    /\ call \in {"idle", "created", "cleanup", "join"}
    /\ worker_thread_running \/ call = "created"

\* The callbacks are registered from mtk_bt_init() to clean_callbacks().
Registered == call # "off" => bt_vnd_cbacks

\* A thread is signalled only while cleanup waits for it.
KilledJoined ==
  \A t \in Threads :
    thr[t].killed => t = worker_thread /\ call = "join" /\ thr[t].pc # "none"

\* The mutex exists while a thread is in its script.
MutexOwned == \A t \in Threads : InScript(t) => mutex

\* What the HCI thread can complete is the command the worker waits for.
OneInFlight ==
  Open /\ flight # {} =>
    /\ thr[worker_thread].pc \in {"check", "wait"} /\ cmd_status = "PENDING"
    /\ flight = {CommandOf(worker_thread)}

\* The script belongs to the thread, and none is left when the first thread starts;
\* the eFUSE is read only with the flag set.
OwnScript ==
  \A t \in Threads :
    /\ thr[t].pc = "start" /\ thr[t].kind = "fw" => btinit.script = Null
    /\ thr[t].pc = "start" => thr[t].i = 1
    /\ InScript(t) => btinit.chip \in DOMAIN Pre
    /\ thr[t].pc \in {"check", "wait"} => CommandOf(t) # "end"
    /\ InScript(t) /\ thr[t].kind = "fw" =>
         btinit.script = Pre[btinit.chip] /\ (thr[t].i = 1 => fgGetEFUSE)
    /\ InScript(t) /\ thr[t].kind = "sco" => btinit.script = Post[btinit.chip]

\* The commands of the preload script before the n-th one are completed.
DoneBefore(n) == \A k \in 2..(n - 1) : Pre[btinit.chip][k] \in hist.acked
AllDone == btinit.chip \in DOMAIN Pre /\ DoneBefore(Len(Pre[btinit.chip]))
CommandsDone ==
  /\ \A t \in Threads : thr[t].kind = "fw" =>
       /\ InScript(t) => DoneBefore(thr[t].i)
       /\ thr[t].pc \in {"check", "wait"} /\ cmd_status = "SUCCESS" =>
            CommandOf(t) \in hist.acked
       /\ thr[t].pc \in {"destroy", "tell"} /\ thr[t].ok => AllDone
  /\ phase \in {"fw_ok", "sco", "done"} => AllDone

\* The flag says that NVRAM has the default address, and until Set_Local_BD_Addr
\* without the flag the address is one of NVRAM.
AddressRead ==
  ~hist.misread =>
    /\ fgGetEFUSE => nvram = "default"
    /\ \A t \in Threads : thr[t].kind = "fw" =>
         /\ thr[t].pc = "start" => btinit.addr = nvram
         /\ thr[t].pc = "next" /\ thr[t].i = 2 /\ ~fgGetEFUSE => btinit.addr # "default"

Agreed ==
  /\ OneWorker /\ KilledJoined /\ MutexOwned /\ OneInFlight /\ OwnScript
  /\ CommandsDone /\ AddressRead /\ Registered
IInv == TypeOK /\ (~hist.stray => Agreed)

-----------------------------------------------------------------------------
(* Scripts and new threads. *)

\* What the assumptions say of the scripts.
LEMMA PreScripts ==
  ASSUME NEW c \in DOMAIN Pre
  PROVE  /\ Pre[c] \in Scripts /\ Pre[c] # Null /\ DOMAIN Pre[c] = 1..Len(Pre[c])
         /\ Len(Pre[c]) \in Nat /\ Len(Pre[c]) > 2
         /\ \A k \in 1..Len(Pre[c]) :
              /\ Pre[c][k] = "set" => k = 2
              /\ Pre[c][k] = "get" => k = 1
              /\ (Pre[c][k] = "end") = (k = Len(Pre[c]))
              /\ Pre[c][k] # "end" => Pre[c][k] \in Commands
<1>1. Pre[c] \in Scripts
  BY DEF Scripts
<1>2. /\ Pre[c] \in Seq(Commands \cup {"end"}) /\ Pre[c] # << >>
      /\ \A k \in DOMAIN Pre[c] : (Pre[c][k] = "end") = (k = Len(Pre[c]))
  BY <1>1, BtConstants
<1>3. /\ Len(Pre[c]) > 2 /\ Pre[c][1] = "get" /\ Pre[c][2] = "set"
      /\ \A k \in 3..Len(Pre[c]) : Pre[c][k] \in Others \cup {"end"}
  BY BtConstants
<1>4. DOMAIN Pre[c] = 1..Len(Pre[c]) /\ Len(Pre[c]) \in Nat
  BY <1>2
<1>5. ASSUME NEW k \in 1..Len(Pre[c])
      PROVE  /\ Pre[c][k] = "set" => k = 2
             /\ Pre[c][k] = "get" => k = 1
             /\ Pre[c][k] # "end" => Pre[c][k] \in Commands
  <2>1. k = 1 \/ k = 2 \/ k \in 3..Len(Pre[c])
    BY <1>4
  <2>2. "set" \notin Others /\ "get" \notin Others
    BY BtConstants, SMTT(30)
  <2>3. QED
    BY <1>3, <2>1, <2>2 DEF Commands
<1>6. QED
  BY <1>1, <1>2, <1>3, <1>4, <1>5, Zenon DEF Null

LEMMA PostScripts ==
  ASSUME NEW c \in DOMAIN Post
  PROVE  /\ c \in DOMAIN Pre
         /\ Post[c] \in Scripts /\ Post[c] # Null /\ DOMAIN Post[c] = 1..Len(Post[c])
         /\ Len(Post[c]) \in Nat /\ Len(Post[c]) > 0
         /\ \A k \in 1..Len(Post[c]) :
              /\ Post[c][k] # "set" /\ Post[c][k] # "get"
              /\ (Post[c][k] = "end") = (k = Len(Post[c]))
              /\ Post[c][k] # "end" => Post[c][k] \in Commands
<1>1. Post[c] \in Scripts
  BY DEF Scripts
<1>2. /\ Post[c] \in Seq(Commands \cup {"end"}) /\ Post[c] # << >>
      /\ \A k \in DOMAIN Post[c] : (Post[c][k] = "end") = (k = Len(Post[c]))
  BY <1>1, BtConstants
<1>3. \A k \in DOMAIN Post[c] : Post[c][k] \in Others \cup {"end"}
  BY BtConstants
<1>4. DOMAIN Post[c] = 1..Len(Post[c]) /\ Len(Post[c]) \in Nat /\ Len(Post[c]) > 0
  BY <1>2
<1>5. "set" \notin Others /\ "get" \notin Others
  BY BtConstants
<1>6. QED
  BY <1>1, <1>2, <1>3, <1>4, <1>5, BtConstants, Zenon DEF Null, Commands

LEMMA NewThreadFree ==
  ASSUME Free # {}
  PROVE  NewThread \in Threads /\ thr[NewThread].pc = "none"
BY DEF NewThread, Free

\* Where a thread is in its script.
\* The script stays that of the threads that stay in it, at the same place.
LEMMA ScriptKept ==
  ASSUME OwnScript, btinit'.chip = btinit.chip, btinit'.script = btinit.script,
         fgGetEFUSE' = fgGetEFUSE,
         \A u \in Threads :
           /\ thr'[u].kind = thr[u].kind /\ thr'[u].i = thr[u].i
           /\ thr'[u].pc = "start" => thr[u].pc = "start"
           /\ InScript(u)' => InScript(u)
           /\ thr'[u].pc \in {"check", "wait"} =>
                thr[u].pc \in {"check", "wait"} \/ CommandOf(u) # "end"
  PROVE  OwnScript'
<1>1. ASSUME NEW u \in Threads PROVE CommandOf(u)' = CommandOf(u)
  BY Zenon DEF CommandOf
<1>2. ASSUME NEW u \in Threads
      PROVE  /\ (thr[u].pc = "start" /\ thr[u].kind = "fw" => btinit.script = Null)'
             /\ (thr[u].pc = "start" => thr[u].i = 1)'
             /\ (thr[u].pc \in {"check", "wait"} => CommandOf(u) # "end")'
  BY <1>1, <1>2, Zenon DEF OwnScript
<1>3. ASSUME NEW u \in Threads, InScript(u)'
      PROVE  /\ (btinit.chip \in DOMAIN Pre)'
             /\ (thr[u].kind = "fw" =>
                   btinit.script = Pre[btinit.chip] /\ (thr[u].i = 1 => fgGetEFUSE))'
             /\ (thr[u].kind = "sco" => btinit.script = Post[btinit.chip])'
  BY <1>3, Zenon DEF OwnScript
<1> QED
  BY <1>2, <1>3, Zenon DEF OwnScript

LEMMA AtCommand ==
  ASSUME TypeOK, Agreed, NEW t \in Threads, InScript(t)
  PROVE  /\ Len(btinit.script) \in Nat /\ DOMAIN btinit.script = 1..Len(btinit.script)
         /\ thr[t].i \in 1..Len(btinit.script)
         /\ (CommandOf(t) = "end") = (thr[t].i = Len(btinit.script))
         /\ CommandOf(t) = "set" => thr[t].kind = "fw" /\ thr[t].i = 2
         /\ CommandOf(t) = "get" => thr[t].kind = "fw" /\ thr[t].i = 1
         /\ CommandOf(t) # "end" => CommandOf(t) \in Commands
<1>1. thr[t].kind \in {"fw", "sco"} /\ thr[t].i \in DOMAIN btinit.script
  BY DEF TypeOK, FieldsOK, ThreadRecords
<1>2. btinit.chip \in DOMAIN Pre /\ btinit.chip \in DOMAIN Post
  BY BtConstants DEF Agreed, OwnScript
<1>3. CASE thr[t].kind = "fw"
  <2>1. btinit.script = Pre[btinit.chip]
    BY <1>3 DEF Agreed, OwnScript
  <2>2. QED
    BY <1>1, <1>2, <1>3, <2>1, PreScripts DEF CommandOf
<1>4. CASE thr[t].kind = "sco"
  <2>1. btinit.script = Post[btinit.chip]
    BY <1>4 DEF Agreed, OwnScript
  <2>2. QED
    BY <1>1, <1>2, <2>1, PostScripts DEF CommandOf
<1>5. QED
  BY <1>1, <1>3, <1>4

\* The records of the threads.
LEMMA ThreadTypes ==
  /\ NoThread \in ThreadRecords
  /\ \A kind \in {"fw", "sco"} : Started(kind) \in ThreadRecords
BY DEF NoThread, Started, ThreadRecords

LEMMA LeavesType ==
  ASSUME FieldsOK, NEW t \in Threads, NEW ok \in BOOLEAN
  PROVE  Leaves(t, ok) \in [Threads -> ThreadRecords]
<1>1. thr \in [Threads -> ThreadRecords]
  BY DEF FieldsOK
<1>2. [thr[t] EXCEPT !.pc = "destroy", !.ok = ok] \in ThreadRecords
  BY <1>1, Zenon DEF ThreadRecords
<1>3. Leaves(t, ok) = [thr EXCEPT ![t] = [thr[t] EXCEPT !.pc = "destroy", !.ok = ok]]
  BY Zenon DEF Leaves, ExitOrder
<1>4. QED
  BY <1>1, <1>2, <1>3

LEMMA KilledType ==
  ASSUME FieldsOK, NEW t \in Threads, NEW killed \in BOOLEAN
  PROVE  [thr EXCEPT ![t].killed = killed] \in [Threads -> ThreadRecords]
<1>1. thr \in [Threads -> ThreadRecords]
  BY DEF FieldsOK
<1>2. [thr[t] EXCEPT !.killed = killed] \in ThreadRecords
  BY <1>1 DEF ThreadRecords
<1>3. QED
  BY <1>1, <1>2

LEMMA NextType ==
  ASSUME FieldsOK, NEW t \in Threads, NEW i \in Nat \ {0}
  PROVE  [thr EXCEPT ![t].pc = "next", ![t].i = i] \in [Threads -> ThreadRecords]
<1>1. thr \in [Threads -> ThreadRecords]
  BY DEF FieldsOK
<1>2. [thr[t] EXCEPT !.pc = "next", !.i = i] \in ThreadRecords
  BY <1>1, Zenon DEF ThreadRecords
<1>3. QED
  BY <1>1, <1>2

LEMMA GoesType ==
  ASSUME FieldsOK, NEW t \in Threads, NEW pc \in {"next", "check", "wait", "tell", "end"}
  PROVE  Goes(t, pc) \in [Threads -> ThreadRecords]
BY DEF FieldsOK, Goes, ThreadRecords

-----------------------------------------------------------------------------
(* Every action preserves the invariant. *)

LEMMA mtk_bt_initStep ==
  ASSUME IInv, ~hist.stray, mtk_bt_init
  PROVE  IInv'
<1>0. TypeOK /\ FieldsOK /\ Agreed
  BY DEF IInv, TypeOK
<1>1. FieldsOK'
  BY <1>0 DEF FieldsOK, ThreadRecords, History, mtk_bt_init, shared
<1>2. \A u \in Threads : InScript(u)' => (thr[u].i \in DOMAIN btinit.script)'
  BY <1>0 DEF InScript, Agreed, OneWorker, AtWork, mtk_bt_init
<1>3. OneWorker'
  BY <1>0 DEF Agreed, OneWorker, FieldsOK, AtWork, mtk_bt_init, shared
<1>4. KilledJoined'
  BY <1>0 DEF Agreed, KilledJoined, FieldsOK, mtk_bt_init, shared
<1>5. MutexOwned'
  BY <1>0 DEF Agreed, MutexOwned, InScript, AtWork, OneWorker, KilledJoined, mtk_bt_init
<1>6. OneInFlight'
  BY <1>0 DEF OneInFlight, AtWork, KilledJoined, mtk_bt_init
<1>7. OwnScript'
  BY <1>0 DEF Agreed, OwnScript, InScript, OneWorker, AtWork, mtk_bt_init
<1>8. CommandsDone'
  BY <1>0 DEF Agreed, CommandsDone, InScript, AllDone, OneWorker, AtWork, OwnScript,
     mtk_bt_init
<1>9. AddressRead'
  BY <1>0 DEF Agreed, AddressRead, InScript, mtk_bt_init, shared
<1>10. Registered'
  BY <1>0 DEF Registered, mtk_bt_init
<1>11. QED
  BY <1>10, <1>1, <1>2, <1>3, <1>4, <1>5, <1>6, <1>7, <1>8, <1>9 DEF IInv, TypeOK, Agreed

LEMMA FwCfgFailsStep ==
  ASSUME IInv, ~hist.stray, FwCfgFails
  PROVE  IInv'
<1>0. TypeOK /\ FieldsOK /\ Agreed
  BY DEF IInv, TypeOK
<1>1. FieldsOK'
  BY <1>0 DEF FieldsOK, ThreadRecords, History, FwCfgFails, shared
<1>2. \A u \in Threads : InScript(u)' => (thr[u].i \in DOMAIN btinit.script)'
  BY <1>0 DEF TypeOK, InScript, FwCfgFails, shared
<1>3. OneWorker'
  BY <1>0 DEF Agreed, OneWorker, FieldsOK, ThreadRecords, AtWork, FwCfgFails
<1>4. KilledJoined'
  BY <1>0 DEF Agreed, KilledJoined, FieldsOK, FwCfgFails, shared
<1>5. MutexOwned'
  BY <1>0 DEF Agreed, MutexOwned, InScript, KilledJoined, FwCfgFails, shared
<1>6. OneInFlight'
  BY <1>0 DEF Agreed, OneInFlight, Open, CommandOf, AtWork, KilledJoined, FwCfgFails, shared
<1>7. OwnScript'
  BY <1>0 DEF Agreed, OwnScript, InScript, CommandOf, AtWork, FwCfgFails, shared
<1>8. CommandsDone'
  BY <1>0 DEF Agreed, CommandsDone, InScript, AllDone, OneWorker, AtWork, OwnScript,
     FwCfgFails
<1>9. AddressRead'
  BY <1>0 DEF Agreed, AddressRead, InScript, FwCfgFails, shared
<1>10. Registered'
  BY <1>0 DEF Agreed, Registered, FwCfgFails
<1>11. QED
  BY <1>10, <1>1, <1>2, <1>3, <1>4, <1>5, <1>6, <1>7, <1>8, <1>9 DEF IInv, TypeOK, Agreed

LEMMA mtk_fw_cfgStep ==
  ASSUME IInv, ~hist.stray, NEW read \in BOOLEAN, NEW made \in BOOLEAN, mtk_fw_cfg(read, made)
  PROVE  IInv'
<1>0. TypeOK /\ FieldsOK /\ Agreed
  BY DEF IInv, TypeOK
<1>a. NewThread \in Threads /\ thr[NewThread].pc = "none"
  BY NewThreadFree DEF mtk_fw_cfg, bt_read_nvram
<1>b. \A u \in Threads : ~AtWork(u) /\ ~thr[u].killed
  BY <1>0 DEF Agreed, OneWorker, KilledJoined, FieldsOK, ThreadRecords, mtk_fw_cfg,
     bt_read_nvram
<1>c. flight = {}
  BY <1>0, <1>b DEF Agreed, OneInFlight, Open, AtWork, FieldsOK, mtk_fw_cfg
<1>d. made =>
        /\ thr' = [thr EXCEPT ![NewThread] = Started("fw")]
        /\ worker_thread' = NewThread /\ call' = "created" /\ phase' = "fw"
  BY DEF mtk_fw_cfg, bt_read_nvram, CreateThread
<1>e. ~made => phase' = "failed" /\ UNCHANGED <<thr, worker_thread, call>>
  BY DEF mtk_fw_cfg, bt_read_nvram, CreateThread
<1>1. FieldsOK'
  <2>1. thr' \in [Threads -> ThreadRecords]
    BY <1>0, <1>a, <1>d, <1>e, ThreadTypes DEF FieldsOK
  <2>2. /\ worker_thread' \in Threads /\ call' \in {"idle", "created"}
        /\ phase' \in {"fw", "failed"}
    BY <1>0, <1>a, <1>d, <1>e DEF FieldsOK, mtk_fw_cfg, bt_read_nvram
  <2>3. hist' \in History
    BY <1>0, Zenon DEF FieldsOK, History, mtk_fw_cfg, bt_read_nvram
  <2>4. btinit' \in [chip : Chips, addr : Addresses, script : Scripts \cup {Null}]
    BY <1>0, Zenon DEF FieldsOK, Addresses, mtk_fw_cfg, bt_read_nvram
  <2>5. worker_thread_running' \in BOOLEAN
    BY Zenon DEF mtk_fw_cfg, bt_read_nvram
  <2>6. UNCHANGED <<bt_vnd_cbacks, flight, mutex, cmd_status, wOpCode, fgGetEFUSE, nvram>>
    BY DEF mtk_fw_cfg, bt_read_nvram
  <2>7. QED
    BY <1>0, <2>1, <2>2, <2>3, <2>4, <2>5, <2>6 DEF FieldsOK
<1>f. \A u \in Threads :
        /\ AtWork(u)' => made /\ u = NewThread
        /\ AtWork(u)' => thr'[u].pc = "start" /\ thr'[u].kind = "fw" /\ thr'[u].i = 1
        /\ ~InScript(u)' /\ ~thr'[u].killed
  BY <1>0, <1>a, <1>b, <1>d, <1>e DEF AtWork, InScript, FieldsOK, Started
<1>g. /\ flight' = {} /\ bt_vnd_cbacks' = bt_vnd_cbacks
  BY <1>c DEF mtk_fw_cfg, bt_read_nvram, shared
<1>h. bt_vnd_cbacks
  BY <1>0 DEF Agreed, Registered, mtk_fw_cfg, bt_read_nvram
<1>2. \A u \in Threads : InScript(u)' => (thr[u].i \in DOMAIN btinit.script)'
  BY <1>f DEF InScript, AtWork
<1>3. OneWorker'
  BY <1>d, <1>f, <1>g, <1>h DEF OneWorker, AtWork, InScript, Started
<1>4. KilledJoined'
  BY <1>f DEF KilledJoined, InScript, AtWork
<1>5. MutexOwned'
  BY <1>f DEF MutexOwned, InScript, AtWork
<1>6. OneInFlight'
  BY <1>g DEF OneInFlight
<1>7. OwnScript'
  <2>1. btinit'.script = Null
    BY <1>0 DEF mtk_fw_cfg, bt_read_nvram, FieldsOK
  <2>2. QED
    BY <1>f, <2>1 DEF OwnScript, AtWork
<1>8. CommandsDone'
  BY <1>0, <1>d, <1>e, <1>f DEF CommandsDone, AtWork
<1>9. AddressRead'
  BY <1>0, <1>d, <1>e, <1>f DEF Agreed, AddressRead, AtWork, FieldsOK, mtk_fw_cfg,
     bt_read_nvram
<1>10. Registered'
  BY <1>0, <1>d, <1>e, <1>g, <1>h DEF Registered, mtk_fw_cfg, bt_read_nvram
<1>11. QED
  BY <1>1, <1>2, <1>3, <1>4, <1>5, <1>6, <1>7, <1>8, <1>9, <1>10 DEF IInv, TypeOK, Agreed

LEMMA BT_InitSCOStep ==
  ASSUME IInv, ~hist.stray, NEW made \in BOOLEAN, BT_InitSCO(made)
  PROVE  IInv'
<1>0. TypeOK /\ FieldsOK /\ Agreed
  BY DEF IInv, TypeOK
<1>a. NewThread \in Threads /\ thr[NewThread].pc = "none"
  BY NewThreadFree DEF BT_InitSCO
<1>b. \A u \in Threads : ~AtWork(u) /\ ~thr[u].killed
  BY <1>0 DEF Agreed, OneWorker, KilledJoined, FieldsOK, ThreadRecords, BT_InitSCO
<1>c. flight = {}
  BY <1>0, <1>b DEF Agreed, OneInFlight, Open, AtWork, FieldsOK, BT_InitSCO
<1>d. made =>
        /\ thr' = [thr EXCEPT ![NewThread] = Started("sco")]
        /\ worker_thread' = NewThread /\ call' = "created" /\ phase' = "sco"
  BY DEF BT_InitSCO, CreateThread
<1>e. ~made => phase' = "failed" /\ UNCHANGED <<thr, worker_thread, call>>
  BY DEF BT_InitSCO, CreateThread
<1>1. FieldsOK'
  <2>1. thr' \in [Threads -> ThreadRecords]
    BY <1>0, <1>a, <1>d, <1>e, ThreadTypes DEF FieldsOK
  <2>2. /\ worker_thread' \in Threads /\ call' \in {"idle", "created"}
        /\ phase' \in {"sco", "failed"}
    BY <1>0, <1>a, <1>d, <1>e DEF FieldsOK, BT_InitSCO
  <2>3. QED
    BY <1>0, <2>1, <2>2 DEF FieldsOK, Addresses, BT_InitSCO, shared
<1>f. \A u \in Threads :
        /\ AtWork(u)' => made /\ u = NewThread
        /\ AtWork(u)' => thr'[u].pc = "start" /\ thr'[u].kind = "sco" /\ thr'[u].i = 1
        /\ ~InScript(u)' /\ ~thr'[u].killed
  BY <1>0, <1>a, <1>b, <1>d, <1>e DEF AtWork, InScript, FieldsOK, Started
<1>g. /\ flight' = {} /\ bt_vnd_cbacks' = bt_vnd_cbacks
  BY <1>c DEF BT_InitSCO, shared
<1>h. bt_vnd_cbacks
  BY <1>0 DEF Agreed, Registered, BT_InitSCO
<1>2. \A u \in Threads : InScript(u)' => (thr[u].i \in DOMAIN btinit.script)'
  BY <1>f DEF InScript, AtWork
<1>3. OneWorker'
  BY <1>d, <1>f, <1>g, <1>h, Zenon DEF OneWorker, AtWork, InScript, Started
<1>4. KilledJoined'
  BY <1>f DEF KilledJoined, InScript, AtWork
<1>5. MutexOwned'
  BY <1>f DEF MutexOwned, InScript, AtWork
<1>6. OneInFlight'
  BY <1>g DEF OneInFlight
<1>7. OwnScript'
  BY <1>f, Zenon DEF OwnScript, InScript, AtWork, CommandOf
<1>8. CommandsDone'
  BY <1>0, <1>d, <1>e, <1>f, Zenon DEF Agreed, CommandsDone, AllDone, DoneBefore, InScript,
     BT_InitSCO, shared
<1>9. AddressRead'
  BY <1>0, <1>e, <1>f, Zenon DEF Agreed, AddressRead, AtWork, BT_InitSCO, shared
<1>10. Registered'
  BY <1>0, <1>d, <1>e, <1>g, <1>h DEF Registered, BT_InitSCO
<1>11. QED
  BY <1>1, <1>2, <1>3, <1>4, <1>5, <1>6, <1>7, <1>8, <1>9, <1>10 DEF IInv, TypeOK, Agreed

LEMMA InitReturnsStep ==
  ASSUME IInv, ~hist.stray, InitReturns
  PROVE  IInv'
<1>0. TypeOK /\ FieldsOK /\ Agreed
  BY DEF IInv, TypeOK
<1>1. FieldsOK'
  BY <1>0 DEF FieldsOK, ThreadRecords, History, InitReturns, shared
<1>2. \A u \in Threads : InScript(u)' => (thr[u].i \in DOMAIN btinit.script)'
  BY <1>0 DEF TypeOK, InScript, InitReturns, shared
<1>3. OneWorker'
  BY <1>0 DEF Agreed, OneWorker, FieldsOK, AtWork, InitReturns, shared
<1>4. KilledJoined'
  BY <1>0 DEF Agreed, KilledJoined, FieldsOK, InitReturns, shared
<1>5. MutexOwned'
  BY <1>0 DEF Agreed, MutexOwned, InScript, KilledJoined, InitReturns, shared
<1>6. OneInFlight'
  BY <1>0 DEF Agreed, OneInFlight, Open, CommandOf, AtWork, KilledJoined, InitReturns,
     shared
<1>7. OwnScript'
  BY <1>0, Zenon DEF Agreed, OwnScript, InScript, CommandOf, AtWork, InitReturns, shared
<1>8. CommandsDone'
  BY <1>0, Zenon DEF Agreed, CommandsDone, InScript, CommandOf, DoneBefore, AllDone,
     OneWorker,
     AtWork, OwnScript, InitReturns, shared
<1>9. AddressRead'
  BY <1>0 DEF Agreed, AddressRead, InScript, InitReturns, shared
<1>10. Registered'
  BY <1>0 DEF Agreed, Registered, InitReturns
<1>11. QED
  BY <1>10, <1>1, <1>2, <1>3, <1>4, <1>5, <1>6, <1>7, <1>8, <1>9 DEF IInv, TypeOK, Agreed

LEMMA StackShutsDownStep ==
  ASSUME IInv, ~hist.stray, StackShutsDown
  PROVE  IInv'
<1>0. TypeOK /\ FieldsOK /\ Agreed
  BY DEF IInv, TypeOK
<1>1. FieldsOK'
  BY <1>0 DEF FieldsOK, ThreadRecords, History, StackShutsDown, shared
<1>2. \A u \in Threads : InScript(u)' => (thr[u].i \in DOMAIN btinit.script)'
  BY <1>0 DEF TypeOK, InScript, StackShutsDown, shared
<1>3. OneWorker'
  BY <1>0 DEF Agreed, OneWorker, FieldsOK, AtWork, StackShutsDown, shared
<1>4. KilledJoined'
  BY <1>0 DEF Agreed, KilledJoined, FieldsOK, StackShutsDown, shared
<1>5. MutexOwned'
  BY <1>0 DEF Agreed, MutexOwned, InScript, KilledJoined, StackShutsDown, shared
<1>6. OneInFlight'
  BY <1>0 DEF OneInFlight, AtWork, KilledJoined, StackShutsDown
<1>7. OwnScript'
  BY <1>0, Zenon DEF Agreed, OwnScript, InScript, CommandOf, AtWork, StackShutsDown, shared
<1>8. CommandsDone'
  BY <1>0, Zenon DEF Agreed, CommandsDone, InScript, CommandOf, DoneBefore, AllDone,
     OneWorker,
     AtWork, OwnScript, StackShutsDown, shared
<1>9. AddressRead'
  BY <1>0 DEF Agreed, AddressRead, InScript, StackShutsDown, shared
<1>10. Registered'
  BY <1>0 DEF Agreed, Registered, StackShutsDown
<1>11. QED
  BY <1>10, <1>1, <1>2, <1>3, <1>4, <1>5, <1>6, <1>7, <1>8, <1>9 DEF IInv, TypeOK, Agreed

LEMMA BT_CleanupStep ==
  ASSUME IInv, ~hist.stray, BT_Cleanup
  PROVE  IInv'
<1>0. TypeOK /\ FieldsOK /\ Agreed
  BY DEF IInv, TypeOK
<1>1. FieldsOK'
  <2>1. thr' \in [Threads -> ThreadRecords]
    <3>1. /\ thr \in [Threads -> ThreadRecords] /\ worker_thread \in Threads
          /\ (thr[worker_thread].pc # "none") \in BOOLEAN
      BY <1>0, Zenon DEF FieldsOK
    <3>2. [thr EXCEPT ![worker_thread].killed = thr[worker_thread].pc # "none"]
            \in [Threads -> ThreadRecords]
      BY <1>0, <3>1, KilledType, Zenon
    <3>3. QED
      BY <3>1, <3>2, Zenon DEF BT_Cleanup
  <2>2. QED
    BY <1>0, <2>1 DEF FieldsOK, History, BT_Cleanup, shared
<1>2. \A u \in Threads : InScript(u)' => (thr[u].i \in DOMAIN btinit.script)'
  BY <1>0 DEF TypeOK, FieldsOK, InScript, ThreadRecords, AtWork, BT_Cleanup, shared
<1>3. OneWorker'
  BY <1>0 DEF Agreed, OneWorker, FieldsOK, ThreadRecords, AtWork, BT_Cleanup
<1>4. KilledJoined'
  BY <1>0 DEF Agreed, KilledJoined, FieldsOK, ThreadRecords, BT_Cleanup
<1>5. MutexOwned'
  BY <1>0 DEF Agreed, MutexOwned, FieldsOK, ThreadRecords, InScript, OneWorker,
     KilledJoined, BT_Cleanup, shared
<1>6. OneInFlight'
  BY <1>0 DEF OneInFlight, Open, AtWork, KilledJoined, BT_Cleanup
<1>7. OwnScript'
  BY <1>0 DEF Agreed, OwnScript, FieldsOK, ThreadRecords, InScript, CommandOf, OneWorker,
     AtWork, BT_Cleanup, shared
<1>8. CommandsDone'
  <2>1. \A u \in Threads : /\ thr'[u].pc = thr[u].pc /\ thr'[u].kind = thr[u].kind
                           /\ thr'[u].i = thr[u].i /\ thr'[u].ok = thr[u].ok
    BY <1>0 DEF FieldsOK, ThreadRecords, BT_Cleanup
  <2>2. UNCHANGED <<phase, btinit, cmd_status, hist>>
    BY DEF BT_Cleanup, shared
  <2>3. QED
    BY <1>0, <2>1, <2>2, Zenon DEF Agreed, CommandsDone, InScript, CommandOf, DoneBefore,
       AllDone
<1>9. AddressRead'
  BY <1>0 DEF Agreed, AddressRead, FieldsOK, ThreadRecords, OwnScript, InScript, BT_Cleanup,
     shared
<1>10. Registered'
  BY <1>0 DEF Agreed, Registered, BT_Cleanup
<1>11. QED
  BY <1>10, <1>1, <1>2, <1>3, <1>4, <1>5, <1>6, <1>7, <1>8, <1>9 DEF IInv, TypeOK, Agreed

LEMMA CleanupJoinsStep ==
  ASSUME IInv, ~hist.stray, CleanupJoins
  PROVE  IInv'
<1>0. TypeOK /\ FieldsOK /\ Agreed
  BY DEF IInv, TypeOK
<1>1. FieldsOK'
  BY <1>0, ZenonT(30) DEF FieldsOK, ThreadRecords, History, CleanupJoins, shared
<1>2. \A u \in Threads : InScript(u)' => (thr[u].i \in DOMAIN btinit.script)'
  BY <1>0, Zenon DEF InScript, Agreed, OneWorker, AtWork, CleanupJoins
<1>3. OneWorker'
  BY <1>0, Zenon DEF Agreed, OneWorker, FieldsOK, AtWork, CleanupJoins, shared
<1>4. KilledJoined'
  BY <1>0 DEF Agreed, KilledJoined, FieldsOK, CleanupJoins, shared
<1>5. MutexOwned'
  BY <1>0 DEF Agreed, MutexOwned, InScript, AtWork, OneWorker, KilledJoined, CleanupJoins
<1>6. OneInFlight'
  BY <1>0 DEF OneInFlight, Open, AtWork, KilledJoined, CleanupJoins
<1>7. OwnScript'
  BY <1>0, Zenon DEF Agreed, OwnScript, InScript, OneWorker, AtWork, CleanupJoins
<1>8. CommandsDone'
  BY <1>0, Zenon DEF Agreed, CommandsDone, InScript, DoneBefore, AllDone, OneWorker, AtWork,
     OwnScript, CleanupJoins, shared
<1>9. AddressRead'
  BY <1>0, Zenon DEF Agreed, AddressRead, InScript, CleanupJoins, shared
<1>10. Registered'
  BY <1>0 DEF Agreed, Registered, CleanupJoins
<1>11. QED
  BY <1>10, <1>1, <1>2, <1>3, <1>4, <1>5, <1>6, <1>7, <1>8, <1>9 DEF IInv, TypeOK, Agreed

LEMMA clean_callbacksStep ==
  ASSUME IInv, ~hist.stray, clean_callbacks
  PROVE  IInv'
<1>0. TypeOK /\ FieldsOK /\ Agreed
  BY DEF IInv, TypeOK
<1>1. FieldsOK'
  BY <1>0, ZenonT(30) DEF FieldsOK, ThreadRecords, History, clean_callbacks, shared
<1>2. \A u \in Threads : InScript(u)' => (thr[u].i \in DOMAIN btinit.script)'
  BY <1>0 DEF InScript, Agreed, OneWorker, AtWork, clean_callbacks
<1>3. OneWorker'
  BY <1>0 DEF Agreed, OneWorker, FieldsOK, AtWork, clean_callbacks, shared
<1>4. KilledJoined'
  BY <1>0 DEF Agreed, KilledJoined, FieldsOK, clean_callbacks, shared
<1>5. MutexOwned'
  BY <1>0 DEF Agreed, MutexOwned, InScript, AtWork, OneWorker, KilledJoined, clean_callbacks
<1>6. OneInFlight'
  BY <1>0 DEF OneInFlight, Open, AtWork, KilledJoined, clean_callbacks
<1>7. OwnScript'
  BY <1>0, Zenon DEF Agreed, OwnScript, InScript, OneWorker, AtWork, clean_callbacks
<1>8. CommandsDone'
  BY <1>0, Zenon DEF Agreed, CommandsDone, InScript, DoneBefore, AllDone, OneWorker, AtWork,
     OwnScript, clean_callbacks, shared
<1>9. AddressRead'
  BY <1>0 DEF Agreed, AddressRead, InScript, clean_callbacks, shared
<1>10. Registered'
  BY <1>0 DEF Registered, clean_callbacks
<1>11. QED
  BY <1>10, <1>1, <1>2, <1>3, <1>4, <1>5, <1>6, <1>7, <1>8, <1>9 DEF IInv, TypeOK, Agreed

LEMMA FwThreadStartsStep ==
  ASSUME IInv, ~hist.stray, NEW t \in Threads,
         FwThreadStarts(t)
  PROVE  IInv'
<1>0. TypeOK /\ FieldsOK /\ Agreed
  BY DEF IInv, TypeOK
<1>a. /\ t = worker_thread /\ phase = "fw" /\ thr[t].kind = "fw" /\ btinit.script = Null
      /\ \A u \in Threads : u # t => ~AtWork(u)
  BY <1>0 DEF Agreed, OneWorker, OwnScript, AtWork, FwThreadStarts
<1>b. /\ btinit'.chip = btinit.chip /\ btinit'.addr = btinit.addr
      /\ btinit.chip \in DOMAIN Pre => btinit'.script = Pre[btinit.chip]
  BY <1>0 DEF FieldsOK, FwThreadStarts
<1>c. btinit.chip \in DOMAIN Pre =>
        \E i \in {1, 2} :
          /\ thr' = [thr EXCEPT ![t].pc = "next", ![t].i = i]
          /\ fgGetEFUSE' = (fgGetEFUSE \/ btinit.addr = "default") /\ (i = 1) = fgGetEFUSE'
  <2>1. SUFFICES ASSUME btinit.chip \in DOMAIN Pre
                 PROVE  \E i \in {1, 2} :
                          /\ thr' = [thr EXCEPT ![t].pc = "next", ![t].i = i]
                          /\ fgGetEFUSE' = (fgGetEFUSE \/ btinit.addr = "default")
                          /\ (i = 1) = fgGetEFUSE'
    OBVIOUS
  <2>2. Pre[btinit.chip] # Null
    BY <2>1, PreScripts
  <2>3. /\ fgGetEFUSE' = (fgGetEFUSE \/ btinit.addr = "default")
        /\ thr' = [thr EXCEPT ![t].pc = "next",
                              ![t].i = IF fgGetEFUSE \/ btinit.addr = "default" THEN 1 ELSE 2]
    BY <2>1, <2>2 DEF FwThreadStarts
  <2>4. CASE fgGetEFUSE \/ btinit.addr = "default"
    BY <2>3, <2>4, Zenon
  <2>5. CASE ~(fgGetEFUSE \/ btinit.addr = "default")
    <3>1. thr' = [thr EXCEPT ![t].pc = "next", ![t].i = 2]
      BY <2>3, <2>5
    <3>2. ~fgGetEFUSE' /\ fgGetEFUSE' \in BOOLEAN
      BY <2>3, <2>5, Zenon
    <3>3. (2 = 1) = fgGetEFUSE'
      BY <3>2
    <3>4. QED
      BY <2>3, <3>1, <3>3, Zenon
  <2>6. QED
    BY <2>4, <2>5
<1>d. btinit.chip \notin DOMAIN Pre =>
        thr' = Leaves(t, FALSE) /\ fgGetEFUSE' = fgGetEFUSE /\ btinit'.script = Null
  BY <1>0, <1>a DEF FwThreadStarts, FieldsOK
<1>e. /\ \A u \in Threads : AtWork(u)' => u = t
      /\ thr'[t].pc \in {"next", "destroy"} /\ thr'[t].kind = "fw"
      /\ thr'[t].pc = "destroy" => ~thr'[t].ok /\ btinit.chip \notin DOMAIN Pre
      /\ \A u \in Threads : u # t => thr'[u] = thr[u]
      /\ thr'[t].killed = thr[t].killed
      /\ thr'[t].pc = "next" =>
           /\ btinit.chip \in DOMAIN Pre /\ thr'[t].i \in {1, 2}
           /\ (thr'[t].i = 1) = fgGetEFUSE'
           /\ fgGetEFUSE' = (fgGetEFUSE \/ btinit.addr = "default")
  <2>1. CASE btinit.chip \in DOMAIN Pre
    BY <1>0, <1>a, <1>c, <2>1 DEF FieldsOK, ThreadRecords, AtWork
  <2>2. CASE btinit.chip \notin DOMAIN Pre
    BY <1>0, <1>a, <1>d, <2>2 DEF FieldsOK, ThreadRecords, AtWork, Leaves, ExitOrder
  <2>3. QED
    BY <2>1, <2>2, Zenon
<1>f. UNCHANGED <<control, flight, cmd_status, wOpCode, nvram, hist>>
  BY DEF FwThreadStarts
<1>1. FieldsOK'
  <2>1. thr' \in [Threads -> ThreadRecords]
    <3>1. CASE btinit.chip \in DOMAIN Pre
      <4>1. PICK i \in {1, 2} : thr' = [thr EXCEPT ![t].pc = "next", ![t].i = i]
        BY <1>c, <3>1
      <4>2. i \in Nat \ {0}
        OBVIOUS
      <4>3. QED
        BY <1>0, <4>1, <4>2, NextType, Zenon
    <3>2. CASE btinit.chip \notin DOMAIN Pre
      BY <1>0, <1>d, <3>2, LeavesType, Zenon
    <3>3. QED
      BY <3>1, <3>2
  <2>2. btinit' \in [chip : Chips, addr : Addresses, script : Scripts \cup {Null}]
    BY <1>0, PreScripts DEF FieldsOK, FwThreadStarts
  <2>3. mutex' \in BOOLEAN /\ fgGetEFUSE' \in BOOLEAN
    BY <1>0, Zenon DEF FieldsOK, FwThreadStarts
  <2>4. UNCHANGED <<control, flight, cmd_status, wOpCode, nvram, hist>>
    BY DEF FwThreadStarts
  <2>5. QED
    BY <1>0, <2>1, <2>2, <2>3, <2>4 DEF FieldsOK, control
<1>2. \A u \in Threads : InScript(u)' => (thr[u].i \in DOMAIN btinit.script)'
  BY <1>b, <1>e, PreScripts DEF InScript, AtWork
<1>3. OneWorker'
  BY <1>0, PreScripts, SMTT(30) DEF Agreed, OneWorker, FieldsOK, ThreadRecords, History,
     AtWork,
     FwThreadStarts, Leaves, control
<1>4. KilledJoined'
  BY <1>0, <1>e, <1>f, Zenon DEF Agreed, KilledJoined, AtWork, control
<1>5. MutexOwned'
  BY <1>0, PreScripts DEF MutexOwned, InScript, AtWork, OneWorker, KilledJoined,
     FwThreadStarts
<1>6. OneInFlight'
  BY <1>0, PreScripts DEF Agreed, OneInFlight, Open, CommandOf, OneWorker, AtWork,
     KilledJoined, FwThreadStarts, control
<1>7. OwnScript'
  BY <1>b, <1>e, Zenon DEF OwnScript, InScript, AtWork, CommandOf
<1>8. CommandsDone'
  <2>1. \A i \in {1, 2} : 2..(i - 1) = {}
    OBVIOUS
  <2>2. UNCHANGED <<phase, cmd_status, hist, btinit.chip>>
    BY <1>b, <1>f, Zenon DEF control
  <2>3. (\A u \in Threads : thr[u].kind = "fw" => (InScript(u) => DoneBefore(thr[u].i)))'
    BY <1>e, <2>1, Zenon DEF InScript, AtWork, DoneBefore
  <2>4. QED
    BY <1>a, <1>e, <2>2, <2>3, Zenon DEF CommandsDone, InScript, AtWork
<1>9. AddressRead'
  <2>1. UNCHANGED <<nvram, hist, btinit.addr>>
    BY <1>b, <1>f
  <2>2. ~hist.misread => btinit.addr = nvram
    BY <1>0, <1>a DEF Agreed, AddressRead, FwThreadStarts
  <2>3. thr'[t].pc = "destroy" => fgGetEFUSE' = fgGetEFUSE
    BY <1>d, <1>e, Zenon DEF AtWork
  <2>4. ~hist.misread => (fgGetEFUSE => nvram = "default")
    BY <1>0 DEF Agreed, AddressRead
  <2>5. QED
    BY <1>0, <1>e, <2>1, <2>2, <2>3, <2>4, Zenon DEF AddressRead, AtWork, FieldsOK
<1>10. Registered'
  BY <1>0, PreScripts DEF Agreed, Registered, OneWorker, AtWork, FwThreadStarts, control
<1>11. QED
  BY <1>10, <1>1, <1>2, <1>3, <1>4, <1>5, <1>6, <1>7, <1>8, <1>9 DEF IInv, TypeOK, Agreed

LEMMA ScoThreadStartsStep ==
  ASSUME IInv, ~hist.stray, NEW t \in Threads,
         ScoThreadStarts(t)
  PROVE  IInv'
<1>0. TypeOK /\ FieldsOK /\ Agreed
  BY DEF IInv, TypeOK
<1>a. /\ t = worker_thread /\ thr[t].kind = "sco" /\ btinit.chip \in DOMAIN Post
      /\ \A u \in Threads : u # t => ~AtWork(u)
  BY <1>0, BtConstants DEF Agreed, OneWorker, CommandsDone, AllDone, AtWork, ScoThreadStarts
<1>b. /\ btinit'.chip = btinit.chip /\ btinit'.script = Post[btinit.chip]
      /\ thr' = Goes(t, "next")
  BY <1>0, <1>a, PostScripts, Zenon DEF FieldsOK, ScoThreadStarts
<1>c. /\ \A u \in Threads : AtWork(u)' => u = t
      /\ thr'[t].pc = "next" /\ thr'[t].kind = "sco" /\ thr'[t].i = thr[t].i
  BY <1>0, <1>a, <1>b DEF FieldsOK, ThreadRecords, AtWork, Goes
<1>1. FieldsOK'
  <2>1. thr' \in [Threads -> ThreadRecords]
    BY <1>0, LeavesType, GoesType, Zenon DEF FieldsOK, ScoThreadStarts, ExitOrder
  <2>2. btinit' \in [chip : Chips, addr : Addresses, script : Scripts \cup {Null}]
    BY <1>0, PostScripts DEF FieldsOK, ScoThreadStarts
  <2>3. mutex' \in BOOLEAN /\ fgGetEFUSE' \in BOOLEAN
    BY <1>0 DEF FieldsOK, ScoThreadStarts
  <2>4. UNCHANGED <<control, flight, cmd_status, wOpCode, nvram, hist>>
    BY DEF ScoThreadStarts
  <2>5. QED
    BY <1>0, <2>1, <2>2, <2>3, <2>4 DEF FieldsOK, control
<1>2. \A u \in Threads : InScript(u)' => (thr[u].i \in DOMAIN btinit.script)'
  <2>1. thr[t].i = 1
    BY <1>0 DEF Agreed, OwnScript, ScoThreadStarts
  <2>2. QED
    BY <1>a, <1>b, <1>c, <2>1, PostScripts DEF InScript, AtWork
<1>3. OneWorker'
  BY <1>0, PostScripts DEF Agreed, OneWorker, FieldsOK, AtWork, ScoThreadStarts, Leaves,
     Goes, control
<1>4. KilledJoined'
  BY <1>0, PostScripts DEF Agreed, KilledJoined, FieldsOK, ScoThreadStarts, Leaves,
     ExitOrder, Goes, control
<1>5. MutexOwned'
  BY <1>0, PostScripts DEF MutexOwned, InScript, AtWork, OneWorker, KilledJoined,
     ScoThreadStarts
<1>6. OneInFlight'
  BY <1>0, PostScripts DEF Agreed, OneInFlight, Open, CommandOf, OneWorker, AtWork,
     KilledJoined, ScoThreadStarts, control
<1>7. OwnScript'
  BY <1>a, <1>b, <1>c, PostScripts, ZenonT(30) DEF OwnScript, InScript, AtWork
<1>8. CommandsDone'
  <2>1. UNCHANGED <<cmd_status, hist, phase>> /\ CommandsDone
    BY <1>0, Zenon DEF ScoThreadStarts, control, Agreed
  <2>2. AllDone => AllDone'
    BY <1>b, <2>1, Zenon DEF AllDone, DoneBefore
  <2>3. \A u \in Threads : thr'[u].kind = "fw" =>
          ~InScript(u)' /\ thr'[u].pc \notin {"check", "wait", "destroy", "tell"}
    BY <1>c DEF InScript, AtWork
  <2> QED
    BY <2>1, <2>2, <2>3, Zenon DEF CommandsDone
<1>9. AddressRead'
  BY <1>0, PostScripts DEF Agreed, AddressRead, FieldsOK, OneWorker, AtWork, OwnScript,
     InScript, ScoThreadStarts, Leaves, Goes
<1>10. Registered'
  BY <1>0, PostScripts DEF Agreed, Registered, OneWorker, AtWork, ScoThreadStarts, control
<1>11. QED
  BY <1>10, <1>1, <1>2, <1>3, <1>4, <1>5, <1>6, <1>7, <1>8, <1>9 DEF IInv, TypeOK, Agreed

LEMMA ScriptEndsStep ==
  ASSUME IInv, ~hist.stray, NEW t \in Threads,
         ScriptEnds(t)
  PROVE  IInv'
<1>0. TypeOK /\ FieldsOK /\ Agreed
  BY DEF IInv, TypeOK
<1>1. FieldsOK'
  <2>1. thr' \in [Threads -> ThreadRecords]
    BY <1>0, LeavesType, Zenon DEF FieldsOK, ScriptEnds, ExitOrder
  <2>2. QED
    BY <1>0, <2>1 DEF FieldsOK, ScriptEnds, Leaves, control, shared
<1>2. \A u \in Threads : InScript(u)' => (thr[u].i \in DOMAIN btinit.script)'
  BY <1>0, AtCommand DEF FieldsOK, InScript, Agreed, OneWorker, AtWork, ScriptEnds, Leaves,
     ExitOrder
<1>3. OneWorker'
  BY <1>0, AtCommand DEF Agreed, OneWorker, FieldsOK, AtWork, ScriptEnds, Leaves, control
<1>4. KilledJoined'
  BY <1>0, AtCommand DEF Agreed, KilledJoined, FieldsOK, ScriptEnds, Leaves, ExitOrder,
     control
<1>5. MutexOwned'
  BY <1>0, AtCommand, Zenon DEF Agreed, MutexOwned, InScript, AtWork, OneWorker,
     KilledJoined,
     ScriptEnds, shared
<1>6. OneInFlight'
  BY <1>0, AtCommand, Zenon DEF Agreed, OneInFlight, Open, CommandOf, OneWorker, AtWork,
     KilledJoined, ScriptEnds, control
<1>7. OwnScript'
  BY <1>0, AtCommand, SMTT(30) DEF Agreed, OwnScript, FieldsOK, InScript, CommandOf,
     OneWorker,
     AtWork, ScriptEnds, Leaves, ExitOrder
<1>8. CommandsDone'
  <2>1. UNCHANGED <<phase, btinit, cmd_status, hist>> /\ InScript(t)
    BY DEF ScriptEnds, control, shared, InScript
  <2>2. /\ thr'[t].pc = "destroy" /\ thr'[t].kind = thr[t].kind
        /\ \A u \in Threads \ {t} : thr'[u] = thr[u]
    BY <1>0 DEF FieldsOK, ThreadRecords, ScriptEnds, Leaves, ExitOrder
  <2>3. thr[t].kind = "fw" => AllDone
    <3>1. SUFFICES ASSUME thr[t].kind = "fw" PROVE AllDone
      OBVIOUS
    <3>2. DoneBefore(thr[t].i)
      BY <1>0, <2>1, <3>1, Zenon DEF Agreed, CommandsDone
    <3>3. btinit.chip \in DOMAIN Pre /\ thr[t].i = Len(Pre[btinit.chip])
      BY <1>0, <2>1, <3>1, AtCommand, ZenonT(30) DEF ScriptEnds, Agreed, OwnScript
    <3> QED
      BY <3>2, <3>3, Zenon DEF AllDone
  <2>4. AllDone' = AllDone /\ \A n : DoneBefore(n)' = DoneBefore(n)
    BY <2>1, Zenon DEF AllDone, DoneBefore
  <2>5. ~InScript(t)' /\ thr'[t].pc \notin {"check", "wait"}
    BY <2>2 DEF InScript
  <2>6. CommandsDone
    BY <1>0, Zenon DEF Agreed
  <2>7. ASSUME NEW u \in Threads, thr'[u].kind = "fw"
        PROVE  /\ InScript(u)' => DoneBefore(thr[u].i)'
               /\ thr'[u].pc \in {"check", "wait"} /\ cmd_status' = "SUCCESS" =>
                    CommandOf(u)' \in hist'.acked
               /\ thr'[u].pc \in {"destroy", "tell"} /\ thr'[u].ok => AllDone'
    <3>1. CASE u = t
      BY <2>2, <2>3, <2>4, <2>5, <2>7, <3>1, Zenon
    <3>2. CASE u # t
      BY <2>1, <2>2, <2>4, <2>6, <2>7, <3>2, Zenon DEF CommandsDone, InScript, CommandOf,
         DoneBefore
    <3> QED
      BY <3>1, <3>2, Zenon
  <2>8. (phase \in {"fw_ok", "sco", "done"} => AllDone)'
    BY <2>1, <2>4, <2>6, Zenon DEF CommandsDone
  <2> QED
    BY <2>7, <2>8, Zenon DEF CommandsDone
<1>9. AddressRead'
  BY <1>0, AtCommand DEF Agreed, AddressRead, FieldsOK, OneWorker, AtWork, OwnScript,
     InScript, ScriptEnds, Leaves, ExitOrder, shared
<1>10. Registered'
  BY <1>0, AtCommand, Zenon DEF Agreed, Registered, OneWorker, AtWork, ScriptEnds,
     control
<1>11. QED
  BY <1>10, <1>1, <1>2, <1>3, <1>4, <1>5, <1>6, <1>7, <1>8, <1>9 DEF IInv, TypeOK, Agreed

LEMMA SendCommandStep ==
  ASSUME IInv, ~hist.stray, NEW t \in Threads,
         NEW sent \in BOOLEAN, NEW written \in BOOLEAN, SendCommand(t, sent, written)
  PROVE  IInv'
<1>0. TypeOK /\ FieldsOK /\ Agreed
  BY DEF IInv, TypeOK
<1>1. FieldsOK'
  <2>1. thr' \in [Threads -> ThreadRecords]
    BY <1>0, LeavesType, GoesType, Zenon DEF SendCommand
  <2>2. /\ cmd_status' = "PENDING" /\ wOpCode' \in Commands /\ flight' \subseteq Commands
    <3>1. CommandOf(t) \in Commands
      BY <1>0, AtCommand, Zenon DEF SendCommand, GORMcmd_HCC, InScript
    <3>2. QED
      BY <1>0, <3>1, Zenon DEF SendCommand, GORMcmd_HCC, FieldsOK
  <2>3. nvram' \in Addresses /\ fgGetEFUSE' \in BOOLEAN /\ hist' \in History
    <3>1. CASE CommandOf(t) = "set"
      <4>1. nvram' \in Addresses
        BY <1>0 DEF SendCommand, SetAddress, WriteBDAddrToNvram, FieldsOK
      <4>2. fgGetEFUSE' \in BOOLEAN
        BY <3>1, Zenon DEF SendCommand, SetAddress, FlagAfterSet
      <4>3. hist' \in History
        BY <1>0, Zenon DEF SendCommand, SetAddress, FieldsOK, History
      <4>4. QED
        BY <4>1, <4>2, <4>3
    <3>2. CASE CommandOf(t) # "set"
      BY <1>0, <3>2 DEF SendCommand, GORMcmd_HCC, FieldsOK
    <3>3. QED
      BY <3>1, <3>2
  <2>4. UNCHANGED <<control, mutex, btinit>>
    BY Zenon DEF SendCommand, GORMcmd_HCC
  <2>5. QED
    BY <1>0, <2>1, <2>2, <2>3, <2>4, SMTT(30) DEF FieldsOK, control
<1>a. /\ t = worker_thread /\ \A u \in Threads : u # t => ~AtWork(u)
      /\ \A u \in Threads : u # t => thr'[u] = thr[u]
      /\ thr'[t].pc \in {"check", "destroy"} /\ thr'[t].kind = thr[t].kind
      /\ thr'[t].i = thr[t].i /\ thr'[t].killed = thr[t].killed
      /\ thr'[t].pc = "destroy" => ~thr'[t].ok
  <2>1. t = worker_thread /\ \A u \in Threads : u # t => ~AtWork(u)
    BY <1>0, Zenon DEF Agreed, OneWorker, AtWork, SendCommand, GORMcmd_HCC
  <2>2. CASE thr' = Goes(t, "check")
    BY <1>0, <2>1, <2>2 DEF FieldsOK, ThreadRecords, Goes
  <2>3. CASE thr' = Leaves(t, FALSE)
    BY <1>0, <2>1, <2>3 DEF FieldsOK, ThreadRecords, Leaves, ExitOrder
  <2>4. QED
    BY <2>1, <2>2, <2>3, Zenon DEF SendCommand, GORMcmd_HCC
<1>2. \A u \in Threads : InScript(u)' => (thr[u].i \in DOMAIN btinit.script)'
  <2>1. \A u \in Threads : InScript(u)' => InScript(u) /\ thr'[u].i = thr[u].i
    BY <1>0 DEF FieldsOK, InScript, SendCommand, GORMcmd_HCC, Goes, Leaves
  <2>2. btinit' = btinit
    BY Zenon DEF SendCommand, GORMcmd_HCC
  <2>3. QED
    BY <1>0, <2>1, <2>2, Zenon DEF TypeOK, InScript
<1>3. OneWorker'
  BY <1>0, AtCommand DEF Agreed, OneWorker, FieldsOK, AtWork, SendCommand, GORMcmd_HCC,
     Leaves, Goes, control, SetAddress, WriteBDAddrToNvram, SavesAddress, FlagAfterSet
<1>4. KilledJoined'
  <2>1. UNCHANGED <<call, worker_thread>>
    BY Zenon DEF SendCommand, GORMcmd_HCC, control
  <2>2. QED
    BY <1>0, <1>a, <2>1, Zenon DEF Agreed, KilledJoined
<1>5. MutexOwned'
  <2>1. InScript(t) /\ mutex' = mutex
    BY Zenon DEF SendCommand, InScript
  <2>2. mutex
    BY <1>0, <2>1, Zenon DEF Agreed, MutexOwned
  <2> QED
    BY <2>1, <2>2, Zenon DEF MutexOwned
<1>6. OneInFlight'
  <2>1. /\ thr[t].pc = "next" /\ cmd_status' = "PENDING"
        /\ UNCHANGED <<btinit, call, worker_thread>>
    BY Zenon DEF SendCommand, control
  <2>2. Open' = Open /\ CommandOf(worker_thread)' = CommandOf(t)
    BY <1>a, <2>1, Zenon DEF Open, CommandOf
  <2>3. Open => flight = {}
    BY <1>0, <1>a, <2>1 DEF Agreed, OneInFlight
  <2>4. \/ flight' = flight
        \/ flight' = flight \cup {CommandOf(t)} /\ thr' = Goes(t, "check")
    BY Zenon DEF SendCommand, GORMcmd_HCC
  <2>5. thr' = Goes(t, "check") => thr'[t].pc = "check"
    BY <1>0 DEF FieldsOK, ThreadRecords, Goes
  <2> QED
    BY <1>a, <2>1, <2>2, <2>3, <2>4, <2>5 DEF OneInFlight
<1>7. OwnScript'
  BY <1>0, AtCommand DEF Agreed, OwnScript, FieldsOK, InScript, CommandOf, OneWorker,
     AtWork, SendCommand, GORMcmd_HCC, Leaves, ExitOrder, Goes, SetAddress,
     WriteBDAddrToNvram, SavesAddress, FlagAfterSet
<1>8. CommandsDone'
  <2>1. UNCHANGED <<phase, btinit>> /\ cmd_status' = "PENDING"
    BY Zenon DEF SendCommand, GORMcmd_HCC, control
  <2>2. hist'.acked = hist.acked
    BY <1>0 DEF SendCommand, SetAddress, FieldsOK, History
  <2>3. InScript(t) /\ (thr[t].kind = "fw" => DoneBefore(thr[t].i))
    BY <1>0, Zenon DEF Agreed, CommandsDone, InScript, SendCommand, GORMcmd_HCC
  <2>4. (\A u \in Threads : thr[u].kind = "fw" => (InScript(u) => DoneBefore(thr[u].i)))'
    BY <1>a, <2>1, <2>2, <2>3, ZenonT(30) DEF InScript, AtWork, DoneBefore
  <2>5. (\A u \in Threads : ~(thr[u].pc \in {"destroy", "tell"} /\ thr[u].ok))'
    BY <1>a, Zenon DEF AtWork
  <2>6. (phase \in {"fw_ok", "sco", "done"} => AllDone)'
    BY <1>0, <2>1, <2>2, Zenon DEF Agreed, CommandsDone, AllDone, DoneBefore
  <2>7. QED
    BY <2>1, <2>4, <2>5, <2>6, Zenon DEF CommandsDone
<1>9. AddressRead'
  BY <1>0, AtCommand DEF Agreed, AddressRead, FieldsOK, OneWorker, AtWork, OwnScript,
     InScript, SendCommand, GORMcmd_HCC, Leaves, ExitOrder, Goes, SetAddress,
     WriteBDAddrToNvram, SavesAddress, FlagAfterSet
<1>10. Registered'
  BY <1>0, AtCommand DEF Registered, OneWorker, AtWork, SendCommand, GORMcmd_HCC, control,
     SetAddress, WriteBDAddrToNvram, SavesAddress, FlagAfterSet
<1>11. QED
  BY <1>10, <1>1, <1>2, <1>3, <1>4, <1>5, <1>6, <1>7, <1>8, <1>9, Zenon DEF IInv, TypeOK,
     Agreed

LEMMA NoBufferStep ==
  ASSUME IInv, ~hist.stray, NEW t \in Threads,
         NoBuffer(t)
  PROVE  IInv'
<1>0. TypeOK /\ FieldsOK /\ Agreed
  BY DEF IInv, TypeOK
<1>1. FieldsOK'
  <2>1. thr' \in [Threads -> ThreadRecords]
    BY <1>0, LeavesType, Zenon DEF FieldsOK, NoBuffer, ExitOrder
  <2>2. QED
    BY <1>0, <2>1 DEF FieldsOK, NoBuffer, Leaves, control, shared
<1>2. \A u \in Threads : InScript(u)' => (thr[u].i \in DOMAIN btinit.script)'
  BY <1>0, AtCommand DEF FieldsOK, InScript, Agreed, OneWorker, AtWork, NoBuffer, Leaves,
     ExitOrder
<1>3. OneWorker'
  BY <1>0, AtCommand DEF Agreed, OneWorker, FieldsOK, AtWork, NoBuffer, Leaves, control
<1>4. KilledJoined'
  BY <1>0, AtCommand DEF Agreed, KilledJoined, FieldsOK, NoBuffer, Leaves, ExitOrder,
     control
<1>5. MutexOwned'
  BY <1>0, AtCommand, Zenon DEF Agreed, MutexOwned, InScript, AtWork, OneWorker,
     KilledJoined,
     NoBuffer, shared
<1>6. OneInFlight'
  BY <1>0, AtCommand, Zenon DEF Agreed, OneInFlight, Open, CommandOf, OneWorker, AtWork,
     KilledJoined, NoBuffer, control
<1>7. OwnScript'
  <2>1. OwnScript /\ UNCHANGED <<btinit, fgGetEFUSE>>
    BY <1>0, Zenon DEF Agreed, NoBuffer, shared
  <2>2. /\ \A u \in Threads : thr'[u].kind = thr[u].kind /\ thr'[u].i = thr[u].i
        /\ \A u \in Threads : thr'[u].pc = thr[u].pc \/ thr'[u].pc = "destroy"
    BY <1>0 DEF FieldsOK, ThreadRecords, NoBuffer, Leaves, ExitOrder
  <2> QED
    BY <2>1, <2>2, ScriptKept, Zenon DEF InScript
<1>8. CommandsDone'
  BY <1>0, AtCommand DEF Agreed, CommandsDone, FieldsOK, InScript, CommandOf, DoneBefore,
     AllDone, OneWorker, AtWork, OwnScript, NoBuffer, Leaves, ExitOrder, control, shared
<1>9. AddressRead'
  BY <1>0, AtCommand, SMTT(30) DEF Agreed, AddressRead, FieldsOK, OneWorker, AtWork,
     OwnScript,
     InScript, NoBuffer, Leaves, ExitOrder, shared
<1>10. Registered'
  BY <1>0, AtCommand, Zenon DEF Agreed, Registered, OneWorker, AtWork, NoBuffer, control
<1>11. QED
  BY <1>10, <1>1, <1>2, <1>3, <1>4, <1>5, <1>6, <1>7, <1>8, <1>9 DEF IInv, TypeOK, Agreed

LEMMA CheckStatusStep ==
  ASSUME IInv, ~hist.stray, NEW t \in Threads,
         CheckStatus(t)
  PROVE  IInv'
<1>0. TypeOK /\ FieldsOK /\ Agreed
  BY DEF IInv, TypeOK
<1>1. FieldsOK'
  <2>1. thr' \in [Threads -> ThreadRecords]
    <3>1. thr[t].i + 1 \in Nat \ {0}
      BY <1>0 DEF FieldsOK, ThreadRecords
    <3>2. QED
      BY <1>0, <3>1, LeavesType, GoesType, NextType, Zenon DEF CheckStatus, Advanced
  <2>2. QED
    BY <1>0, <2>1 DEF FieldsOK, CheckStatus, Leaves, control, shared, Failed, Advanced
<1>2. \A u \in Threads : InScript(u)' => (thr[u].i \in DOMAIN btinit.script)'
  BY <1>0, AtCommand DEF TypeOK, FieldsOK, InScript, ThreadRecords, Agreed, OneWorker,
     AtWork, CheckStatus, Leaves, Goes, shared, Failed, Advanced
<1>3. OneWorker'
  BY <1>0, AtCommand DEF Agreed, OneWorker, FieldsOK, AtWork, CheckStatus, Leaves, Goes,
     control, Failed, Advanced
<1>4. KilledJoined'
  BY <1>0, AtCommand DEF Agreed, KilledJoined, FieldsOK, CheckStatus, Leaves, ExitOrder,
     Goes, control, Failed, Advanced
<1>5. MutexOwned'
  BY <1>0, AtCommand DEF Agreed, MutexOwned, InScript, AtWork, OneWorker, KilledJoined,
     CheckStatus, shared, Failed, Advanced
<1>a. /\ UNCHANGED <<btinit, cmd_status, hist, phase, fgGetEFUSE, flight>>
      /\ UNCHANGED <<call, worker_thread>>
  BY Zenon DEF CheckStatus, control, shared
<1>b. /\ CommandsDone /\ OwnScript /\ thr[t].pc = "check" /\ InScript(t)
      /\ thr \in [Threads -> ThreadRecords] /\ t = worker_thread
  BY <1>0, Zenon DEF Agreed, OneWorker, AtWork, FieldsOK, CheckStatus, InScript
<1>c. /\ thr[t].i \in Nat /\ thr[t].i + 1 # 1
      /\ cmd_status \in {"SUCCESS", "FAIL", "PENDING"}
  BY <1>0, <1>b DEF FieldsOK, ThreadRecords
<1>d. /\ \A u \in Threads : u # t => thr'[u] = thr[u]
      /\ thr'[t].kind = thr[t].kind
      /\ \/ thr'[t].pc = "wait" /\ thr'[t].i = thr[t].i
         \/ /\ thr'[t].pc = "destroy" /\ thr'[t].i = thr[t].i /\ ~thr'[t].ok
            /\ cmd_status = "FAIL"
         \/ thr'[t].pc = "next" /\ thr'[t].i = thr[t].i + 1 /\ cmd_status = "SUCCESS"
  BY <1>b, <1>c DEF CheckStatus, Leaves, ExitOrder, Goes, Failed, Advanced, ThreadRecords
<1>6. OneInFlight'
  <2>1. SUFFICES ASSUME Open', flight' # {} PROVE OneInFlight'
    BY Zenon DEF OneInFlight
  <2>2. cmd_status = "PENDING" /\ flight = {CommandOf(t)}
    BY <1>0, <1>a, <1>b, <2>1, Zenon DEF Agreed, OneInFlight, Open
  <2>3. thr'[t].pc = "wait" /\ thr'[t].i = thr[t].i
    BY <1>d, <2>2
  <2>4. CommandOf(t)' = CommandOf(t)
    BY <1>a, <2>3, Zenon DEF CommandOf
  <2> QED
    BY <1>a, <1>b, <2>2, <2>3, <2>4, Zenon DEF OneInFlight
<1>7. OwnScript'
  <2>1. CASE thr'[t].i = thr[t].i /\ thr'[t].pc \in {"wait", "destroy"}
    BY <1>a, <1>b, <1>d, <2>1, ScriptKept, Zenon DEF InScript
  <2>2. CASE thr'[t].pc = "next" /\ thr'[t].i = thr[t].i + 1
    <3>1. \A u \in Threads \ {t} : thr'[u] = thr[u] /\ CommandOf(u)' = CommandOf(u)
      BY <1>a, <1>d, Zenon DEF CommandOf
    <3>2. /\ btinit.chip \in DOMAIN Pre /\ thr'[t].i # 1
          /\ thr[t].kind = "fw" => btinit.script = Pre[btinit.chip]
          /\ thr[t].kind = "sco" => btinit.script = Post[btinit.chip]
      BY <1>b, <1>c, <2>2, Zenon DEF OwnScript
    <3>3. ASSUME NEW u \in Threads
          PROVE  /\ (thr[u].pc = "start" /\ thr[u].kind = "fw" => btinit.script = Null)'
                 /\ (thr[u].pc = "start" => thr[u].i = 1)'
                 /\ (thr[u].pc \in {"check", "wait"} => CommandOf(u) # "end")'
      BY <1>a, <1>b, <2>2, <3>1, Zenon DEF OwnScript
    <3>4. ASSUME NEW u \in Threads, InScript(u)'
          PROVE  /\ (btinit.chip \in DOMAIN Pre)'
                 /\ (thr[u].kind = "fw" =>
                       btinit.script = Pre[btinit.chip] /\ (thr[u].i = 1 => fgGetEFUSE))'
                 /\ (thr[u].kind = "sco" => btinit.script = Post[btinit.chip])'
      BY <1>a, <1>b, <1>d, <3>1, <3>2, <3>4, Zenon DEF OwnScript, InScript
    <3> QED
      BY <3>3, <3>4, Zenon DEF OwnScript
  <2> QED
    BY <1>d, <2>1, <2>2, Zenon
<1>8. CommandsDone'
  <2>1. UNCHANGED <<btinit, cmd_status, hist, phase>>
    BY <1>a, Zenon
  <2>2. CommandsDone /\ thr[t].pc = "check" /\ InScript(t)
    BY <1>b, Zenon
  <2>3. /\ \A u \in Threads : u # t => thr'[u] = thr[u]
        /\ thr'[t].kind = thr[t].kind
        /\ \/ thr'[t].pc = "wait" /\ thr'[t].i = thr[t].i
           \/ thr'[t].pc \in {"destroy", "tell"} /\ ~thr'[t].ok
           \/ thr'[t].pc = "next" /\ thr'[t].i = thr[t].i + 1 /\ cmd_status = "SUCCESS"
    BY <1>d, Zenon
  <2>4. cmd_status = "SUCCESS" /\ thr[t].kind = "fw" => DoneBefore(thr[t].i + 1)
    <3>1. SUFFICES ASSUME cmd_status = "SUCCESS", thr[t].kind = "fw"
                   PROVE  DoneBefore(thr[t].i + 1)
      BY Zenon
    <3>2. \A k \in 2..((thr[t].i + 1) - 1) : k \in 2..(thr[t].i - 1) \/ k = thr[t].i
      BY <1>c
    <3>3. /\ DoneBefore(thr[t].i) /\ CommandOf(t) \in hist.acked
          /\ btinit.script = Pre[btinit.chip]
      BY <1>b, <3>1, Zenon DEF CommandsDone, OwnScript
    <3> QED
      BY <3>2, <3>3, Zenon DEF DoneBefore, CommandOf
  <2>5. AllDone' = AllDone /\ \A n : DoneBefore(n)' = DoneBefore(n)
    BY <2>1, Zenon DEF AllDone, DoneBefore
  <2>6. (\A u \in Threads : thr[u].kind = "fw" => (InScript(u) => DoneBefore(thr[u].i)))'
    BY <2>2, <2>3, <2>4, <2>5, Zenon DEF CommandsDone, InScript
  <2>7. (\A u \in Threads : thr[u].kind = "fw" =>
          (thr[u].pc \in {"check", "wait"} /\ cmd_status = "SUCCESS" =>
             CommandOf(u) \in hist.acked))'
    BY <2>1, <2>2, <2>3, ZenonT(30) DEF CommandsDone, CommandOf
  <2>8. (\A u \in Threads : thr[u].kind = "fw" =>
          (thr[u].pc \in {"destroy", "tell"} /\ thr[u].ok => AllDone))'
    BY <2>2, <2>3, <2>5, ZenonT(30) DEF CommandsDone
  <2>9. (phase \in {"fw_ok", "sco", "done"} => AllDone)'
    BY <2>1, <2>2, <2>5, Zenon DEF CommandsDone
  <2>10. QED
    BY <2>6, <2>7, <2>8, <2>9, Zenon DEF CommandsDone
<1>9. AddressRead'
  BY <1>0, AtCommand DEF Agreed, AddressRead, FieldsOK, OneWorker, AtWork, OwnScript,
     InScript, CheckStatus, Leaves, ExitOrder, Goes, shared, Failed, Advanced
<1>10. Registered'
  BY <1>0, AtCommand DEF Agreed, Registered, OneWorker, AtWork, CheckStatus, control,
     Failed, Advanced
<1>11. QED
  BY <1>10, <1>1, <1>2, <1>3, <1>4, <1>5, <1>6, <1>7, <1>8, <1>9 DEF IInv, TypeOK, Agreed

LEMMA WakesUpStep ==
  ASSUME IInv, ~hist.stray, NEW t \in Threads,
         WakesUp(t)
  PROVE  IInv'
<1>0. TypeOK /\ FieldsOK /\ Agreed
  BY DEF IInv, TypeOK
<1>1. FieldsOK'
  <2>1. thr' \in [Threads -> ThreadRecords]
    BY <1>0, GoesType, Zenon DEF FieldsOK, WakesUp
  <2>2. QED
    BY <1>0, <2>1 DEF FieldsOK, History, WakesUp, Goes, control, shared
<1>2. \A u \in Threads : InScript(u)' => (thr[u].i \in DOMAIN btinit.script)'
  BY <1>0 DEF TypeOK, InScript, AtWork, WakesUp, Goes, shared
<1>3. OneWorker'
  BY <1>0 DEF Agreed, OneWorker, AtWork, WakesUp, Goes, control
<1>4. KilledJoined'
  BY <1>0 DEF Agreed, KilledJoined, WakesUp, Goes, control
<1>5. MutexOwned'
  BY <1>0, Zenon DEF Agreed, MutexOwned, InScript, AtWork, OneWorker, KilledJoined, WakesUp,
     shared
<1>6. OneInFlight'
  BY <1>0 DEF Agreed, OneInFlight, Open, CommandOf, OneWorker, AtWork, KilledJoined,
     WakesUp, Goes, control, shared
<1>7. OwnScript'
  BY <1>0 DEF Agreed, OwnScript, InScript, CommandOf, OneWorker, AtWork, WakesUp, Goes,
     shared
<1>8. CommandsDone'
  BY <1>0 DEF Agreed, CommandsDone, InScript, CommandOf, DoneBefore, AllDone, OneWorker,
     AtWork, OwnScript, WakesUp, Goes, control, shared
<1>9. AddressRead'
  BY <1>0 DEF Agreed, AddressRead, AtWork, OwnScript, InScript, WakesUp, Goes, shared
<1>10. Registered'
  BY <1>0 DEF Agreed, Registered, AtWork, WakesUp, control
<1>11. QED
  BY <1>10, <1>1, <1>2, <1>3, <1>4, <1>5, <1>6, <1>7, <1>8, <1>9 DEF IInv, TypeOK, Agreed

LEMMA DestroyMutexStep ==
  ASSUME IInv, ~hist.stray, NEW t \in Threads,
         DestroyMutex(t)
  PROVE  IInv'
<1>0. TypeOK /\ FieldsOK /\ Agreed
  BY DEF IInv, TypeOK
<1>1. FieldsOK'
  <2>1. thr' \in [Threads -> ThreadRecords]
    BY <1>0, GoesType, Zenon DEF FieldsOK, DestroyMutex, ExitOrder
  <2>2. mutex' \in BOOLEAN
    BY Zenon DEF DestroyMutex
  <2>3. UNCHANGED <<control, flight, btinit, cmd_status, wOpCode, fgGetEFUSE, nvram, hist>>
    BY Zenon DEF DestroyMutex
  <2>4. QED
    BY <1>0, <2>1, <2>2, <2>3 DEF FieldsOK, control
<1>2. \A u \in Threads : InScript(u)' => (thr[u].i \in DOMAIN btinit.script)'
  BY <1>0 DEF InScript, Agreed, OneWorker, AtWork, DestroyMutex, Goes, ExitOrder
<1>3. OneWorker'
  BY <1>0 DEF Agreed, OneWorker, AtWork, DestroyMutex, Goes, control
<1>4. KilledJoined'
  BY <1>0 DEF Agreed, KilledJoined, DestroyMutex, Goes, ExitOrder, control
<1>5. MutexOwned'
  BY <1>0 DEF Agreed, MutexOwned, InScript, AtWork, OneWorker, KilledJoined, DestroyMutex,
     Goes, ExitOrder
<1>6. OneInFlight'
  BY <1>0, Zenon DEF Agreed, OneInFlight, Open, CommandOf, OneWorker, AtWork, KilledJoined,
     DestroyMutex, control
<1>7. OwnScript'
  BY <1>0 DEF Agreed, OwnScript, InScript, CommandOf, OneWorker, AtWork, DestroyMutex, Goes,
     ExitOrder
<1>8. CommandsDone'
  BY <1>0 DEF Agreed, CommandsDone, InScript, CommandOf, DoneBefore, AllDone, OneWorker,
     AtWork, OwnScript, DestroyMutex, Goes, ExitOrder, control
<1>9. AddressRead'
  BY <1>0 DEF Agreed, AddressRead, AtWork, OwnScript, InScript, DestroyMutex, Goes,
     ExitOrder
<1>10. Registered'
  BY <1>0, Zenon DEF Agreed, Registered, AtWork, DestroyMutex, control
<1>11. QED
  BY <1>10, <1>1, <1>2, <1>3, <1>4, <1>5, <1>6, <1>7, <1>8, <1>9 DEF IInv, TypeOK, Agreed

LEMMA TellStackStep ==
  ASSUME IInv, ~hist.stray, NEW t \in Threads,
         TellStack(t)
  PROVE  IInv'
<1>0. TypeOK /\ FieldsOK /\ Agreed
  BY DEF IInv, TypeOK
<1>1. FieldsOK'
  <2>1. thr' \in [Threads -> ThreadRecords]
    BY <1>0, GoesType, Zenon DEF FieldsOK, TellStack, ExitOrder
  <2>2. QED
    BY <1>0, <2>1 DEF FieldsOK, History, TellStack, Goes, ExitOrder, shared
<1>2. \A u \in Threads : InScript(u)' => (thr[u].i \in DOMAIN btinit.script)'
  BY <1>0 DEF InScript, Agreed, OneWorker, AtWork, TellStack, Goes, ExitOrder
<1>3. OneWorker'
  BY <1>0 DEF Agreed, OneWorker, FieldsOK, AtWork, TellStack, Goes, ExitOrder
<1>4. KilledJoined'
  BY <1>0 DEF Agreed, KilledJoined, TellStack, Goes, ExitOrder
<1>5. MutexOwned'
  BY <1>0 DEF Agreed, MutexOwned, InScript, AtWork, OneWorker, KilledJoined, TellStack,
     Goes, ExitOrder
<1>6. OneInFlight'
  BY <1>0, Zenon DEF Agreed, OneInFlight, Open, CommandOf, OneWorker, AtWork, KilledJoined,
     TellStack
<1>7. OwnScript'
  BY <1>0 DEF Agreed, OwnScript, InScript, CommandOf, OneWorker, AtWork, TellStack, Goes,
     ExitOrder
<1>8. CommandsDone'
  BY <1>0 DEF Agreed, CommandsDone, FieldsOK, ThreadRecords, InScript, CommandOf,
     DoneBefore, AllDone, OneWorker, AtWork, OwnScript, TellStack, Goes, ExitOrder, shared
<1>9. AddressRead'
  BY <1>0 DEF Agreed, AddressRead, AtWork, OwnScript, InScript, TellStack, Goes, ExitOrder,
     shared
<1>10. Registered'
  BY <1>0, Zenon DEF Agreed, Registered, AtWork, TellStack
<1>11. QED
  BY <1>10, <1>1, <1>2, <1>3, <1>4, <1>5, <1>6, <1>7, <1>8, <1>9 DEF IInv, TypeOK, Agreed

LEMMA ThreadEndsStep ==
  ASSUME IInv, ~hist.stray, NEW t \in Threads,
         ThreadEnds(t)
  PROVE  IInv'
<1>0. TypeOK /\ FieldsOK /\ Agreed
  BY DEF IInv, TypeOK
<1>1. FieldsOK'
  <2>1. thr' \in [Threads -> ThreadRecords]
    BY <1>0, ThreadTypes DEF FieldsOK, ThreadEnds
  <2>2. worker_thread_running' \in BOOLEAN
    BY Zenon DEF ThreadEnds
  <2>3. UNCHANGED <<call, phase, bt_vnd_cbacks, worker_thread, flight, shared>>
    BY DEF ThreadEnds
  <2>4. hist' \in History
    BY <1>0, Zenon DEF ThreadEnds, FieldsOK, History
  <2>5. QED
    BY <1>0, <2>1, <2>2, <2>3, <2>4 DEF FieldsOK, shared
<1>2. \A u \in Threads : InScript(u)' => (thr[u].i \in DOMAIN btinit.script)'
  BY <1>0 DEF TypeOK, InScript, ThreadEnds, NoThread, shared
<1>3. ~hist.stray' => OneWorker'
  BY <1>0 DEF Agreed, OneWorker, FieldsOK, AtWork, ThreadEnds, NoThread
<1>4. ~hist.stray' => KilledJoined'
  BY <1>0 DEF Agreed, KilledJoined, FieldsOK, ThreadEnds, NoThread, shared
<1>5. ~hist.stray' => MutexOwned'
  BY <1>0 DEF Agreed, MutexOwned, InScript, KilledJoined, ThreadEnds, NoThread, shared
<1>6. ~hist.stray' => OneInFlight'
  BY <1>0 DEF Agreed, OneInFlight, Open, CommandOf, AtWork, KilledJoined, ThreadEnds,
     NoThread, shared
<1>7. ~hist.stray' => OwnScript'
  BY <1>0 DEF Agreed, OwnScript, InScript, CommandOf, AtWork, ThreadEnds, NoThread, shared
<1>8. ~hist.stray' => CommandsDone'
  BY <1>0 DEF Agreed, CommandsDone, InScript, CommandOf, DoneBefore, AllDone, OneWorker,
     AtWork, OwnScript, ThreadEnds, NoThread, shared
<1>9. ~hist.stray' => AddressRead'
  BY <1>0 DEF Agreed, AddressRead, InScript, ThreadEnds, NoThread, shared
<1>10. ~hist.stray' => Registered'
  BY <1>0 DEF Agreed, Registered, ThreadEnds, NoThread
<1>11. QED
  BY <1>10, <1>1, <1>2, <1>3, <1>4, <1>5, <1>6, <1>7, <1>8, <1>9, Zenon DEF IInv, TypeOK,
     Agreed

LEMMA thread_exitStep ==
  ASSUME IInv, ~hist.stray, NEW t \in Threads,
         thread_exit(t)
  PROVE  IInv'
<1>0. TypeOK /\ FieldsOK /\ Agreed
  BY DEF IInv, TypeOK
<1>1. FieldsOK'
  <2>1. thr' \in [Threads -> ThreadRecords]
    BY <1>0, ThreadTypes, Zenon DEF FieldsOK, thread_exit
  <2>2. mutex' \in BOOLEAN
    BY Zenon DEF thread_exit
  <2>3. UNCHANGED <<control, flight, btinit, cmd_status, wOpCode, fgGetEFUSE, nvram, hist>>
    BY DEF thread_exit
  <2>4. QED
    BY <1>0, <2>1, <2>2, <2>3 DEF FieldsOK, control
<1>2. \A u \in Threads : InScript(u)' => (thr[u].i \in DOMAIN btinit.script)'
  BY <1>0 DEF TypeOK, InScript, thread_exit, NoThread
<1>3. OneWorker'
  BY <1>0 DEF Agreed, OneWorker, AtWork, thread_exit, NoThread, control
<1>4. KilledJoined'
  BY <1>0 DEF Agreed, KilledJoined, thread_exit, NoThread, control
<1>5. MutexOwned'
  BY <1>0, Zenon DEF Agreed, MutexOwned, FieldsOK, InScript, AtWork, OneWorker,
     KilledJoined,
     thread_exit, NoThread
<1>6. OneInFlight'
  BY <1>0, Zenon DEF Agreed, OneInFlight, Open, AtWork, KilledJoined, thread_exit,
     NoThread,
     control
<1>a. /\ \A u \in Threads : thr'[u] = thr[u] \/ thr'[u].pc = "none"
      /\ UNCHANGED <<btinit, cmd_status, fgGetEFUSE, hist, phase>>
  BY <1>0 DEF FieldsOK, thread_exit, NoThread, control
<1>7. OwnScript'
  <2>1. OwnScript
    BY <1>0, Zenon DEF Agreed
  <2>2. QED
    BY <1>a, <2>1, ZenonT(30) DEF OwnScript, InScript, CommandOf
<1>8. CommandsDone'
  <2>1. CommandsDone
    BY <1>0, Zenon DEF Agreed
  <2>2. AllDone' = AllDone /\ \A n : DoneBefore(n)' = DoneBefore(n)
    BY <1>a, Zenon DEF AllDone, DoneBefore
  <2>3. QED
    BY <1>a, <2>1, <2>2, ZenonT(30) DEF CommandsDone, InScript, CommandOf, DoneBefore
<1>9. AddressRead'
  BY <1>0 DEF Agreed, AddressRead, InScript, thread_exit, NoThread
<1>10. Registered'
  BY <1>0, Zenon DEF Agreed, Registered, thread_exit, NoThread, control
<1>11. QED
  BY <1>10, <1>1, <1>2, <1>3, <1>4, <1>5, <1>6, <1>7, <1>8, <1>9 DEF IInv, TypeOK, Agreed

LEMMA CommandCompletesStep ==
  ASSUME IInv, ~hist.stray, NEW c \in Commands,
         NEW status \in BOOLEAN, NEW bytes \in Addresses, CommandCompletes(c, status, bytes)
  PROVE  IInv'
<1>0. TypeOK /\ FieldsOK /\ Agreed
  BY Zenon DEF IInv, TypeOK
<1>1. FieldsOK'
  <2>1. thr' \in [Threads -> ThreadRecords]
    BY <1>0, GoesType DEF FieldsOK, CommandCompletes, Signalled, Waiting
  <2>2. flight' \subseteq Commands /\ cmd_status' \in {"SUCCESS", "FAIL"}
    BY <1>0 DEF CommandCompletes, GORMevt_HCE_Get_Local_BD_Addr, FieldsOK
  <2>3. hist' \in History
    BY <1>0 DEF CommandCompletes, FieldsOK, History
  <2>4. btinit' \in [chip : Chips, addr : Addresses, script : Scripts \cup {Null}]
    BY <1>0, BtConstants DEF CommandCompletes, GORMevt_HCE_Get_Local_BD_Addr, FieldsOK
  <2>5. UNCHANGED <<control, mutex, wOpCode, fgGetEFUSE, nvram>>
    BY DEF CommandCompletes, GORMevt_HCE_Get_Local_BD_Addr
  <2>6. QED
    BY <1>0, <2>1, <2>2, <2>3, <2>4, <2>5 DEF FieldsOK, control
<1>a. \A u \in Threads :
        /\ thr'[u].pc = thr[u].pc \/ (thr[u].pc = "wait" /\ thr'[u].pc = "check")
        /\ thr'[u].kind = thr[u].kind /\ thr'[u].i = thr[u].i
        /\ thr'[u].ok = thr[u].ok /\ thr'[u].killed = thr[u].killed
  <2>1. CASE thr' = thr
    BY <2>1, Zenon
  <2>2. CASE \E w \in Waiting : thr' = Goes(w, "check")
    BY <1>0, <2>2 DEF Waiting, Goes, FieldsOK, ThreadRecords
  <2>3. QED
    BY <2>2 DEF CommandCompletes, Signalled
<1>b. /\ flight = {CommandOf(worker_thread)} /\ thr[worker_thread].pc \in {"check", "wait"}
      /\ c = CommandOf(worker_thread) /\ flight' = {}
  BY <1>0 DEF Agreed, OneInFlight, Open, CommandCompletes
<1>c. /\ btinit'.chip = btinit.chip /\ btinit'.script = btinit.script
      /\ c # "get" => btinit'.addr = btinit.addr
  BY <1>0 DEF CommandCompletes, GORMevt_HCE_Get_Local_BD_Addr, FieldsOK
<1>d. UNCHANGED <<control, mutex, wOpCode, fgGetEFUSE, nvram, hist.misread, hist.stray>>
  BY <1>0 DEF CommandCompletes
<1>e. /\ hist.acked \subseteq hist'.acked
      /\ cmd_status' = "SUCCESS" => c \in hist'.acked
  BY <1>0 DEF CommandCompletes
<1>f. \A u \in Threads : AtWork(u) => u = worker_thread
  BY <1>0, Zenon DEF Agreed, OneWorker
<1>2. \A u \in Threads : InScript(u)' => (thr[u].i \in DOMAIN btinit.script)'
  BY <1>0, <1>a, <1>c, Zenon DEF TypeOK, InScript
<1>3. OneWorker'
  BY <1>0, <1>a, <1>d, Zenon DEF Agreed, OneWorker, AtWork, control
<1>4. KilledJoined'
  BY <1>0, <1>a, <1>d, SMTT(30) DEF Agreed, KilledJoined, control
<1>5. MutexOwned'
  BY <1>0, <1>a, <1>d, Zenon DEF Agreed, MutexOwned, InScript
<1>6. OneInFlight'
  BY <1>b, Zenon DEF OneInFlight
<1>7. OwnScript'
  <2>1. OwnScript
    BY <1>0, Zenon DEF Agreed
  <2>2. QED
    BY <1>a, <1>c, <1>d, <2>1, ScriptKept, Zenon DEF InScript
<1>8. CommandsDone'
  <2>1. \A n : DoneBefore(n) => DoneBefore(n)'
    BY <1>c, <1>e, Zenon DEF DoneBefore
  <2>2. AllDone => AllDone'
    BY <1>c, <1>e, Zenon DEF AllDone, DoneBefore
  <2>3. (\A u \in Threads : thr[u].kind = "fw" => (InScript(u) => DoneBefore(thr[u].i)))'
    BY <1>0, <1>a, <1>c, <1>e, ZenonT(30) DEF Agreed, CommandsDone, InScript, DoneBefore
  <2>4. (\A u \in Threads : thr[u].kind = "fw" =>
          (thr[u].pc \in {"check", "wait"} /\ cmd_status = "SUCCESS" =>
             CommandOf(u) \in hist.acked))'
    BY <1>a, <1>b, <1>c, <1>e, <1>f, ZenonT(30) DEF CommandOf, AtWork
  <2>5. (\A u \in Threads : thr[u].kind = "fw" =>
          (thr[u].pc \in {"destroy", "tell"} /\ thr[u].ok => AllDone))'
    BY <1>0, <1>a, <2>2, ZenonT(30) DEF Agreed, CommandsDone
  <2>6. (phase \in {"fw_ok", "sco", "done"} => AllDone)'
    BY <1>0, <1>d, <2>2, Zenon DEF Agreed, CommandsDone, control
  <2>7. QED
    BY <2>3, <2>4, <2>5, <2>6, Zenon DEF CommandsDone
<1>9. AddressRead'
  <2>1. \A u \in Threads : thr'[u].pc \notin {"start", "next"}
    BY <1>a, <1>b, <1>f, Zenon DEF AtWork
  <2>2. QED
    BY <1>0, <1>d, <2>1, Zenon DEF Agreed, AddressRead
<1>10. Registered'
  BY <1>0, <1>d, Zenon DEF Agreed, Registered, control
<1>11. QED
  BY <1>10, <1>1, <1>2, <1>3, <1>4, <1>5, <1>6, <1>7, <1>8, <1>9, Zenon DEF IInv, TypeOK,
     Agreed

LEMMA ProcessDiesStep ==
  ASSUME FieldsOK, ProcessDies
  PROVE  IInv'
<1>1. \A u \in Threads : thr'[u] = NoThread
  BY DEF ProcessDies
<1>2. \A u \in Threads : ~AtWork(u)' /\ ~InScript(u)' /\ ~thr'[u].killed
  <2>1. NoThread.pc = "none" /\ ~NoThread.killed
    BY DEF NoThread
  <2> QED
    BY <1>1, <2>1, Zenon DEF AtWork, InScript
<1>3. FieldsOK'
  <2>1. thr' \in [Threads -> ThreadRecords]
    BY ThreadTypes DEF ProcessDies
  <2>2. btinit' \in [chip : Chips, addr : Addresses, script : Scripts \cup {Null}]
    BY Zenon DEF ProcessDies, FieldsOK, Addresses
  <2>3. hist' \in History
    BY DEF ProcessDies, NoHistory, History
  <2>4. QED
    BY <2>1, <2>2, <2>3, Zenon DEF FieldsOK, ProcessDies
<1>4. TypeOK'
  BY <1>2, <1>3, Zenon DEF TypeOK, AtWork, InScript
<1>5. phase' = "none" /\ flight' = {} /\ ~fgGetEFUSE' /\ call' = "off"
  BY DEF ProcessDies
<1>6. OneWorker' /\ KilledJoined' /\ MutexOwned' /\ OneInFlight' /\ Registered'
  BY <1>2, <1>5, Zenon DEF OneWorker, KilledJoined, MutexOwned, OneInFlight, Registered,
     AtWork,
     InScript
<1>7. OwnScript' /\ CommandsDone' /\ AddressRead'
  BY <1>2, <1>5, Zenon DEF OwnScript, CommandsDone, AddressRead, AtWork, InScript
<1>8. QED
  BY <1>4, <1>6, <1>7, Zenon DEF IInv, Agreed

LEMMA InitHolds == Init => IInv
<1>1. SUFFICES ASSUME Init PROVE IInv
  OBVIOUS
<1>2. \A u \in Threads : thr[u] = NoThread
  BY <1>1 DEF Init
<1>3. \A u \in Threads : ~AtWork(u) /\ ~InScript(u) /\ ~thr[u].killed
  BY <1>1, <1>2, Zenon DEF Init, AtWork, InScript, NoThread
<1>4. FieldsOK
  <2>1. thr \in [Threads -> ThreadRecords]
    BY <1>1, ThreadTypes, Zenon DEF Init
  <2>2. btinit \in [chip : Chips, addr : Addresses, script : Scripts \cup {Null}]
    BY <1>1 DEF Init, Addresses
  <2>3. hist \in History
    BY <1>1, Zenon DEF Init, NoHistory, History
  <2>4. NewThread \in Threads
    <3>1. PICK t \in Threads : TRUE
      BY BtConstants, Zenon
    <3>2. NoThread.pc = "none"
      BY DEF NoThread
    <3>3. t \in Free
      BY <1>2, <3>2, Zenon DEF Free
    <3>4. QED
      BY <3>3, NewThreadFree, Zenon
  <2>5. QED
    BY <1>1, <2>1, <2>2, <2>3, <2>4, Zenon DEF FieldsOK, Init, Addresses
<1>5. TypeOK
  BY <1>3, <1>4, Zenon DEF TypeOK, AtWork, InScript
<1>6. phase = "none" /\ flight = {} /\ ~fgGetEFUSE /\ call = "off"
  BY <1>1 DEF Init
<1>7. OneWorker /\ KilledJoined /\ MutexOwned /\ OneInFlight /\ Registered
  BY <1>3, <1>6, Zenon DEF OneWorker, KilledJoined, MutexOwned, OneInFlight, Registered,
     AtWork,
     InScript
<1>8. OwnScript /\ CommandsDone /\ AddressRead
  BY <1>3, <1>6, Zenon DEF OwnScript, CommandsDone, AddressRead, AtWork, InScript
<1>9. QED
  BY <1>5, <1>7, <1>8 DEF IInv, Agreed

-----------------------------------------------------------------------------
(* The theorems. *)

LEMMA NextHolds == IInv /\ [Next]_vars => IInv'
<1>1. SUFFICES ASSUME IInv, [Next]_vars PROVE IInv'
  OBVIOUS
<1>2. FieldsOK
  BY <1>1, Zenon DEF IInv, TypeOK
<1>3. CASE UNCHANGED vars
  <2>1. TypeOK'
    <3>1. FieldsOK'
      BY <1>2, <1>3 DEF vars, control, shared, FieldsOK
    <3>2. UNCHANGED <<thr, btinit>>
      BY <1>3, Zenon DEF vars, shared
    <3> QED
      BY <1>1, <3>1, <3>2, Zenon DEF IInv, TypeOK, InScript
  <2>2. ASSUME OneWorker, KilledJoined, MutexOwned, OneInFlight, Registered
        PROVE  OneWorker' /\ KilledJoined' /\ MutexOwned' /\ OneInFlight' /\ Registered'
    BY <1>3, <2>2, Zenon DEF vars, control, shared, OneWorker, KilledJoined, MutexOwned,
       OneInFlight,
       Registered, AtWork, InScript, Open, CommandOf
  <2>3. ASSUME OwnScript, CommandsDone, AddressRead
        PROVE  OwnScript' /\ CommandsDone' /\ AddressRead'
    BY <1>3, <2>3, Zenon DEF vars, control, shared, OwnScript, CommandsDone, AddressRead,
       InScript,
       CommandOf, DoneBefore, AllDone
  <2>4. hist' = hist
    BY <1>3 DEF vars
  <2> QED
    BY <1>1, <2>1, <2>2, <2>3, <2>4, Zenon DEF IInv, Agreed
<1>4. CASE ProcessDies
  BY <1>2, <1>4, ProcessDiesStep
<1>5. CASE ~hist.stray /\ Asks
  <2>1. CASE mtk_bt_init
    BY <1>1, <1>5, <2>1, mtk_bt_initStep
  <2>2. CASE FwCfgFails
    BY <1>1, <1>5, <2>2, FwCfgFailsStep
  <2>3. CASE StackShutsDown
    BY <1>1, <1>5, <2>3, StackShutsDownStep
  <2>4. ASSUME NEW made \in BOOLEAN, BT_InitSCO(made) PROVE IInv'
    BY <1>1, <1>5, <2>4, BT_InitSCOStep
  <2>5. ASSUME NEW made \in BOOLEAN, NEW read \in BOOLEAN, mtk_fw_cfg(read, made) PROVE IInv'
    BY <1>1, <1>5, <2>5, mtk_fw_cfgStep
  <2>6. QED
    BY <1>5, <2>1, <2>2, <2>3, <2>4, <2>5 DEF Asks
<1>6. CASE ~hist.stray /\ Proceeds
  BY <1>1, <1>6, InitReturnsStep, BT_CleanupStep, CleanupJoinsStep, clean_callbacksStep
     DEF Proceeds
<1>7. CASE ~hist.stray /\ Completions
  <2>1. PICK c \in Commands, status \in BOOLEAN, bytes \in Addresses :
          CommandCompletes(c, status, bytes)
    BY <1>7 DEF Completions
  <2>2. QED
    BY <1>1, <1>7, <2>1, CommandCompletesStep, Zenon
<1>8. ASSUME ~hist.stray, NEW t \in Threads, ThreadSteps(t) \/ WakesUp(t)
      PROVE  IInv'
  <2>1. CASE FwThreadStarts(t) \/ ScoThreadStarts(t)
    BY <1>1, <1>8, <2>1, FwThreadStartsStep, ScoThreadStartsStep, Zenon
  <2>2. CASE ScriptEnds(t) \/ NoBuffer(t)
    BY <1>1, <1>8, <2>2, ScriptEndsStep, NoBufferStep
  <2>3. ASSUME NEW sent \in BOOLEAN, NEW written \in BOOLEAN, SendCommand(t, sent, written)
        PROVE  IInv'
    BY <1>1, <1>8, <2>3, SendCommandStep
  <2>4. CASE CheckStatus(t) \/ WakesUp(t)
    BY <1>1, <1>8, <2>4, CheckStatusStep, WakesUpStep, Zenon
  <2>5. CASE DestroyMutex(t) \/ TellStack(t)
    BY <1>1, <1>8, <2>5, DestroyMutexStep, TellStackStep, Zenon
  <2>6. CASE ThreadEnds(t) \/ thread_exit(t)
    BY <1>1, <1>8, <2>6, ThreadEndsStep, thread_exitStep
  <2>7. QED
    BY <1>8, <2>1, <2>2, <2>3, <2>4, <2>5, <2>6, Zenon DEF ThreadSteps
<1>9. QED
  BY <1>1, <1>3, <1>4, <1>5, <1>6, <1>7, <1>8, Zenon DEF Next

\* The inductive invariant holds in every reachable state: while no thread has been
\* left behind, at most one thread is at work, the one BT_Cleanup() would cancel.
THEOREM Invariance == Spec => []IInv
BY InitHolds, NextHolds, PTL DEF Spec

\* Every variable keeps its type, and a thread never reads behind the end of its
\* script (radiomod.c, cur_script[index]).
THEOREM TypeCorrect == Spec => []TypeOK
<1>1. IInv => TypeOK
  BY DEF IInv
<1>2. QED
  BY <1>1, Invariance, PTL

\* No thread of the library and no completion uses a destroyed mutex.
THEOREM MutexAliveHolds == Spec => []MutexAlive
<1>1. IInv => MutexAlive
  BY Zenon DEF IInv, TypeOK, FieldsOK, Agreed, MutexOwned, OneInFlight, Open, MutexAlive,
     InScript
<1>2. QED
  BY <1>1, Invariance, PTL

\* The stack is told that the firmware is configured only when the chip has
\* completed the whole preload script with success.
THEOREM FwOkMeansConfiguredHolds == Spec => []FwOkMeansConfigured
<1>1. IInv => FwOkMeansConfigured
  BY Zenon DEF IInv, Agreed, CommandsDone, AllDone, DoneBefore, FwOkMeansConfigured
<1>2. QED
  BY <1>1, Invariance, PTL

\* The library never replaces an address of NVRAM that it has read correctly, over
\* any number of sessions.
THEOREM AddressKeptHolds == Spec => AddressKept
<1>1. ASSUME IInv, [Next]_vars, nvram # "default", ~hist.misread, ~hist.stray
      PROVE  nvram' = nvram
  <2>1. FieldsOK /\ Agreed /\ TypeOK
    BY <1>1, Zenon DEF IInv, TypeOK
  <2>2. ~fgGetEFUSE
    BY <1>1, <2>1, Zenon DEF Agreed, AddressRead
  <2>3. ASSUME NEW t \in Threads, NEW sent \in BOOLEAN, NEW written \in BOOLEAN,
               SendCommand(t, sent, written)
        PROVE  nvram' = nvram
    <3>1. CASE CommandOf(t) # "set"
      BY <2>3, <3>1, Zenon DEF SendCommand, GORMcmd_HCC
    <3>2. CASE CommandOf(t) = "set"
      <4>1. thr[t].pc = "next" /\ thr[t].i = 2 /\ thr[t].kind = "fw"
        BY <2>1, <2>3, <3>2, AtCommand, Zenon DEF SendCommand, GORMcmd_HCC, InScript
      <4>2. btinit.addr # "default"
        BY <1>1, <2>1, <2>2, <4>1, Zenon DEF Agreed, AddressRead
      <4>3. QED
        BY <2>2, <2>3, <3>2, <4>2, SMTT(30) DEF SendCommand, GORMcmd_HCC, SetAddress,
           WriteBDAddrToNvram, SavesAddress
    <3>3. QED
      BY <3>1, <3>2
  <2>4. CASE Asks \/ Proceeds \/ ProcessDies \/ UNCHANGED vars
    BY <2>4, Zenon DEF Asks, Proceeds, ProcessDies, vars, shared, mtk_bt_init, FwCfgFails,
       StackShutsDown, BT_InitSCO, mtk_fw_cfg, InitReturns, BT_Cleanup, CleanupJoins,
       clean_callbacks
  <2>5. CASE Completions
    BY <2>5 DEF Completions, CommandCompletes, GORMevt_HCE_Get_Local_BD_Addr
  <2>6. ASSUME NEW t \in Threads, ThreadSteps(t) \/ WakesUp(t)
        PROVE  nvram' = nvram
    BY <2>3, <2>6, Zenon DEF ThreadSteps, FwThreadStarts, ScoThreadStarts, ScriptEnds,
       NoBuffer,
       CheckStatus, DestroyMutex, TellStack, ThreadEnds, thread_exit, WakesUp, shared
  <2>7. QED
    BY <1>1, <2>4, <2>5, <2>6, Zenon DEF Next
<1>2. IInv /\ [Next]_vars =>
        [nvram # "default" /\ ~hist.misread /\ ~hist.stray => nvram' = nvram]_vars
  BY <1>1, Zenon
<1>3. QED
  BY <1>2, Invariance, PTL DEF Spec, AddressKept
-----------------------------------------------------------------------------
(* Why every request of the stack and every cleanup can end. *)

\* A request that the stack waits for has a thread that will answer it, and has not
\* told the stack yet.
RequestServed ==
  phase \in {"fw", "sco"} /\ call \in {"idle", "created", "cleanup"} =>
    AtWork(worker_thread) /\ thr[worker_thread].kind = phase

\* A thread that waits for a completion, or is about to, has its command with the HCI
\* thread: no completion came before the wait and was missed.
NoLostSignal ==
  Open => \A t \in Threads :
    /\ thr[t].pc = "wait" => cmd_status = "PENDING"
    /\ thr[t].pc \in {"check", "wait"} /\ cmd_status = "PENDING" => flight # {}

\* The thread that cleanup joins has ended or has the signal pending.
JoinEnds == call = "join" => thr[worker_thread].pc = "none" \/ thr[worker_thread].killed

Carried == ~hist.stray => RequestServed /\ NoLostSignal /\ JoinEnds

\* A step of a thread within its work.
Moves(t) ==
  /\ \A u \in Threads \ {t} : thr'[u] = thr[u]
  /\ thr'[t].kind = thr[t].kind /\ thr'[t].killed = thr[t].killed
  /\ AtWork(t) /\ AtWork(t)' /\ UNCHANGED control

LEMMA MovesKeeps ==
  ASSUME FieldsOK, NEW t \in Threads, Moves(t), RequestServed, JoinEnds
  PROVE  RequestServed' /\ JoinEnds'
<1>1. UNCHANGED <<call, phase, worker_thread>> /\ worker_thread \in Threads
  BY DEF Moves, control, FieldsOK
<1>2. /\ thr'[worker_thread].kind = thr[worker_thread].kind
      /\ thr'[worker_thread].killed = thr[worker_thread].killed
      /\ AtWork(worker_thread) => AtWork(worker_thread)'
      /\ thr[worker_thread].pc = "none" => thr'[worker_thread].pc = "none"
  BY <1>1, ZenonT(30) DEF Moves, AtWork
<1> QED
  BY <1>1, <1>2, ZenonT(30) DEF RequestServed, JoinEnds, AtWork

\* What the steps of a thread do to its record.
LEMMA GoesMoves ==
  ASSUME FieldsOK, NEW t \in Threads, AtWork(t), UNCHANGED control,
         NEW p \in {"check", "wait", "next", "tell"}, thr' = Goes(t, p)
  PROVE  Moves(t) /\ thr'[t].pc = p
<1>1. thr \in [Threads -> ThreadRecords]
  BY DEF FieldsOK
<1>2. /\ thr'[t].pc = p /\ thr'[t].kind = thr[t].kind /\ thr'[t].killed = thr[t].killed
      /\ \A u \in Threads \ {t} : thr'[u] = thr[u]
  BY <1>1 DEF Goes, ThreadRecords
<1>3. p \notin {"none", "end"}
  OBVIOUS
<1> QED
  BY <1>2, <1>3, Zenon DEF Moves, AtWork

LEMMA NextMoves ==
  ASSUME FieldsOK, NEW t \in Threads, AtWork(t), UNCHANGED control, NEW i,
         thr' = [thr EXCEPT ![t].pc = "next", ![t].i = i]
  PROVE  Moves(t) /\ thr'[t].pc = "next"
<1>1. thr \in [Threads -> ThreadRecords]
  BY DEF FieldsOK
<1>2. /\ thr'[t].pc = "next" /\ thr'[t].kind = thr[t].kind /\ thr'[t].killed = thr[t].killed
      /\ \A u \in Threads \ {t} : thr'[u] = thr[u]
  BY <1>1 DEF ThreadRecords
<1>3. "next" \notin {"none", "end"}
  OBVIOUS
<1> QED
  BY <1>2, <1>3, Zenon DEF Moves, AtWork

LEMMA LeavesMoves ==
  ASSUME FieldsOK, NEW t \in Threads, AtWork(t), UNCHANGED control, NEW ok \in BOOLEAN,
         thr' = Leaves(t, ok)
  PROVE  Moves(t) /\ thr'[t].pc = "destroy"
<1>1. thr \in [Threads -> ThreadRecords]
  BY DEF FieldsOK
<1>2. thr' = [thr EXCEPT ![t].pc = "destroy", ![t].ok = ok]
  BY Zenon DEF Leaves, ExitOrder
<1>3. /\ thr'[t].pc = "destroy" /\ thr'[t].kind = thr[t].kind /\ thr'[t].killed = thr[t].killed
      /\ \A u \in Threads \ {t} : thr'[u] = thr[u]
  BY <1>1, <1>2 DEF ThreadRecords
<1> QED
  BY <1>3 DEF Moves, AtWork

-----------------------------------------------------------------------------
(* Steps of the threads. *)

LEMMA OnlyWorker ==
  ASSUME FieldsOK, Agreed, NEW t \in Threads, AtWork(t)
  PROVE  t = worker_thread /\ \A u \in Threads : AtWork(u) => u = t
BY Zenon DEF Agreed, OneWorker

\* A step that takes its thread out of the wait for the status.
LEMMA SignalFree ==
  ASSUME FieldsOK, Agreed, NEW t \in Threads, Moves(t), thr'[t].pc \notin {"check", "wait"}
  PROVE  NoLostSignal'
<1>1. \A u \in Threads \ {t} : thr'[u].pc = thr[u].pc /\ ~AtWork(u)
  BY OnlyWorker DEF Moves
<1>2. \A u \in Threads : thr'[u].pc \notin {"check", "wait"}
  BY <1>1, Zenon DEF AtWork
<1> QED
  BY <1>2, Zenon DEF NoLostSignal

LEMMA ThreadStepsCarry ==
  ASSUME IInv, ~hist.stray, Carried, NEW t \in Threads, ThreadSteps(t) \/ WakesUp(t)
  PROVE  Carried'
<1>1. FieldsOK /\ Agreed /\ RequestServed /\ NoLostSignal /\ JoinEnds
  BY Zenon DEF IInv, TypeOK, Carried
<1>2. thr \in [Threads -> ThreadRecords] /\ worker_thread \in Threads
  BY <1>1, Zenon DEF FieldsOK
<1>3. ASSUME Moves(t), NoLostSignal' PROVE Carried'
  BY <1>1, <1>3, MovesKeeps, Zenon DEF Carried
<1>4. ASSUME Moves(t), thr'[t].pc \notin {"check", "wait"} PROVE Carried'
  BY <1>1, <1>3, <1>4, SignalFree
<1>5. ASSUME NEW ok \in BOOLEAN, thr' = Leaves(t, ok), AtWork(t), UNCHANGED control
      PROVE  Carried'
  <2>1. Moves(t) /\ thr'[t].pc = "destroy"
    BY <1>1, <1>5, LeavesMoves
  <2> QED
    BY <1>4, <2>1
<1>6. CASE FwThreadStarts(t)
  <2>1. AtWork(t) /\ UNCHANGED control
    BY <1>6 DEF FwThreadStarts, AtWork
  <2>2. \/ thr' = Leaves(t, FALSE)
        \/ \E i : thr' = [thr EXCEPT ![t].pc = "next", ![t].i = i]
    BY <1>6, Zenon DEF FwThreadStarts
  <2>3. CASE \E i : thr' = [thr EXCEPT ![t].pc = "next", ![t].i = i]
    <3>1. Moves(t) /\ thr'[t].pc = "next"
      BY <1>1, <2>1, <2>3, NextMoves, Zenon
    <3> QED
      BY <1>4, <3>1
  <2> QED
    BY <1>5, <2>1, <2>2, <2>3, Zenon
<1>7. CASE ScoThreadStarts(t)
  <2>1. /\ AtWork(t) /\ UNCHANGED control
        /\ thr' = Leaves(t, FALSE) \/ thr' = Goes(t, "next")
    <3>1. AtWork(t) /\ UNCHANGED control
      BY <1>7 DEF ScoThreadStarts, AtWork
    <3>2. thr' = Leaves(t, FALSE) \/ thr' = Goes(t, "next")
      BY <1>7, Zenon DEF ScoThreadStarts
    <3> QED
      BY <3>1, <3>2, Zenon
  <2>2. CASE thr' = Goes(t, "next")
    <3>1. Moves(t) /\ thr'[t].pc = "next"
      BY <1>1, <2>1, <2>2, GoesMoves
    <3> QED
      BY <1>4, <3>1
  <2> QED
    BY <1>5, <2>1, <2>2, Zenon
<1>8. CASE ScriptEnds(t) \/ NoBuffer(t)
  <2>1. AtWork(t) /\ UNCHANGED control /\ \E ok \in BOOLEAN : thr' = Leaves(t, ok)
    <3>1. AtWork(t) /\ UNCHANGED control
      <4>1. thr[t].pc = "next" /\ UNCHANGED control
        BY <1>8, Zenon DEF ScriptEnds, NoBuffer
      <4> QED
        BY <4>1 DEF AtWork
    <3>2. thr' = Leaves(t, TRUE) \/ thr' = Leaves(t, FALSE)
      BY <1>8, Zenon DEF ScriptEnds, NoBuffer
    <3> QED
      BY <3>1, <3>2, Zenon
  <2> QED
    BY <1>5, <2>1
<1>9. ASSUME NEW sent \in BOOLEAN, NEW written \in BOOLEAN, SendCommand(t, sent, written)
      PROVE  Carried'
  <2>1. /\ AtWork(t) /\ UNCHANGED control /\ cmd_status' = "PENDING"
        /\ IF sent THEN thr' = Goes(t, "check") /\ flight' = flight \cup {CommandOf(t)}
                   ELSE thr' = Leaves(t, FALSE)
    BY <1>9, ZenonT(30) DEF SendCommand, GORMcmd_HCC, AtWork
  <2>2. CASE sent
    <3>1. flight' # {}
      BY <2>1, <2>2
    <3>2. Moves(t)
      BY <1>1, <2>1, <2>2, GoesMoves
    <3>3. NoLostSignal'
      BY <2>1, <3>1, Zenon DEF NoLostSignal
    <3> QED
      BY <1>3, <3>2, <3>3
  <2> QED
    BY <1>5, <2>1, <2>2, Zenon
<1>10. CASE CheckStatus(t)
  <2>1. AtWork(t) /\ UNCHANGED control /\ UNCHANGED <<cmd_status, flight>>
    BY <1>10 DEF CheckStatus, AtWork, shared
  <2>2. CASE cmd_status = "PENDING"
    <3>1. thr[t].pc = "check" /\ thr' = Goes(t, "wait")
      BY <1>10, <2>2, Zenon DEF CheckStatus
    <3>2. Moves(t)
      BY <1>1, <2>1, <3>1, GoesMoves
    <3>3. Open' = Open
      BY <2>1 DEF Open, control
    <3>4. Open => flight # {}
      BY <1>1, <2>2, <3>1, Zenon DEF NoLostSignal
    <3>5. NoLostSignal'
      BY <2>1, <2>2, <3>3, <3>4 DEF NoLostSignal
    <3> QED
      BY <1>3, <3>2, <3>5
  <2>3. CASE cmd_status # "PENDING"
    <3>1. \/ thr' = Leaves(t, FALSE)
          \/ thr' = [thr EXCEPT ![t].pc = "next", ![t].i = thr[t].i + 1]
      BY <1>10, <2>3, Zenon DEF CheckStatus, Advanced
    <3>3. CASE thr' = [thr EXCEPT ![t].pc = "next", ![t].i = thr[t].i + 1]
      <4>1. Moves(t) /\ thr'[t].pc = "next"
        BY <1>1, <2>1, <3>3, NextMoves, Zenon
      <4> QED
        BY <1>4, <4>1
    <3> QED
      BY <1>5, <2>1, <3>1, <3>3, Zenon
  <2> QED
    BY <2>2, <2>3
<1>11. CASE WakesUp(t)
  <2>1. /\ AtWork(t) /\ thr' = Goes(t, "check")
        /\ UNCHANGED control /\ UNCHANGED <<cmd_status, flight>>
    BY <1>11, ZenonT(30) DEF WakesUp, AtWork, shared
  <2>2. Moves(t) /\ thr'[t].pc = "check" /\ thr[t].pc = "wait"
    BY <1>1, <1>11, <2>1, GoesMoves, ZenonT(30) DEF WakesUp
  <2>3. Open' = Open
    BY <2>1 DEF Open, control
  <2>4. NoLostSignal'
    BY <1>1, <2>1, <2>2, <2>3, ZenonT(30) DEF NoLostSignal, Moves
  <2> QED
    BY <1>3, <2>2, <2>4, ZenonT(30)
<1>12. CASE DestroyMutex(t)
  <2>1. AtWork(t) /\ UNCHANGED control /\ thr' = Goes(t, "tell")
    BY <1>12 DEF DestroyMutex, AtWork, ExitOrder
  <2>2. Moves(t) /\ thr'[t].pc = "tell"
    BY <1>1, <2>1, GoesMoves
  <2> QED
    BY <1>4, <2>2
<1>13. CASE TellStack(t)
  <2>1. AtWork(t) /\ t = worker_thread /\ phase = thr[t].kind /\ bt_vnd_cbacks
    BY <1>1, <1>13, ZenonT(30) DEF TellStack, AtWork, Agreed, OneWorker
  <2>2. phase' \notin {"fw", "sco"} /\ call' = call /\ worker_thread' = worker_thread
    BY <1>13, <2>1, ZenonT(30) DEF TellStack
  <2>3. thr' = [thr EXCEPT ![t].pc = "end"]
    BY <1>13 DEF TellStack, Goes, ExitOrder
  <2>4. /\ thr'[t].pc = "end" /\ thr'[t].killed = thr[t].killed /\ thr[t].pc = "tell"
        /\ \A u \in Threads \ {t} : thr'[u] = thr[u]
    BY <1>2, <1>13, <2>3 DEF TellStack, ThreadRecords
  <2>5. JoinEnds'
    BY <1>1, <2>1, <2>2, <2>4 DEF JoinEnds
  <2>6. \A u \in Threads : thr'[u].pc \notin {"check", "wait"}
    BY <1>1, <2>1, <2>4, OnlyWorker, Zenon DEF AtWork
  <2> QED
    BY <2>2, <2>5, <2>6, Zenon DEF Carried, RequestServed, NoLostSignal
<1>14. CASE ThreadEnds(t)
  <2>1. /\ thr[t].pc = "end" /\ UNCHANGED <<call, phase, worker_thread, flight, cmd_status>>
        /\ thr' = [thr EXCEPT ![t] = NoThread]
    BY <1>14 DEF ThreadEnds, shared
  <2>2. thr'[t].pc = "none" /\ \A u \in Threads \ {t} : thr'[u] = thr[u]
    BY <1>2, <2>1 DEF NoThread
  <2>3. RequestServed'
    BY <1>1, <1>2, <2>1, <2>2 DEF RequestServed, AtWork
  <2>4. NoLostSignal'
    BY <1>1, <2>1, <2>2 DEF NoLostSignal, Open
  <2>5. JoinEnds'
    BY <1>1, <1>2, <2>1, <2>2 DEF JoinEnds
  <2> QED
    BY <2>3, <2>4, <2>5, Zenon DEF Carried
<1>15. CASE thread_exit(t)
  <2>1. t = worker_thread /\ call = "join"
    BY <1>1, <1>15 DEF thread_exit, Agreed, KilledJoined
  <2>2. UNCHANGED <<call, worker_thread>> /\ thr' = [thr EXCEPT ![t] = NoThread]
    BY <1>15 DEF thread_exit, control
  <2>3. thr'[t].pc = "none"
    BY <1>2, <2>2 DEF NoThread
  <2> QED
    BY <2>1, <2>2, <2>3 DEF Carried, RequestServed, NoLostSignal, JoinEnds, Open
<1> QED
  BY <1>6, <1>7, <1>8, <1>9, <1>10, <1>11, <1>12, <1>13, <1>14, <1>15, Zenon DEF ThreadSteps
-----------------------------------------------------------------------------
(* Calls of the stack, and completions. *)

\* No thread is at work before a request is made, or after cleanup.
LEMMA NobodyAtWork ==
  ASSUME Agreed, phase \notin {"fw", "sco"} \/ call \in {"off", "callbacks"}, FieldsOK
  PROVE  \A t \in Threads : thr[t].pc \in {"none", "end"}
<1>1. \A t \in Threads : thr[t].kind \in {"fw", "sco"}
  BY DEF FieldsOK, ThreadRecords
<1>2. \A t \in Threads : AtWork(t) =>
        phase = thr[t].kind /\ call \in {"idle", "created", "cleanup", "join"}
  BY Zenon DEF Agreed, OneWorker
<1>3. \A t \in Threads : ~AtWork(t)
  <2>1. SUFFICES ASSUME NEW t \in Threads, AtWork(t) PROVE FALSE
    BY Zenon
  <2>2. phase \in {"fw", "sco"} /\ call \in {"idle", "created", "cleanup", "join"}
    BY <1>1, <1>2, <2>1, Zenon
  <2>3. call \notin {"off", "callbacks"}
    BY <2>2
  <2> QED
    BY <2>2, <2>3, Zenon
<1> QED
  BY <1>3, Zenon DEF AtWork

LEMMA CreateCarries ==
  ASSUME FieldsOK, Agreed, phase \notin {"fw", "sco"}, Free # {}, call = "idle",
         NEW kind \in {"fw", "sco"}, NEW made \in BOOLEAN, CreateThread(kind, made)
  PROVE  RequestServed' /\ NoLostSignal' /\ JoinEnds'
<1>1. \A t \in Threads : thr[t].pc \in {"none", "end"}
  BY NobodyAtWork, Zenon
<1>2. CASE made
  <2>1. /\ thr' = [thr EXCEPT ![NewThread] = Started(kind)]
        /\ worker_thread' = NewThread /\ call' = "created" /\ phase' = kind
    BY <1>2, Zenon DEF CreateThread
  <2>2. NewThread \in Threads /\ thr \in [Threads -> ThreadRecords]
    BY NewThreadFree DEF FieldsOK
  <2>3. /\ thr'[NewThread].pc = "start" /\ thr'[NewThread].kind = kind
        /\ \A u \in Threads \ {NewThread} : thr'[u] = thr[u]
    BY <2>1, <2>2 DEF Started
  <2>4. RequestServed'
    BY <2>1, <2>3 DEF RequestServed, AtWork
  <2>5. NoLostSignal'
    BY <1>1, <2>3 DEF NoLostSignal
  <2> QED
    BY <2>1, <2>4, <2>5 DEF JoinEnds
<1>3. CASE ~made
  <2>1. phase' = "failed" /\ thr' = thr /\ call' = call
    BY <1>3, Zenon DEF CreateThread
  <2> QED
    BY <1>1, <2>1 DEF RequestServed, NoLostSignal, JoinEnds
<1> QED
  BY <1>2, <1>3

LEMMA AsksCarry ==
  ASSUME IInv, ~hist.stray, Carried, Asks
  PROVE  Carried'
<1>1. FieldsOK /\ Agreed /\ RequestServed /\ NoLostSignal /\ JoinEnds
  BY Zenon DEF IInv, TypeOK, Carried
<1>2. CASE mtk_bt_init
  <2>1. \A t \in Threads : thr[t].pc \in {"none", "end"}
    BY <1>1, <1>2, NobodyAtWork DEF mtk_bt_init
  <2>2. call' = "idle" /\ phase' = "none" /\ thr' = thr
    BY <1>2 DEF mtk_bt_init
  <2> QED
    BY <2>1, <2>2 DEF Carried, RequestServed, NoLostSignal, JoinEnds
<1>3. CASE FwCfgFails
  <2>1. \A t \in Threads : thr[t].pc \in {"none", "end"}
    BY <1>1, <1>3, NobodyAtWork DEF FwCfgFails
  <2>2. call' = "idle" /\ phase' = "failed" /\ thr' = thr
    BY <1>3 DEF FwCfgFails
  <2> QED
    BY <2>1, <2>2 DEF Carried, RequestServed, NoLostSignal, JoinEnds
<1>4. CASE StackShutsDown
  <2>1. call = "idle" /\ call' = "cleanup" /\ UNCHANGED <<phase, worker_thread, thr>>
    BY <1>4 DEF StackShutsDown
  <2> QED
    BY <1>1, <2>1 DEF Carried, RequestServed, NoLostSignal, JoinEnds, Open, AtWork
<1>5. ASSUME NEW made \in BOOLEAN, BT_InitSCO(made) PROVE Carried'
  <2>1. /\ call = "idle" /\ phase = "fw_ok" /\ Free # {} /\ CreateThread("sco", made)
    BY <1>5, Zenon DEF BT_InitSCO
  <2>2. phase \notin {"fw", "sco"}
    BY <2>1
  <2> QED
    BY <1>1, <2>1, <2>2, CreateCarries DEF Carried
<1>6. ASSUME NEW made \in BOOLEAN, NEW read \in BOOLEAN, mtk_fw_cfg(read, made)
      PROVE  Carried'
  <2>1. /\ call = "idle" /\ phase = "none" /\ Free # {} /\ CreateThread("fw", made)
    BY <1>6, Zenon DEF mtk_fw_cfg
  <2>2. phase \notin {"fw", "sco"}
    BY <2>1
  <2> QED
    BY <1>1, <2>1, <2>2, CreateCarries DEF Carried
<1> QED
  BY <1>2, <1>3, <1>4, <1>5, <1>6, Zenon DEF Asks

LEMMA ProceedsCarry ==
  ASSUME IInv, ~hist.stray, Carried, Proceeds
  PROVE  Carried'
<1>1. FieldsOK /\ RequestServed /\ NoLostSignal /\ JoinEnds
  BY Zenon DEF IInv, TypeOK, Carried
<1>2. CASE InitReturns
  <2>1. /\ call = "created" /\ call' = "idle"
        /\ UNCHANGED <<phase, worker_thread, thr, flight, cmd_status>>
    BY <1>2 DEF InitReturns, shared
  <2> QED
    BY <1>1, <2>1, ZenonT(30) DEF Carried, RequestServed, NoLostSignal, JoinEnds, Open, AtWork
<1>3. CASE BT_Cleanup
  <2>1. CASE worker_thread_running
    <3>1. /\ thr' = [thr EXCEPT ![worker_thread].killed = thr[worker_thread].pc # "none"]
          /\ call' = "join" /\ worker_thread' = worker_thread
      BY <1>3, <2>1 DEF BT_Cleanup
    <3>2. thr'[worker_thread].pc = "none" \/ thr'[worker_thread].killed
      <4>1. thr \in [Threads -> ThreadRecords] /\ worker_thread \in Threads
        BY <1>1, Zenon DEF FieldsOK
      <4>2. /\ thr'[worker_thread].pc = thr[worker_thread].pc
            /\ thr'[worker_thread].killed = (thr[worker_thread].pc # "none")
        BY <3>1, <4>1 DEF ThreadRecords
      <4> QED
        BY <4>2, Zenon
    <3> QED
      BY <3>1, <3>2 DEF Carried, RequestServed, NoLostSignal, JoinEnds, Open
  <2>2. CASE ~worker_thread_running
    <3>1. call' = "callbacks"
      BY <1>3, <2>2 DEF BT_Cleanup
    <3> QED
      BY <3>1, ZenonT(30) DEF Carried, RequestServed, NoLostSignal, JoinEnds, Open
  <2> QED
    BY <2>1, <2>2
<1>4. CASE CleanupJoins \/ clean_callbacks
  <2>1. call' \in {"callbacks", "off"}
    BY <1>4 DEF CleanupJoins, clean_callbacks
  <2> QED
    BY <2>1 DEF Carried, RequestServed, NoLostSignal, JoinEnds, Open
<1> QED
  BY <1>2, <1>3, <1>4, Zenon DEF Proceeds

LEMMA CompletionsCarry ==
  ASSUME IInv, ~hist.stray, Carried, Completions
  PROVE  Carried'
<1>1. FieldsOK /\ Agreed /\ RequestServed /\ NoLostSignal /\ JoinEnds
  BY Zenon DEF IInv, TypeOK, Carried
<1>2. PICK c \in Commands, status \in BOOLEAN, bytes \in Addresses :
        CommandCompletes(c, status, bytes)
  BY DEF Completions
<1>3. Open /\ c \in flight /\ UNCHANGED control /\ thr' \in Signalled
  BY <1>2, Zenon DEF CommandCompletes, Open
<1>4. cmd_status' # "PENDING"
  BY <1>2 DEF CommandCompletes
<1>5. thr[worker_thread].pc \in {"check", "wait"} /\ worker_thread \in Threads
  BY <1>1, <1>3 DEF Agreed, OneInFlight, FieldsOK
<1>6. AtWork(worker_thread)
  BY <1>5 DEF AtWork
<1>7. Waiting \subseteq {worker_thread}
  BY <1>1, <1>5, <1>6, OnlyWorker DEF Waiting, AtWork
<1>8. Moves(worker_thread) /\ thr'[worker_thread].pc = "check"
  <2>1. CASE thr[worker_thread].pc = "wait"
    <3>1. thr' = Goes(worker_thread, "check")
      BY <1>3, <1>5, <1>7, <2>1 DEF Signalled, Waiting
    <3> QED
      BY <1>1, <1>3, <1>5, <1>6, <3>1, GoesMoves
  <2>2. CASE thr[worker_thread].pc = "check"
    <3>1. thr' = thr
      BY <1>3, <1>7, <2>2 DEF Signalled, Waiting
    <3> QED
      BY <1>3, <1>6, <2>2, <3>1, Zenon DEF Moves, AtWork, control
  <2> QED
    BY <1>5, <2>1, <2>2
<1>9. \A u \in Threads \ {worker_thread} : thr'[u].pc # "wait"
  BY <1>7, <1>8 DEF Moves, Waiting
<1>10. NoLostSignal'
  BY <1>4, <1>8, <1>9 DEF NoLostSignal
<1> QED
  BY <1>1, <1>5, <1>8, <1>10, MovesKeeps, Zenon DEF Carried

LEMMA NextCarries == IInv /\ Carried /\ [Next]_vars => Carried'
<1>1. SUFFICES ASSUME IInv, Carried, [Next]_vars PROVE Carried'
  OBVIOUS
<1>2. CASE UNCHANGED vars
  <2>1. UNCHANGED <<call, phase, worker_thread, thr, flight, cmd_status, hist>>
    BY <1>2 DEF vars, control, shared
  <2> QED
    BY <1>1, <2>1 DEF Carried, RequestServed, NoLostSignal, JoinEnds, Open, AtWork
<1>3. CASE ProcessDies
  <2>1. call' = "off"
    BY <1>3 DEF ProcessDies
  <2> QED
    BY <2>1 DEF Carried, RequestServed, NoLostSignal, JoinEnds, Open
<1> QED
  BY <1>1, <1>2, <1>3, AsksCarry, ProceedsCarry, CompletionsCarry, ThreadStepsCarry, Zenon
     DEF Next

\* While no thread has been left behind: a stack that waits for the answer to FW_CFG or
\* SCO_CFG has a worker of that kind that has not answered yet; a worker in
\* pthread_cond_wait(&btinit_ctrl.cond) has its command with the HCI thread, so that a
\* completion before the wait is never missed (radiomod.c, cmd_status read with the
\* mutex); and pthread_join() in BT_Cleanup() waits for a thread that has ended or that
\* has the signal of pthread_kill() pending.
THEOREM CarriedHolds == Spec => []Carried
<1>1. Init => Carried
  <2>1. SUFFICES ASSUME Init PROVE Carried
    OBVIOUS
  <2>2. call = "off"
    BY <2>1 DEF Init
  <2> QED
    BY <2>2 DEF Carried, RequestServed, NoLostSignal, JoinEnds, Open
<1> QED
  BY <1>1, NextCarries, Invariance, PTL DEF Spec

\* No thread would still send a command or call the stack once cleanup is over.
NoneLeft ==
  ~hist.stray /\ call \in {"callbacks", "off"} =>
    \A t \in Threads : thr[t].pc \in {"none", "end"}

\* When BT_Cleanup() has returned, and until the next mtk_bt_init(), no thread is at work
\* as long as none was left behind without its flag (radiomgr.c, BT_Cleanup: "Cancel any
\* remaining running thread").
THEOREM NoneLeftHolds == Spec => []NoneLeft
<1>1. IInv => NoneLeft
  BY NobodyAtWork, Zenon DEF IInv, TypeOK, NoneLeft
<1> QED
  BY <1>1, Invariance, PTL
=============================================================================
