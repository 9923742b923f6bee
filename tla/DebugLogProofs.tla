--------------------------- MODULE DebugLogProofs ---------------------------
(***************************************************************************)
(* Theorems about DebugLog, for buffers of any size, any number of threads,*)
(* messages and files.                                                     *)
(***************************************************************************)
EXTENDS DebugLog, FiniteSetTheorems, TLAPS

-----------------------------------------------------------------------------
(* The inductive invariant. *)

\* A message is numbered when it is copied.
Numbered == writer = "copy" => msgs < MaxMsg

\* Sessions and their logger thread, when they do not overlap: MNL runs while the
\* thread is told to go on, a thread that has begun sees FLUSH only after MNL has
\* been stopped, and it flushes buffers that exist.
AtWork(t) == log[t].pc # "none"
OneLogger == \A t, u \in Threads : AtWork(t) /\ AtWork(u) => t = u
SessionOf(t) ==
  /\ log[t].pc = "init" => mnl
  /\ log[t].pc \notin {"none", "init"} /\ cond.FLUSH => ~mnl
  /\ log[t].pc = "drain" => ~mnl
  /\ log[t].pc = "flush" => inited
  /\ log[t].pc = "write" => \E b \in 1..2 : buf[b].st = "READING"
Session ==
  /\ exit <=> ~mnl
  /\ ~mnl => writer = "idle"
  /\ \A t \in Threads : SessionOf(t)

\* One buffer is written, and next_write points into it; a writable one is empty.
Exclusive ==
  /\ "abnormal" \notin bad
  /\ inited => /\ next \in 1..2 /\ buf[next].st = "WRITING"
               /\ buf[Other(next)].st \in {"WRITABLE", "READABLE", "READING"}
               /\ buf[Other(next)].st = "WRITABLE" => buf[Other(next)].data = <<>>
  /\ ~inited => next = 0 /\ \A b \in 1..2 : buf[b] = Buffer("NOTINIT")

\* Messages rise in the files, in each buffer, and from the files to the buffer that
\* is full and on to the one being written.
Rising(s) == \A i, j \in 1..Len(s) : i < j => s[i] < s[j]
Before(s, r) == \A i \in 1..Len(s), j \in 1..Len(r) : s[i] < r[j]
UpTo(s, n) == \A i \in 1..Len(s) : s[i] <= n
Ordered ==
  /\ Rising(out) /\ UpTo(out, msgs)
  /\ \A b \in 1..2 : /\ Rising(buf[b].data) /\ UpTo(buf[b].data, msgs)
                     /\ Before(out, buf[b].data)
  /\ inited => Before(buf[Other(next)].data, buf[next].data)

Orderly == OneLogger /\ Session /\ Exclusive /\ Ordered
IInv == TypeOK /\ Numbered /\ (Overlap = {} => Orderly)

-----------------------------------------------------------------------------
(* Types. *)

Messages == Seq(1..MaxMsg)
Cells == {c \in [st : States, data : Messages] : Len(c.data) <= BufCap}
Conditions == [{"WRITE", "FLUSH"} -> BOOLEAN]
Places == [pc : Pcs, filp : 0..MaxFiles]
Abnormal == {"abnormal", "null", "stale"}

\* The type invariant with a name for each set, of a state and of its successor.
Typed ==
  /\ mnl \in BOOLEAN /\ dbg \in BOOLEAN /\ exit \in BOOLEAN /\ inited \in BOOLEAN
  /\ buf \in [1..2 -> Cells]
  /\ next \in 0..2 /\ opened \in 0..MaxFiles /\ file \in 0..opened
  /\ cond \in Conditions /\ log \in [Threads -> Places]
  /\ writer \in {"idle", "copy"} /\ msgs \in 0..MaxMsg /\ out \in Messages
  /\ bad \subseteq Abnormal

LEMMA ConstantTypes ==
  /\ BufCap \in Nat \ {0} /\ MaxMsg \in Nat /\ MaxFiles \in Nat /\ Dbg2File \in BOOLEAN
  /\ 0 \in 0..MaxFiles
BY DebugLogConstants

LEMMA Types == TypeOK => Typed
<1> SUFFICES ASSUME TypeOK PROVE Typed
  OBVIOUS
<1>1. buf \in [1..2 -> Cells]
  BY DEF TypeOK, Cells, Messages
<1>2. mnl \in BOOLEAN /\ dbg \in BOOLEAN /\ exit \in BOOLEAN /\ inited \in BOOLEAN
  BY DEF TypeOK
<1> QED
  BY <1>1, <1>2 DEF TypeOK, Typed, Messages, Conditions, Places, Abnormal

LEMMA TypesBack == Typed => TypeOK
<1> SUFFICES ASSUME Typed PROVE TypeOK
  OBVIOUS
<1>1. /\ buf \in [1..2 -> [st : States, data : Seq(1..MaxMsg)]]
      /\ \A b \in 1..2 : Len(buf[b].data) <= BufCap
  BY DEF Typed, Cells, Messages
<1>2. {mnl, dbg, exit, inited} \subseteq BOOLEAN
  BY DEF Typed
<1> QED
  BY <1>1, <1>2 DEF TypeOK, Typed, Messages, Conditions, Places, Abnormal

LEMMA TypesNext == Typed' => TypeOK'
<1> SUFFICES ASSUME Typed' PROVE TypeOK'
  OBVIOUS
<1>1. /\ buf' \in [1..2 -> [st : States, data : Seq(1..MaxMsg)]]
      /\ \A b \in 1..2 : Len(buf'[b].data) <= BufCap
  BY DEF Typed, Cells, Messages
<1>2. {mnl', dbg', exit', inited'} \subseteq BOOLEAN
  BY DEF Typed
<1> QED
  BY <1>1, <1>2 DEF TypeOK, Typed, Messages, Conditions, Places, Abnormal

LEMMA CellFacts ==
  ASSUME NEW c \in Cells
  PROVE  c.st \in States /\ c.data \in Messages /\ Len(c.data) \in Nat /\ Len(c.data) <= BufCap
BY DEF Cells, Messages

LEMMA CellType ==
  ASSUME NEW s \in States, NEW d \in Messages, Len(d) <= BufCap
  PROVE  [st |-> s, data |-> d] \in Cells
BY DEF Cells

LEMMA EmptyCell ==
  /\ <<>> \in Messages
  /\ \A s \in States : Buffer(s) \in Cells /\ Buffer(s).st = s /\ Buffer(s).data = <<>>
<1>1. <<>> \in Messages /\ Len(<<>>) = 0
  BY DEF Messages
<1> QED
  BY <1>1, CellType, ConstantTypes DEF Buffer

LEMMA AppendFacts ==
  ASSUME NEW S, NEW s \in Seq(S), NEW x \in S
  PROVE  /\ Append(s, x) \in Seq(S) /\ Len(s) \in Nat /\ Len(Append(s, x)) = Len(s) + 1
         /\ Append(s, x)[Len(s) + 1] = x
         /\ \A i \in 1..Len(s) : Append(s, x)[i] = s[i]
OBVIOUS

LEMMA OneFacts ==
  ASSUME NEW S, NEW x \in S
  PROVE  <<x>> \in Seq(S) /\ Len(<<x>>) = 1 /\ <<x>>[1] = x
OBVIOUS

LEMMA ConcatFacts ==
  ASSUME NEW S, NEW s \in Seq(S), NEW r \in Seq(S)
  PROVE  /\ s \o r \in Seq(S) /\ Len(s) \in Nat /\ Len(r) \in Nat
         /\ Len(s \o r) = Len(s) + Len(r)
         /\ \A i \in 1..Len(s) : (s \o r)[i] = s[i]
         /\ \A i \in (Len(s) + 1)..(Len(s) + Len(r)) : (s \o r)[i] = r[i - Len(s)]
OBVIOUS

LEMMA PlaceFacts ==
  ASSUME NEW t \in Threads, log \in [Threads -> Places], NEW p \in Pcs, NEW f \in 0..MaxFiles
  PROVE  /\ [log EXCEPT ![t].pc = p] \in [Threads -> Places]
         /\ [log EXCEPT ![t] = [pc |-> p, filp |-> f]] \in [Threads -> Places]
         /\ [log EXCEPT ![t].pc = p][t].pc = p
         /\ [log EXCEPT ![t] = [pc |-> p, filp |-> f]][t].pc = p
         /\ \A u \in Threads \ {t} :
              /\ [log EXCEPT ![t].pc = p][u] = log[u]
              /\ [log EXCEPT ![t] = [pc |-> p, filp |-> f]][u] = log[u]
BY DEF Places

LEMMA Released == [c \in {"WRITE", "FLUSH"} |-> TRUE] \in Conditions
BY DEF Conditions

LEMMA Cleared ==
  /\ [c \in {"WRITE", "FLUSH"} |-> FALSE] \in Conditions
  /\ [c \in {"WRITE", "FLUSH"} |-> FALSE].FLUSH = FALSE
BY DEF Conditions

LEMMA SetWrite ==
  ASSUME cond \in Conditions, NEW w \in BOOLEAN
  PROVE  /\ [cond EXCEPT !.WRITE = w] \in Conditions
         /\ [cond EXCEPT !.WRITE = w].FLUSH = cond.FLUSH
BY DEF Conditions

-----------------------------------------------------------------------------
(* What the operations on the buffers do. *)

LEMMA Others == \A b \in 1..2 : Other(b) \in 1..2 /\ Other(b) # b /\ Other(Other(b)) = b
                                /\ \A c \in 1..2 : c = b \/ c = Other(b)
BY DEF Other

\* gps_dbg_log_pingpang_copy(): the message is appended, or the full buffer is handed
\* over, or its messages are given up.
Appends(b, m) ==
  /\ buf'[b].st = buf[b].st /\ buf'[b].data = Append(buf[b].data, m)
  /\ buf'[Other(b)] = buf[Other(b)] /\ next' = next
HandsOver(b, m) ==
  /\ buf[Other(b)].st = "WRITABLE"
  /\ buf'[b].st = "READABLE" /\ buf'[b].data = buf[b].data
  /\ buf'[Other(b)].st = "WRITING" /\ buf'[Other(b)].data = <<m>> /\ next' = Other(b)
GivesUp(b, m) ==
  /\ buf'[b].st = buf[b].st /\ buf'[b].data = <<m>>
  /\ buf'[Other(b)] = buf[Other(b)] /\ next' = b

LEMMA CopyFacts ==
  ASSUME Typed, NEW b \in 1..2, NEW m \in 1..MaxMsg, CopyInto(b, m)
  PROVE  /\ buf' \in [1..2 -> Cells] /\ next' \in 0..2
         /\ cond' \in Conditions /\ cond'.FLUSH = cond.FLUSH
         /\ Appends(b, m) \/ HandsOver(b, m) \/ GivesUp(b, m)
<1>1. /\ buf \in [1..2 -> Cells] /\ buf[b] \in Cells /\ buf[Other(b)] \in Cells
      /\ next \in 0..2 /\ cond \in Conditions /\ Other(b) \in 1..2 /\ Other(b) # b
  BY Others DEF Typed
<1>2. <<m>> \in Messages /\ Len(<<m>>) <= BufCap
  BY OneFacts, ConstantTypes DEF Messages
<1>3. /\ buf[b].st \in States /\ buf[b].data \in Messages /\ Len(buf[b].data) \in Nat
      /\ Len(buf[b].data) <= BufCap
  BY <1>1, CellFacts
<1>4. CASE Len(buf[b].data) < BufCap
  <2>1. Append(buf[b].data, m) \in Messages /\ Len(Append(buf[b].data, m)) <= BufCap
    BY <1>3, <1>4, AppendFacts, ConstantTypes DEF Messages
  <2>2. [buf[b] EXCEPT !.data = Append(buf[b].data, m)] \in Cells
    BY <1>1, <2>1, Zenon DEF Cells
  <2>3. buf' = [buf EXCEPT ![b] = [buf[b] EXCEPT !.data = Append(buf[b].data, m)]]
    BY <1>1, <1>4 DEF CopyInto
  <2>4. buf' \in [1..2 -> Cells] /\ buf'[Other(b)] = buf[Other(b)]
        /\ buf'[b] = [buf[b] EXCEPT !.data = Append(buf[b].data, m)]
    BY <1>1, <2>2, <2>3, Zenon
  <2>5. buf'[b].st = buf[b].st /\ buf'[b].data = Append(buf[b].data, m)
    BY <1>1, <2>4 DEF Cells
  <2>6. next' = next /\ cond' = cond
    BY <1>4 DEF CopyInto
  <2> QED
    BY <1>1, <2>4, <2>5, <2>6 DEF Appends
<1>5. CASE ~(Len(buf[b].data) < BufCap) /\ buf[Other(b)].st = "WRITABLE"
  <2>1. [buf[b] EXCEPT !.st = "READABLE"] \in Cells
    BY <1>1 DEF Cells, States
  <2>2. [st |-> "WRITING", data |-> <<m>>] \in Cells
    BY <1>2, CellType, Zenon DEF States
  <2>3. buf' = [[buf EXCEPT ![b] = [buf[b] EXCEPT !.st = "READABLE"]]
                 EXCEPT ![Other(b)] = [st |-> "WRITING", data |-> <<m>>]]
    BY <1>1, <1>5 DEF CopyInto
  <2>4. /\ buf' \in [1..2 -> Cells] /\ buf'[b] = [buf[b] EXCEPT !.st = "READABLE"]
        /\ buf'[Other(b)] = [st |-> "WRITING", data |-> <<m>>]
    BY <1>1, <2>1, <2>2, <2>3, Zenon
  <2>5. buf'[b].st = "READABLE" /\ buf'[b].data = buf[b].data
    BY <1>1, <2>4 DEF Cells
  <2>6. next' = Other(b) /\ cond' = [cond EXCEPT !.WRITE = TRUE]
    BY <1>5 DEF CopyInto
  <2>7. cond' \in Conditions /\ cond'.FLUSH = cond.FLUSH
    BY <1>1, <2>6, SetWrite, Zenon
  <2> QED
    BY <1>1, <1>5, <2>4, <2>5, <2>6, <2>7, SMTT(30) DEF HandsOver
<1>6. CASE ~(Len(buf[b].data) < BufCap) /\ buf[Other(b)].st # "WRITABLE"
  <2>1. [buf[b] EXCEPT !.data = <<m>>] \in Cells
    BY <1>1, <1>2, Zenon DEF Cells
  <2>2. buf' = [buf EXCEPT ![b] = [buf[b] EXCEPT !.data = <<m>>]]
    BY <1>1, <1>6 DEF CopyInto
  <2>3. buf' \in [1..2 -> Cells] /\ buf'[Other(b)] = buf[Other(b)]
        /\ buf'[b] = [buf[b] EXCEPT !.data = <<m>>]
    BY <1>1, <2>1, <2>2
  <2>4. buf'[b].st = buf[b].st /\ buf'[b].data = <<m>>
    BY <1>1, <2>3 DEF Cells
  <2>5. next' = b /\ cond' = cond
    BY <1>6 DEF CopyInto
  <2> QED
    BY <1>1, <2>3, <2>4, <2>5 DEF GivesUp
<1> QED
  BY <1>4, <1>5, <1>6, Zenon

LEMMA FreeFacts ==
  ASSUME FreeAndClose
  PROVE  /\ buf' \in [1..2 -> Cells] /\ \A b \in 1..2 : buf'[b] = Buffer("NOTINIT")
         /\ next' = 0 /\ next' \in 0..2 /\ file' = 0 /\ ~inited' /\ inited' \in BOOLEAN
<1>1. buf' \in [1..2 -> Cells] /\ \A b \in 1..2 : buf'[b] = Buffer("NOTINIT")
  BY EmptyCell DEF FreeAndClose, States
<1>2. next' = 0 /\ next' \in 0..2 /\ file' = 0
  BY DEF FreeAndClose
<1>3. ~inited' /\ inited' \in BOOLEAN
  BY Zenon DEF FreeAndClose
<1> QED
  BY <1>1, <1>2, <1>3

LEMMA InitFacts ==
  ASSUME pingpang_init
  PROVE  /\ buf' \in [1..2 -> Cells] /\ inited' = TRUE /\ next' = 1
         /\ buf'[1] = Buffer("WRITING") /\ buf'[2] = Buffer("WRITABLE")
<1>1. Buffer("WRITING") \in Cells /\ Buffer("WRITABLE") \in Cells
  BY EmptyCell, Zenon DEF States
<1> QED
  BY <1>1 DEF pingpang_init

\* The logger takes readable buffers; their messages stay.
LEMMA TakeFacts ==
  ASSUME Typed, NEW t \in Threads, NEW f \in 0..MaxFiles, Take(t, f)
  PROVE  /\ buf' \in [1..2 -> Cells] /\ log' \in [Threads -> Places]
         /\ \A u \in Threads \ {t} : log'[u] = log[u]
         /\ \A b \in 1..2 :
              /\ buf'[b].data = buf[b].data
              /\ buf'[b] = buf[b] \/ (buf[b].st = "READABLE" /\ buf'[b].st = "READING")
         /\ \/ log'[t].pc = "write" /\ \E b \in 1..2 : buf'[b].st = "READING"
            \/ log'[t].pc = AfterLoop(t)
<1>1. buf \in [1..2 -> Cells] /\ log \in [Threads -> Places]
  BY DEF Typed
<1>2. "write" \in Pcs /\ AfterLoop(t) \in Pcs
  BY DEF Pcs, AfterLoop
<1>3. CASE f # 0 /\ Readable # {}
  <2>1. log' = [log EXCEPT ![t] = [pc |-> "write", filp |-> f]]
    BY <1>3 DEF Take
  <2>2. /\ log' \in [Threads -> Places] /\ log'[t].pc = "write"
        /\ \A u \in Threads \ {t} : log'[u] = log[u]
    BY <1>1, <1>2, <2>1, PlaceFacts, ZenonT(30)
  <2>3. buf' = [b \in 1..2 |-> IF b \in Readable THEN [buf[b] EXCEPT !.st = "READING"]
                                                 ELSE buf[b]]
    BY <1>3 DEF Take
  <2>4. \A b \in 1..2 : /\ [buf[b] EXCEPT !.st = "READING"] \in Cells
                        /\ [buf[b] EXCEPT !.st = "READING"].st = "READING"
                        /\ [buf[b] EXCEPT !.st = "READING"].data = buf[b].data
    BY <1>1 DEF Cells, States
  <2>5. buf' \in [1..2 -> Cells]
    BY <1>1, <2>3, <2>4, Zenon
  <2>6. \A b \in 1..2 :
              /\ buf'[b].data = buf[b].data
              /\ buf'[b] = buf[b] \/ (buf[b].st = "READABLE" /\ buf'[b].st = "READING")
    BY <1>1, <2>3, <2>4, Zenon DEF Readable
  <2>7. \E b \in 1..2 : buf'[b].st = "READING"
    <3>1. PICK b \in Readable : TRUE
      BY <1>3
    <3>2. b \in 1..2
      BY <3>1 DEF Readable
    <3> QED
      BY <3>1, <3>2, <2>3, <2>4, Zenon
  <2> QED
    BY <2>2, <2>5, <2>6, <2>7, Zenon
<1>4. CASE ~(f # 0 /\ Readable # {})
  <2>1. buf' = buf /\ log' = [log EXCEPT ![t].pc = AfterLoop(t)]
    BY <1>4 DEF Take
  <2>2. /\ log' \in [Threads -> Places] /\ log'[t].pc = AfterLoop(t)
        /\ \A u \in Threads \ {t} : log'[u] = log[u]
    BY <1>1, <1>2, <2>1, PlaceFacts, ConstantTypes, Zenon
  <2> QED
    BY <1>1, <2>1, <2>2, Zenon
<1> QED
  BY <1>3, <1>4

\* What a flush writes is what the readable buffer and the one being written hold.
LEMMA FlushedType == Typed => (Cardinality(Writing) = 1 => Flushed \in Messages)
<1> SUFFICES ASSUME Typed, Cardinality(Writing) = 1 PROVE Flushed \in Messages
  OBVIOUS
<1>1. Writing # {}
  BY FS_EmptySet
<1>2. (CHOOSE b \in Writing : TRUE) \in 1..2
  BY <1>1 DEF Writing
<1>3. \A b \in 1..2 : buf[b].data \in Messages /\ buf[Other(b)].data \in Messages
  BY Others, CellFacts DEF Typed
<1>4. \A s, r \in Messages : s \o r \in Messages
  BY ConcatFacts DEF Messages
<1> QED
  BY <1>2, <1>3, <1>4, EmptyCell, Zenon DEF Flushed

-----------------------------------------------------------------------------
(* Type correctness, however far sessions overlap. *)

LEMMA NewFile ==
  ASSUME Typed, opened < MaxFiles
  PROVE  opened + 1 \in 0..MaxFiles /\ opened + 1 \in 0..(opened + 1) /\ opened + 1 # 0
BY ConstantTypes DEF Typed

LEMMA FileTypes ==
  Typed => file \in 0..MaxFiles /\ 0 \in 0..opened
BY ConstantTypes DEF Typed

LEMMA StaleType == \A t \in Threads : Stale(t) \subseteq Abnormal
BY DEF Stale, Abnormal

LEMMA InitUnlessType ==
  ASSUME Typed, NEW wanted, InitUnlessDone(wanted)
  PROVE  buf' \in [1..2 -> Cells] /\ next' \in 0..2 /\ inited' \in BOOLEAN
<1>1. CASE pingpang_init
  BY <1>1, InitFacts
<1>2. CASE UNCHANGED <<inited, next, buf>>
  BY <1>2 DEF Typed
<1> QED
  BY <1>1, <1>2 DEF InitUnlessDone

LEMMA CopyTyped ==
  ASSUME Typed, Numbered, DbgCopies
  PROVE  /\ buf' \in [1..2 -> Cells] /\ next' \in 0..2 /\ cond' \in Conditions
         /\ bad' \subseteq Abnormal /\ msgs' \in 0..MaxMsg
<1>1. msgs + 1 \in 1..MaxMsg /\ msgs' \in 0..MaxMsg
  BY ConstantTypes DEF DbgCopies, Numbered, Typed
<1>2. bad' \subseteq Abnormal
  BY Zenon DEF DbgCopies, Abnormal, Typed
<1>3. CASE UNCHANGED <<buf, next, cond>>
  BY <1>1, <1>2, <1>3, Zenon DEF Typed
<1>4. CASE \E b \in Writing : CopyInto(b, msgs + 1)
  <2>1. PICK b \in Writing : CopyInto(b, msgs + 1)
    BY <1>4
  <2>2. b \in 1..2
    BY DEF Writing
  <2> QED
    BY <1>1, <1>2, <2>1, <2>2, CopyFacts, Zenon
<1> QED
  BY <1>3, <1>4, Zenon DEF DbgCopies

LEMMA TypeKept == Typed /\ Numbered /\ [Next]_vars => Typed'
<1>1. SUFFICES ASSUME Typed, Numbered, [Next]_vars PROVE Typed'
  OBVIOUS
<1>2. CASE UNCHANGED vars
  BY <1>1, <1>2, Zenon DEF Typed, vars
<1>3. CASE Restart
  <2>1. buf' \in [1..2 -> Cells] /\ next' = 0 /\ file' = 0
    BY <1>3, FreeFacts DEF Restart
  <2>2. log' \in [Threads -> Places]
    BY <1>3, ConstantTypes, Zenon DEF Restart, Places, Pcs
  <2>3. bad' \subseteq Abnormal
    BY <1>1, <1>3 DEF Restart, Typed
  <2>4. opened' = opened /\ file' \in 0..opened'
    BY <1>1, <1>3, <2>1, FileTypes, Zenon DEF Restart
  <2>5. cond' \in Conditions
    BY <1>3, Cleared DEF Restart
  <2>6. buf' \in [1..2 -> Cells] /\ next' \in 0..2 /\ inited' \in BOOLEAN
    BY <1>3, FreeFacts DEF Restart
  <2>7. mnl' \in BOOLEAN /\ dbg' \in BOOLEAN /\ exit' \in BOOLEAN
    BY <1>3, Zenon DEF Restart
  <2> QED
    BY <1>1, <1>3, <2>2, <2>3, <2>4, <2>5, <2>6, <2>7, Zenon DEF Restart, Typed
<1>4. CASE DbgTests
  BY <1>1, <1>4, Zenon DEF Typed, DbgTests
<1>5. CASE DbgCopies
  BY <1>1, <1>5, CopyTyped DEF Typed, DbgCopies
<1>6. CASE deep_start
  <2>1. buf' \in [1..2 -> Cells] /\ next' \in 0..2 /\ inited' \in BOOLEAN
    BY <1>1, <1>6, InitUnlessType, Zenon DEF deep_start, Typed
  <2>2. opened' \in 0..MaxFiles /\ file' \in 0..opened'
    BY <1>1, <1>6, NewFile, FileTypes, Zenon DEF deep_start, create_debug_log_file, Typed
  <2> QED
    BY <1>1, <1>6, <2>1, <2>2 DEF deep_start, Typed
<1>7. CASE deep_stop
  BY <1>1, <1>7, Zenon DEF Typed, deep_stop
<1>8. ASSUME NEW t \in Threads, gps_dbg_log_thread_init(t) PROVE Typed'
  <2>1. log' \in [Threads -> Places]
    <3>1. "init" \in Pcs /\ log \in [Threads -> Places]
      BY <1>1 DEF Pcs, Typed
    <3>2. [log EXCEPT ![t] = [pc |-> "init", filp |-> 0]] \in [Threads -> Places]
      BY <1>8, <3>1, PlaceFacts, ConstantTypes, Zenon
    <3> QED
      BY <1>8, <3>2 DEF gps_dbg_log_thread_init
  <2>2. dbg' \in BOOLEAN
    BY <1>8 DEF gps_dbg_log_thread_init
  <2> QED
    BY <1>1, <1>8, <2>1, <2>2, Zenon DEF gps_dbg_log_thread_init, Typed
<1>9. CASE gps_stop_dbglog_release_condition
  BY <1>1, <1>9, Released, Zenon DEF Typed, gps_stop_dbglog_release_condition
<1>10. ASSUME NEW t \in Threads, Logger(t) PROVE Typed'
  <2>1. AfterLoop(t) \in Pcs /\ {"none", "flush"} \subseteq Pcs
    BY DEF AfterLoop, Pcs
  <2>2. \A p \in Pcs, f \in 0..MaxFiles :
          /\ [log EXCEPT ![t].pc = p] \in [Threads -> Places]
          /\ [log EXCEPT ![t] = [pc |-> p, filp |-> f]] \in [Threads -> Places]
    BY <1>1, <1>10, PlaceFacts, Zenon DEF Typed
  <2>3. cond \in Conditions /\ [cond EXCEPT !.WRITE = FALSE] \in Conditions
    BY <1>1, SetWrite, Zenon DEF Typed
  <2>10. /\ [log EXCEPT ![t].pc = AfterLoop(t)] \in [Threads -> Places]
         /\ [log EXCEPT ![t].pc = "none"] \in [Threads -> Places]
    BY <2>1, <2>2, ConstantTypes, Zenon
  <2>11. [log EXCEPT ![t] = [pc |-> "flush", filp |-> file]] \in [Threads -> Places]
    BY <1>1, <2>1, <2>2, FileTypes, Zenon
  <2>4. CASE LoggerBegins(t)
    <3>1. buf' \in [1..2 -> Cells] /\ next' \in 0..2 /\ inited' \in BOOLEAN
      BY <1>1, <2>4, InitUnlessType DEF LoggerBegins
    <3>2. opened' \in 0..MaxFiles /\ file' \in 0..opened'
      BY <1>1, <2>4, NewFile, FileTypes DEF LoggerBegins, Typed
    <3>3. log' \in [Threads -> Places]
      BY <2>1, <2>2, <2>4, ConstantTypes, Zenon DEF LoggerBegins
    <3> QED
      BY <1>1, <2>4, <3>1, <3>2, <3>3, Cleared, Zenon DEF LoggerBegins, Typed
  <2>5. CASE LoggerWakes(t)
    <3>1. cond' \in Conditions
      BY <2>3, <2>5 DEF LoggerWakes
    <3>2. opened' \in 0..MaxFiles /\ file' \in 0..opened' /\ dbg' \in BOOLEAN
      BY <1>1, <2>5, NewFile, FileTypes, Zenon DEF LoggerWakes, Typed
    <3>3. buf' \in [1..2 -> Cells] /\ log' \in [Threads -> Places]
      <4>1. CASE \E f \in 0..MaxFiles : Take(t, f)
        BY <1>1, <1>10, <4>1, TakeFacts, Zenon
      <4>2. CASE log' = [log EXCEPT ![t] = [pc |-> "none", filp |-> 0]] /\ UNCHANGED buf
        BY <1>1, <2>1, <2>2, <4>2, ConstantTypes, Zenon DEF Typed
      <4> QED
        BY <1>1, <2>5, <4>1, <4>2, NewFile, FileTypes, ConstantTypes, Zenon DEF LoggerWakes
    <3> QED
      BY <1>1, <2>5, <3>1, <3>2, <3>3, Zenon DEF LoggerWakes, Typed
  <2>6. CASE LoggerWrites(t)
    <3>1. PICK b \in 1..2 : /\ out' = out \o buf[b].data
                            /\ buf' = [buf EXCEPT ![b] = Buffer("WRITABLE")]
      BY <2>6, Zenon DEF LoggerWrites
    <3>2. buf' \in [1..2 -> Cells]
      BY <1>1, <3>1, EmptyCell, Zenon DEF Typed, States
    <3>3. out' \in Messages
      BY <1>1, <3>1, CellFacts, ConcatFacts DEF Typed, Messages
    <3>4. log' \in [Threads -> Places]
      BY <2>1, <2>2, <2>6, ConstantTypes, Zenon DEF LoggerWrites
    <3>5. bad' \subseteq Abnormal
      BY <1>1, <1>10, <2>6, StaleType, Zenon DEF LoggerWrites, Typed
    <3> QED
      BY <1>1, <2>6, <3>2, <3>3, <3>4, <3>5, Zenon DEF LoggerWrites, Typed
  <2>7. CASE LoggerSwitchedOff(t)
    <3>1. log' \in [Threads -> Places]
      BY <2>2, <2>7, <2>10, <2>11, Zenon DEF LoggerSwitchedOff
    <3>2. /\ buf' \in [1..2 -> Cells] /\ next' \in 0..2 /\ inited' \in BOOLEAN
          /\ file' \in 0..opened
      <4>1. CASE FreeAndClose
        BY <1>1, <4>1, FreeFacts, FileTypes, Zenon
      <4>2. CASE UNCHANGED <<inited, next, buf, file>>
        BY <1>1, <4>2, Zenon DEF Typed
      <4> QED
        BY <2>7, <4>1, <4>2, Zenon DEF LoggerSwitchedOff
    <3> QED
      BY <1>1, <2>3, <2>7, <3>1, <3>2, Zenon DEF LoggerSwitchedOff, Typed
  <2>8. CASE LoggerLeaves(t)
    <3>1. log' \in [Threads -> Places]
      BY <2>2, <2>8, <2>10, <2>11, Zenon DEF LoggerLeaves
    <3>2. file' \in 0..opened
      BY <1>1, <2>8, FileTypes, Zenon DEF LoggerLeaves, Typed
    <3> QED
      BY <1>1, <2>8, <3>1, <3>2, Zenon DEF LoggerLeaves, Typed
  <2>9. CASE LoggerFlushes(t)
    <3>1. log' \in [Threads -> Places]
      BY <2>1, <2>2, <2>9, ConstantTypes, Zenon DEF LoggerFlushes
    <3>2. buf' \in [1..2 -> Cells] /\ next' = 0 /\ file' = 0
      BY <2>9, FreeFacts DEF LoggerFlushes
    <3>3. out' \in Messages
      <4>1. out \in Messages /\ \A r \in Messages : out \o r \in Messages
        BY <1>1, ConcatFacts, Zenon DEF Typed, Messages
      <4> QED
        BY <1>1, <2>9, <4>1, FlushedType, Zenon DEF LoggerFlushes
    <3>4. bad' \subseteq Abnormal
      <4>1. /\ {"abnormal"} \subseteq Abnormal /\ Stale(t) \subseteq Abnormal
            /\ bad \subseteq Abnormal
        BY <1>1, <1>10, StaleType, Zenon DEF Typed, Abnormal
      <4> QED
        BY <2>9, <4>1, Zenon DEF LoggerFlushes
    <3>5. opened' = opened /\ file' \in 0..opened'
      BY <1>1, <2>9, <3>2, FileTypes, Zenon DEF LoggerFlushes
    <3>6. buf' \in [1..2 -> Cells] /\ next' \in 0..2 /\ inited' \in BOOLEAN
      BY <2>9, FreeFacts DEF LoggerFlushes
    <3> QED
      BY <1>1, <2>9, <3>1, <3>3, <3>4, <3>5, <3>6, Zenon DEF LoggerFlushes, Typed
  <2> QED
    BY <1>10, <2>4, <2>5, <2>6, <2>7, <2>8, <2>9, Zenon DEF Logger
<1> QED
  BY <1>1, <1>2, <1>3, <1>4, <1>5, <1>6, <1>7, <1>8, <1>9, <1>10, Zenon DEF Next

LEMMA NumberedKept == Typed /\ Numbered /\ [Next]_vars => Numbered'
<1>1. SUFFICES ASSUME Typed, Numbered, [Next]_vars PROVE Numbered'
  OBVIOUS
<1>2. CASE DbgTests
  BY <1>1, <1>2 DEF DbgTests, Numbered
<1>3. CASE writer' = "idle"
  BY <1>3 DEF Numbered
<1>4. CASE UNCHANGED <<writer, msgs>>
  BY <1>1, <1>4, Zenon DEF Numbered
<1>5. ASSUME NEW t \in Threads, Logger(t) PROVE UNCHANGED <<writer, msgs>>
  BY <1>5 DEF Logger, LoggerBegins, LoggerWakes, LoggerWrites, LoggerSwitchedOff,
     LoggerLeaves,
     LoggerFlushes
<1>6. ASSUME NEW t \in Threads, gps_dbg_log_thread_init(t) PROVE UNCHANGED <<writer, msgs>>
  BY <1>6 DEF gps_dbg_log_thread_init
<1>7. [Next]_vars => \/ DbgTests \/ writer' = "idle" \/ UNCHANGED <<writer, msgs>>
  BY <1>5, <1>6, Zenon DEF Next, Restart, DbgCopies, deep_start, deep_stop,
     gps_stop_dbglog_release_condition, vars
<1> QED
  BY <1>1, <1>2, <1>3, <1>4, <1>7, Zenon

-----------------------------------------------------------------------------
(* Rising messages. *)

LEMMA IndexType ==
  ASSUME NEW s \in Messages
  PROVE  Len(s) \in Nat /\ \A i \in 1..Len(s) : s[i] \in 1..MaxMsg /\ s[i] \in Int
BY ConstantTypes DEF Messages

LEMMA EmptyRises ==
  ASSUME NEW s, NEW n
  PROVE  Rising(<<>>) /\ UpTo(<<>>, n) /\ Before(<<>>, s) /\ Before(s, <<>>)
BY DEF Rising, UpTo, Before

LEMMA OneRises ==
  ASSUME NEW n \in 0..MaxMsg, NEW r \in Messages, UpTo(r, n)
  PROVE  Rising(<<n + 1>>) /\ UpTo(<<n + 1>>, n + 1) /\ Before(r, <<n + 1>>)
<1>1. Len(<<n + 1>>) = 1 /\ <<n + 1>>[1] = n + 1
  OBVIOUS
<1>2. \A i \in 1..Len(<<n + 1>>) : i = 1 /\ <<n + 1>>[i] = n + 1
  BY <1>1
<1>3. \A i \in 1..Len(r) : r[i] < n + 1
  BY IndexType, ConstantTypes DEF UpTo
<1> QED
  BY <1>2, <1>3, ConstantTypes DEF Rising, UpTo, Before

LEMMA AppendRises ==
  ASSUME NEW n \in 0..MaxMsg, n < MaxMsg, NEW s \in Messages, Rising(s), UpTo(s, n),
         NEW r \in Messages, UpTo(r, n), Before(r, s)
  PROVE  /\ Rising(Append(s, n + 1)) /\ UpTo(Append(s, n + 1), n + 1)
         /\ Before(r, Append(s, n + 1))
<1> DEFINE a == Append(s, n + 1)
<1>1. /\ Len(s) \in Nat /\ Len(a) = Len(s) + 1 /\ a[Len(s) + 1] = n + 1
      /\ \A i \in 1..Len(s) : a[i] = s[i]
  <2>1. n + 1 \in 1..MaxMsg
    BY ConstantTypes
  <2> QED
    BY <2>1, AppendFacts DEF Messages
<1>2. /\ \A i \in 1..Len(s) : s[i] \in Int /\ s[i] < n + 1
      /\ \A i \in 1..Len(r) : r[i] \in Int /\ r[i] < n + 1
  BY IndexType, ConstantTypes, SMTT(30) DEF UpTo
<1>3. \A i \in 1..Len(a) : i \in 1..Len(s) \/ i = Len(s) + 1
  BY <1>1
<1> HIDE DEF a
<1>4. Rising(a)
  BY <1>1, <1>2, <1>3 DEF Rising
<1>5. UpTo(a, n + 1)
  BY <1>1, <1>2, <1>3, ConstantTypes DEF UpTo
<1>6. Before(r, a)
  BY <1>1, <1>2, <1>3, Zenon DEF Before
<1> QED
  BY <1>4, <1>5, <1>6 DEF a

LEMMA ConcatRises ==
  ASSUME NEW n \in 0..MaxMsg, NEW s \in Messages, NEW r \in Messages, Rising(s), Rising(r),
         Before(s, r), UpTo(s, n), UpTo(r, n)
  PROVE  /\ s \o r \in Messages /\ Rising(s \o r) /\ UpTo(s \o r, n)
         /\ \A q \in Messages : Before(s, q) /\ Before(r, q) => Before(s \o r, q)
<1> DEFINE c == s \o r
<1>1. /\ c \in Messages /\ Len(s) \in Nat /\ Len(r) \in Nat /\ Len(c) = Len(s) + Len(r)
      /\ \A i \in 1..Len(s) : c[i] = s[i]
      /\ \A i \in (Len(s) + 1)..(Len(s) + Len(r)) : c[i] = r[i - Len(s)]
  BY ConcatFacts DEF Messages
<1> HIDE DEF c
<1>2. \A i \in 1..Len(c) : \/ i \in 1..Len(s) /\ c[i] = s[i]
                           \/ i > Len(s) /\ i - Len(s) \in 1..Len(r) /\ c[i] = r[i - Len(s)]
  BY <1>1
<1>3. UpTo(c, n)
  BY <1>2, Zenon DEF UpTo
<1>4. \A q \in Messages : Before(s, q) /\ Before(r, q) => Before(c, q)
  BY <1>2, Zenon DEF Before
<1>5. Rising(c)
  <2>1. SUFFICES ASSUME NEW i \in 1..Len(c), NEW j \in 1..Len(c), i < j PROVE c[i] < c[j]
    BY DEF Rising
  <2>2. CASE j \in 1..Len(s)
    <3>1. i \in 1..Len(s) /\ c[i] = s[i] /\ c[j] = s[j]
      BY <1>1, <2>1, <2>2
    <3> QED
      BY <2>1, <2>2, <3>1 DEF Rising
  <2>3. CASE i \in 1..Len(s) /\ j > Len(s)
    <3>1. j - Len(s) \in 1..Len(r) /\ c[j] = r[j - Len(s)] /\ c[i] = s[i]
      BY <1>1, <2>1, <2>3
    <3> QED
      BY <2>3, <3>1 DEF Before
  <2>4. CASE i > Len(s)
    <3>1. /\ i - Len(s) \in 1..Len(r) /\ c[i] = r[i - Len(s)]
          /\ j - Len(s) \in 1..Len(r) /\ c[j] = r[j - Len(s)] /\ i - Len(s) < j - Len(s)
      BY <1>1, <2>1, <2>4
    <3> QED
      BY <3>1, Zenon DEF Rising
  <2> QED
    BY <1>1, <2>1, <2>2, <2>3, <2>4
<1> QED
  BY <1>1, <1>3, <1>4, <1>5, Zenon DEF c

LEMMA UpToMore ==
  ASSUME NEW n \in 0..MaxMsg, NEW s \in Messages, UpTo(s, n)
  PROVE  UpTo(s, n + 1)
BY IndexType, ConstantTypes DEF UpTo

-----------------------------------------------------------------------------
(* The buffers stay exclusive and in order. *)

LEMMA DataTypes ==
  Typed => /\ out \in Messages /\ msgs \in 0..MaxMsg
           /\ \A b \in 1..2 : buf[b].data \in Messages
BY CellFacts DEF Typed

LEMMA WritingIsNext == Exclusive /\ inited => Writing = {next} /\ Cardinality(Writing) = 1
<1> SUFFICES ASSUME Exclusive, inited PROVE Writing = {next} /\ Cardinality(Writing) = 1
  OBVIOUS
<1>1. next \in 1..2 /\ buf[next].st = "WRITING" /\ buf[Other(next)].st # "WRITING"
  BY DEF Exclusive
<1>2. Writing = {next}
  BY <1>1, Others, SMTT(30) DEF Writing
<1> QED
  BY <1>2, FS_Singleton

LEMMA EmptyKept ==
  ASSUME Typed, Exclusive, Ordered, "abnormal" \notin bad', msgs' = msgs, ~inited', next' = 0,
         \A b \in 1..2 : buf'[b] = Buffer("NOTINIT"), Rising(out'), UpTo(out', msgs)
  PROVE  Exclusive' /\ Ordered'
<1>1. Exclusive'
  BY DEF Exclusive
<1>2. \A b \in 1..2 : buf'[b].data = <<>>
  BY EmptyCell, Zenon DEF States
<1> QED
  BY <1>1, <1>2, EmptyRises, Zenon DEF Ordered

LEMMA SameKept ==
  ASSUME Exclusive, Ordered, "abnormal" \notin bad', UNCHANGED <<inited, next, buf, msgs, out>>
  PROVE  Exclusive' /\ Ordered'
BY DEF Exclusive, Ordered

LEMMA InitKept ==
  ASSUME Typed, Exclusive, Ordered, UNCHANGED <<bad, msgs, out>>,
         NEW wanted, InitUnlessDone(wanted)
  PROVE  /\ Exclusive' /\ Ordered'
         /\ inited => inited'
         /\ \A b \in 1..2 : buf[b].st = "READING" => buf'[b].st = "READING"
<1>1. CASE UNCHANGED <<inited, next, buf>>
  BY <1>1, SameKept DEF Exclusive
<1>2. CASE ~inited /\ pingpang_init
  <2>1. /\ inited' /\ next' = 1 /\ next' \in 1..2 /\ Other(next') = 2
        /\ buf'[1] = Buffer("WRITING") /\ buf'[2] = Buffer("WRITABLE")
    BY <1>2, InitFacts DEF Other
  <2>2. /\ buf'[1].st = "WRITING" /\ buf'[1].data = <<>>
        /\ buf'[2].st = "WRITABLE" /\ buf'[2].data = <<>>
    BY <2>1, EmptyCell, Zenon DEF States
  <2>3. Exclusive'
    BY <2>1, <2>2, Zenon DEF Exclusive
  <2>4. \A b \in 1..2 : buf'[b].data = <<>>
    BY <2>2, SMTT(30)
  <2>5. Ordered'
    BY <2>1, <2>4, EmptyRises, Zenon DEF Ordered
  <2>6. \A b \in 1..2 : buf[b].st # "READING"
    BY <1>2, EmptyCell DEF Exclusive, States
  <2> QED
    BY <1>2, <2>3, <2>5, <2>6, Zenon
<1> QED
  BY <1>1, <1>2, Zenon DEF InitUnlessDone

\* MNL's copy.
LEMMA CopyKept ==
  ASSUME Typed, Numbered, Exclusive, Ordered, DbgCopies
  PROVE  /\ Exclusive' /\ Ordered'
         /\ \A b \in 1..2 : buf[b].st = "READING" => buf'[b].st = "READING"
<1>1. /\ msgs' = msgs + 1 /\ msgs < MaxMsg /\ msgs \in 0..MaxMsg /\ msgs + 1 \in 1..MaxMsg
      /\ out' = out /\ out \in Messages /\ inited' = inited
      /\ \A b \in 1..2 : buf[b].data \in Messages
  BY DataTypes, ConstantTypes, SMTT(30) DEF DbgCopies, Numbered
<1>2. /\ Rising(out) /\ UpTo(out, msgs) /\ UpTo(out, msgs + 1)
      /\ \A b \in 1..2 : /\ Rising(buf[b].data) /\ UpTo(buf[b].data, msgs)
                         /\ UpTo(buf[b].data, msgs + 1) /\ Before(out, buf[b].data)
  BY <1>1, UpToMore DEF Ordered
<1>3. CASE next = 0
  <2>1. UNCHANGED <<buf, next>> /\ bad' = bad \cup {"null"}
    BY <1>3, Zenon DEF DbgCopies
  <2>2. Exclusive'
    BY <1>1, <2>1, Zenon DEF Exclusive
  <2>3. Ordered'
    BY <1>1, <1>2, <2>1, Zenon DEF Ordered
  <2> QED
    BY <2>1, <2>2, <2>3, Zenon
<1>4. CASE next # 0
  <2>1. inited
    BY <1>4, Zenon DEF Exclusive
  <2>2. /\ next \in 1..2 /\ buf[next].st = "WRITING" /\ bad' = bad /\ CopyInto(next, msgs + 1)
        /\ Other(next) \in 1..2 /\ Other(next) # next /\ Other(Other(next)) = next
        /\ \A c \in 1..2 : c = next \/ c = Other(next)
    BY <1>4, <2>1, WritingIsNext, Others, Zenon DEF DbgCopies, Exclusive
  <2>3. /\ Before(buf[Other(next)].data, buf[next].data) /\ "abnormal" \notin bad
        /\ buf[Other(next)].st \in {"WRITABLE", "READABLE", "READING"}
        /\ buf[Other(next)].st = "WRITABLE" => buf[Other(next)].data = <<>>
    BY <2>1, Zenon DEF Ordered, Exclusive
  <2>4. /\ buf' \in [1..2 -> Cells]
        /\ \/ Appends(next, msgs + 1) \/ HandsOver(next, msgs + 1) \/ GivesUp(next, msgs + 1)
    BY <1>1, <2>2, CopyFacts, Zenon
  <2>5. CASE Appends(next, msgs + 1)
    <3> DEFINE a == Append(buf[next].data, msgs + 1)
    <3>1. /\ buf'[next].st = "WRITING" /\ buf'[next].data = a
          /\ buf'[Other(next)] = buf[Other(next)] /\ next' = next
      BY <2>2, <2>5, Zenon DEF Appends
    <3>2. Rising(a) /\ UpTo(a, msgs + 1) /\ Before(out, a) /\ Before(buf[Other(next)].data, a)
      BY <1>1, <1>2, <2>2, <2>3, AppendRises, Zenon
    <3> HIDE DEF a
    <3>3. Exclusive'
      BY <1>1, <2>1, <2>2, <2>3, <3>1, Zenon DEF Exclusive
    <3>4. Ordered'
      <4>1. \A b \in 1..2 : /\ Rising(buf'[b].data) /\ UpTo(buf'[b].data, msgs + 1)
                            /\ Before(out, buf'[b].data)
        BY <1>2, <2>2, <3>1, <3>2, Zenon
      <4>2. Before(buf'[Other(next')].data, buf'[next'].data)
        BY <2>2, <3>1, <3>2, Zenon
      <4> QED
        BY <1>1, <1>2, <4>1, <4>2, Zenon DEF Ordered
    <3> QED
      BY <2>2, <3>1, <3>3, <3>4, Zenon
  <2>6. CASE HandsOver(next, msgs + 1)
    <3>1. /\ buf'[next].st = "READABLE" /\ buf'[next].data = buf[next].data
          /\ buf'[Other(next)].st = "WRITING" /\ buf'[Other(next)].data = <<msgs + 1>>
          /\ next' = Other(next) /\ buf[Other(next)].st = "WRITABLE"
      BY <2>6, Zenon DEF HandsOver
    <3>2. /\ Rising(<<msgs + 1>>) /\ UpTo(<<msgs + 1>>, msgs + 1) /\ Before(out, <<msgs + 1>>)
          /\ Before(buf[next].data, <<msgs + 1>>)
      BY <1>1, <1>2, <2>2, OneRises, Zenon
    <3>3. Exclusive'
      BY <1>1, <2>1, <2>2, <2>3, <3>1, Zenon DEF Exclusive
    <3>4. Ordered'
      <4>1. \A b \in 1..2 : /\ Rising(buf'[b].data) /\ UpTo(buf'[b].data, msgs + 1)
                            /\ Before(out, buf'[b].data)
        BY <1>2, <2>2, <3>1, <3>2, Zenon
      <4>2. Before(buf'[Other(next')].data, buf'[next'].data)
        BY <2>2, <3>1, <3>2, Zenon
      <4> QED
        BY <1>1, <1>2, <4>1, <4>2, Zenon DEF Ordered
    <3> QED
      BY <2>2, <3>1, <3>3, <3>4, Zenon
  <2>7. CASE GivesUp(next, msgs + 1)
    <3>1. /\ buf'[next].st = "WRITING" /\ buf'[next].data = <<msgs + 1>>
          /\ buf'[Other(next)] = buf[Other(next)] /\ next' = next
      BY <2>2, <2>7, Zenon DEF GivesUp
    <3>2. /\ Rising(<<msgs + 1>>) /\ UpTo(<<msgs + 1>>, msgs + 1) /\ Before(out, <<msgs + 1>>)
          /\ Before(buf[Other(next)].data, <<msgs + 1>>)
      BY <1>1, <1>2, <2>2, OneRises, Zenon
    <3>3. Exclusive'
      BY <1>1, <2>1, <2>2, <2>3, <3>1, Zenon DEF Exclusive
    <3>4. Ordered'
      <4>1. \A b \in 1..2 : /\ Rising(buf'[b].data) /\ UpTo(buf'[b].data, msgs + 1)
                            /\ Before(out, buf'[b].data)
        BY <1>2, <2>2, <3>1, <3>2, Zenon
      <4>2. Before(buf'[Other(next')].data, buf'[next'].data)
        BY <2>2, <3>1, <3>2, Zenon
      <4> QED
        BY <1>1, <1>2, <4>1, <4>2, Zenon DEF Ordered
    <3> QED
      BY <2>2, <3>1, <3>3, <3>4, Zenon
  <2> QED
    BY <2>4, <2>5, <2>6, <2>7, Zenon
<1> QED
  BY <1>3, <1>4, Zenon

\* The logger takes a readable buffer, or none.
LEMMA TakeKept ==
  ASSUME Typed, Exclusive, Ordered, UNCHANGED <<inited, next, bad, msgs, out>>,
         \A b \in 1..2 :
           /\ buf'[b].data = buf[b].data
           /\ buf'[b] = buf[b] \/ (buf[b].st = "READABLE" /\ buf'[b].st = "READING")
  PROVE  Exclusive' /\ Ordered'
<1>1. CASE inited
  <2>1. /\ next \in 1..2 /\ Other(next) \in 1..2 /\ Other(next') = Other(next)
        /\ buf'[next].st = "WRITING"
        /\ buf'[Other(next)].st \in {"WRITABLE", "READABLE", "READING"}
        /\ buf'[Other(next)].st = "WRITABLE" => buf'[Other(next)].data = <<>>
    BY <1>1, Others, Zenon DEF Exclusive
  <2>2. Exclusive'
    BY <1>1, <2>1, Zenon DEF Exclusive
  <2>3. Ordered'
    BY <1>1, <2>1, Zenon DEF Ordered
  <2> QED
    BY <2>2, <2>3, Zenon
<1>2. CASE ~inited
  <2>1. \A b \in 1..2 : buf[b].st = "NOTINIT" /\ buf'[b] = buf[b]
    BY <1>2, EmptyCell, Zenon DEF Exclusive, States
  <2>2. Exclusive'
    BY <1>2, <2>1, Zenon DEF Exclusive
  <2>3. Ordered'
    BY <1>2, <2>1, Zenon DEF Ordered
  <2> QED
    BY <2>2, <2>3
<1> QED
  BY <1>1, <1>2, Zenon

\* gps_dbg_log_pingpang_write(): the messages of a buffer follow those in the files.
LEMMA WriteKept ==
  ASSUME Typed, Exclusive, Ordered, NEW t \in Threads, LoggerWrites(t)
  PROVE  Exclusive' /\ Ordered'
<1>1. PICK b \in 1..2 : /\ buf[b].st = "READING" /\ out' = out \o buf[b].data
                        /\ buf' = [buf EXCEPT ![b] = Buffer("WRITABLE")]
  BY Zenon DEF LoggerWrites
<1>2. inited
  BY <1>1, EmptyCell, Zenon DEF Exclusive, States
<1>3. /\ next \in 1..2 /\ b = Other(next) /\ b # next /\ \A c \in 1..2 : c = next \/ c = b
  BY <1>1, <1>2, Others, Zenon DEF Exclusive
<1>4. /\ inited' = inited /\ next' = next /\ msgs' = msgs
      /\ buf'[b] = Buffer("WRITABLE") /\ buf'[next] = buf[next] /\ Other(next') = b
  BY <1>1, <1>3, Zenon DEF LoggerWrites, Typed
<1>5. buf'[b].st = "WRITABLE" /\ buf'[b].data = <<>>
  BY <1>4, EmptyCell, Zenon DEF States
<1>6. "abnormal" \notin bad'
  BY Zenon DEF LoggerWrites, Stale, Exclusive
<1>7. Exclusive'
  BY <1>2, <1>3, <1>4, <1>5, <1>6, Zenon DEF Exclusive
<1>8. /\ Rising(out) /\ UpTo(out, msgs) /\ Before(out, buf[b].data) /\ Before(out, buf[next].data)
      /\ Rising(buf[b].data) /\ UpTo(buf[b].data, msgs) /\ Before(buf[b].data, buf[next].data)
      /\ Rising(buf[next].data) /\ UpTo(buf[next].data, msgs)
  BY <1>2, <1>3, Zenon DEF Ordered
<1>9. Rising(out') /\ UpTo(out', msgs) /\ Before(out', buf[next].data)
  BY <1>1, <1>3, <1>8, ConcatRises, DataTypes, Zenon
<1>10. \A c \in 1..2 : /\ Rising(buf'[c].data) /\ UpTo(buf'[c].data, msgs)
                       /\ Before(out', buf'[c].data)
  BY <1>3, <1>4, <1>5, <1>8, <1>9, EmptyRises, Zenon
<1>11. Ordered'
  BY <1>4, <1>5, <1>9, <1>10, EmptyRises, Zenon DEF Ordered
<1> QED
  BY <1>7, <1>11, Zenon

\* gps_dbg_log_pingpang_flush(): the readable buffer precedes the one being written.
LEMMA FlushKept ==
  ASSUME Typed, Exclusive, Ordered, inited, NEW t \in Threads, LoggerFlushes(t)
  PROVE  Exclusive' /\ Ordered'
<1> DEFINE first == IF buf[Other(next)].st = "READABLE" THEN buf[Other(next)].data ELSE <<>>
<1> DEFINE last == buf[next].data
<1>1. Writing = {next} /\ Cardinality(Writing) = 1
  BY WritingIsNext, Zenon
<1>2. out' = out \o Flushed /\ bad' = bad \cup Stale(t)
  BY <1>1, Zenon DEF LoggerFlushes
<1>3. Flushed = first \o last
  <2> DEFINE w == CHOOSE b \in Writing : TRUE
  <2>1. Flushed = (IF buf[Other(w)].st = "READABLE" THEN buf[Other(w)].data ELSE <<>>)
                    \o buf[w].data
    BY DEF Flushed
  <2>2. w = next
    BY <1>1, Zenon
  <2> HIDE DEF w
  <2> QED
    BY <2>1, <2>2, Zenon
<1>4. "abnormal" \notin bad'
  BY <1>2, Zenon DEF Stale, Exclusive
<1>5. /\ first \in Messages /\ last \in Messages /\ out \in Messages /\ msgs \in 0..MaxMsg
      /\ Rising(first) /\ UpTo(first, msgs) /\ Before(out, first)
      /\ Rising(last) /\ UpTo(last, msgs) /\ Before(out, last) /\ Before(first, last)
      /\ Rising(out) /\ UpTo(out, msgs)
  <2>1. next \in 1..2 /\ Other(next) \in 1..2
    BY Others, Zenon DEF Exclusive
  <2> QED
    BY <2>1, DataTypes, EmptyCell, EmptyRises, Zenon DEF Ordered
<1> HIDE DEF first, last
<1>6. first \o last \in Messages /\ Rising(first \o last) /\ UpTo(first \o last, msgs)
  BY <1>5, ConcatRises, Zenon
<1>7. Before(out, first \o last)
  <2>1. /\ Len(first) \in Nat /\ Len(last) \in Nat /\ Len(first \o last) = Len(first) + Len(last)
        /\ \A i \in 1..Len(first) : (first \o last)[i] = first[i]
        /\ \A i \in (Len(first) + 1)..(Len(first) + Len(last)) :
             (first \o last)[i] = last[i - Len(first)]
    BY <1>5, ConcatFacts DEF Messages
  <2>2. \A i \in 1..Len(first \o last) :
          \/ i \in 1..Len(first) /\ (first \o last)[i] = first[i]
          \/ i - Len(first) \in 1..Len(last) /\ (first \o last)[i] = last[i - Len(first)]
    BY <2>1
  <2> QED
    BY <1>5, <2>2, Zenon DEF Before
<1>8. Rising(out') /\ UpTo(out', msgs)
  BY <1>2, <1>3, <1>5, <1>6, <1>7, ConcatRises, Zenon
<1>9. /\ \A b \in 1..2 : buf'[b] = Buffer("NOTINIT")
      /\ next' = 0 /\ ~inited' /\ msgs' = msgs
  BY FreeFacts DEF LoggerFlushes
<1> QED
  BY <1>4, <1>8, <1>9, EmptyKept, Zenon

-----------------------------------------------------------------------------
(* Sessions. *)

LEMMA NoOverlap == Overlap = {} => "early_start" \notin Overlap /\ "early_stop" \notin Overlap
BY Zenon

\* A step of a logger thread: there is no other, and the session goes on.
LEMMA LoggerStep ==
  ASSUME Typed, OneLogger, NEW t \in Threads, Logger(t)
  PROVE  /\ log[t].pc # "none" /\ UNCHANGED <<mnl, exit, writer>>
         /\ \A u \in Threads \ {t} : log[u].pc = "none" /\ log'[u].pc = "none"
<1>1. log[t].pc # "none" /\ UNCHANGED <<mnl, exit, writer>>
  BY DEF Logger, LoggerBegins, LoggerWakes, LoggerWrites, LoggerSwitchedOff, LoggerLeaves,
     LoggerFlushes
<1>2. \A u \in Threads \ {t} : log[u].pc = "none"
  BY <1>1, Zenon DEF OneLogger, AtWork
<1>3. \A u \in Threads \ {t} : log'[u] = log[u]
  <2>1. CASE \E f \in 0..MaxFiles : Take(t, f)
    BY <2>1, TakeFacts
  <2>2. CASE \E p : log' = [log EXCEPT ![t].pc = p]
    BY <2>2 DEF Typed
  <2>3. CASE \E r : log' = [log EXCEPT ![t] = r]
    BY <2>3, Zenon DEF Typed
  <2>4. CASE LoggerWakes(t)
    <3>1. \/ Take(t, 0) \/ Take(t, file) \/ (opened < MaxFiles /\ Take(t, opened + 1))
          \/ log' = [log EXCEPT ![t] = [pc |-> "none", filp |-> 0]]
      BY <2>4, Zenon DEF LoggerWakes
    <3> QED
      BY <2>1, <2>3, <3>1, NewFile, FileTypes, ConstantTypes, Zenon
  <2>5. CASE LoggerBegins(t)
    BY <2>2, <2>5, Zenon DEF LoggerBegins
  <2>6. CASE LoggerWrites(t)
    BY <2>3, <2>6 DEF LoggerWrites
  <2>7. CASE LoggerSwitchedOff(t)
    BY <2>2, <2>3, <2>7, Zenon DEF LoggerSwitchedOff
  <2>8. CASE LoggerLeaves(t)
    BY <2>2, <2>3, <2>8, Zenon DEF LoggerLeaves
  <2>9. CASE LoggerFlushes(t)
    BY <2>3, <2>9, Zenon DEF LoggerFlushes
  <2> QED
    BY <2>4, <2>5, <2>6, <2>7, <2>8, <2>9, Zenon DEF Logger
<1> QED
  BY <1>1, <1>2, <1>3, Zenon

\* So what holds of the session after the step is to be shown of that thread alone.
LEMMA LoggerSession ==
  ASSUME Typed, OneLogger, Session, NEW t \in Threads, Logger(t), SessionOf(t)'
  PROVE  OneLogger' /\ Session'
<1>1. /\ UNCHANGED <<mnl, exit, writer>>
      /\ \A u \in Threads \ {t} : log'[u].pc = "none"
  BY LoggerStep, Zenon
<1>2. OneLogger'
  BY <1>1, Zenon DEF OneLogger, AtWork
<1>3. (exit' <=> ~mnl') /\ (~mnl' => writer' = "idle")
  BY <1>1, Zenon DEF Session
<1>4. \A u \in Threads : SessionOf(u)'
  BY <1>1, Zenon DEF SessionOf
<1> QED
  BY <1>2, <1>3, <1>4, Zenon DEF Session

LEMMA AfterLoopFacts ==
  ASSUME Session, UNCHANGED mnl, NEW t \in Threads, log'[t].pc = AfterLoop(t),
         cond'.FLUSH => ~mnl
  PROVE  SessionOf(t)'
BY Zenon DEF SessionOf, AfterLoop, Session

LEMMA LoggerKept ==
  ASSUME Typed, Orderly, NEW t \in Threads, Logger(t)
  PROVE  Orderly'
<1>1. /\ OneLogger /\ Session /\ Exclusive /\ Ordered /\ SessionOf(t)
      /\ log \in [Threads -> Places] /\ cond \in Conditions
      /\ file \in 0..MaxFiles /\ UNCHANGED <<mnl, exit>>
  BY LoggerStep, FileTypes, Zenon DEF Orderly, Typed, Session
<1>2. SUFFICES SessionOf(t)' /\ Exclusive' /\ Ordered'
  BY <1>1, LoggerSession, Zenon DEF Orderly
<1>3. [cond EXCEPT !.WRITE = FALSE].FLUSH = cond.FLUSH
  BY <1>1, SetWrite, Zenon
<1>4. AfterLoop(t) \in Pcs /\ {"none", "flush"} \subseteq Pcs
  BY DEF AfterLoop, Pcs
<1>5. \A p \in Pcs, f \in 0..MaxFiles : /\ [log EXCEPT ![t].pc = p][t].pc = p
                                        /\ [log EXCEPT ![t] = [pc |-> p, filp |-> f]][t].pc = p
  BY <1>1, PlaceFacts, Zenon
<1>6. /\ [log EXCEPT ![t].pc = AfterLoop(t)][t].pc = AfterLoop(t)
      /\ [log EXCEPT ![t] = [pc |-> AfterLoop(t), filp |-> 0]][t].pc = AfterLoop(t)
      /\ [log EXCEPT ![t].pc = "none"][t].pc = "none"
      /\ [log EXCEPT ![t] = [pc |-> "none", filp |-> 0]][t].pc = "none"
      /\ [log EXCEPT ![t] = [pc |-> "flush", filp |-> file]][t].pc = "flush"
  BY <1>1, <1>4, <1>5, ConstantTypes, Zenon
<1>7. \A p \in {"wait", "write", "flush", "drain"} : log[t].pc = p /\ cond.FLUSH => ~mnl
  BY <1>1, Zenon DEF SessionOf
<1>8. CASE LoggerBegins(t)
  <2>1. ~cond'.FLUSH
    BY <1>8, Cleared, Zenon DEF LoggerBegins
  <2>2. SessionOf(t)'
    BY <1>1, <1>6, <1>8, <2>1, AfterLoopFacts, Zenon DEF LoggerBegins
  <2>3. Exclusive' /\ Ordered'
    BY <1>1, <1>8, InitKept, Zenon DEF LoggerBegins
  <2> QED
    BY <2>2, <2>3
<1>9. CASE LoggerWakes(t)
  <2>1. cond'.FLUSH => ~mnl
    BY <1>3, <1>7, <1>9, Zenon DEF LoggerWakes
  <2>2. UNCHANGED <<inited, next, bad, msgs, out>>
    BY <1>9, Zenon DEF LoggerWakes
  <2>3. CASE \E f \in 0..MaxFiles : Take(t, f)
    <3>1. /\ \A b \in 1..2 :
               /\ buf'[b].data = buf[b].data
               /\ buf'[b] = buf[b] \/ (buf[b].st = "READABLE" /\ buf'[b].st = "READING")
          /\ \/ log'[t].pc = "write" /\ \E b \in 1..2 : buf'[b].st = "READING"
             \/ log'[t].pc = AfterLoop(t)
      BY <2>3, TakeFacts, Zenon
    <3>2. Exclusive' /\ Ordered'
      BY <1>1, <2>2, <3>1, TakeKept, Zenon
    <3>3. CASE log'[t].pc = AfterLoop(t)
      BY <1>1, <2>1, <3>2, <3>3, AfterLoopFacts, Zenon
    <3>4. CASE log'[t].pc = "write" /\ \E b \in 1..2 : buf'[b].st = "READING"
      BY <1>1, <2>1, <3>2, <3>4, Zenon DEF SessionOf
    <3> QED
      BY <3>1, <3>3, <3>4, Zenon
  <2>4. CASE log' = [log EXCEPT ![t] = [pc |-> "none", filp |-> 0]] /\ UNCHANGED buf
    <3>1. SessionOf(t)'
      BY <1>6, <2>4, Zenon DEF SessionOf
    <3> QED
      BY <1>1, <2>2, <2>4, <3>1, SameKept, Zenon DEF Exclusive
  <2> QED
    BY <1>1, <1>9, <2>3, <2>4, NewFile, ConstantTypes, Zenon DEF LoggerWakes
<1>10. CASE LoggerWrites(t)
  <2>1. SessionOf(t)'
    BY <1>1, <1>6, <1>7, <1>10, AfterLoopFacts, Zenon DEF LoggerWrites
  <2> QED
    BY <1>1, <1>10, <2>1, WriteKept, Zenon
<1>11. CASE LoggerSwitchedOff(t)
  <2>1. cond'.FLUSH => ~mnl
    BY <1>3, <1>7, <1>11, Zenon DEF LoggerSwitchedOff
  <2>2. CASE inited /\ file # 0
    <3>1. log'[t].pc = "flush" /\ UNCHANGED <<inited, next, buf, msgs, out, bad>>
      BY <1>6, <1>11, <2>2, Zenon DEF LoggerSwitchedOff
    <3>2. SessionOf(t)'
      BY <1>1, <2>1, <2>2, <3>1, Zenon DEF SessionOf
    <3> QED
      BY <1>1, <3>1, <3>2, SameKept, Zenon DEF Exclusive
  <2>3. CASE ~(inited /\ file # 0)
    <3>1. log'[t].pc = AfterLoop(t) /\ UNCHANGED <<msgs, out, bad>>
      BY <1>6, <1>11, <2>3, Zenon DEF LoggerSwitchedOff
    <3>2. SessionOf(t)'
      BY <1>1, <2>1, <3>1, AfterLoopFacts, Zenon
    <3>3. CASE FreeAndClose
      <4>1. \A b \in 1..2 : buf'[b] = Buffer("NOTINIT")
        BY <3>3, FreeFacts, Zenon
      <4>2. next' = 0 /\ ~inited'
        BY <3>3, FreeFacts, Zenon
      <4>3. /\ "abnormal" \notin bad' /\ msgs' = msgs
            /\ Rising(out') /\ UpTo(out', msgs)
        BY <1>1, <3>1, Zenon DEF Exclusive, Ordered
      <4> QED
        BY <1>1, <3>2, <4>1, <4>2, <4>3, EmptyKept, Zenon
    <3>4. CASE UNCHANGED <<inited, next, buf>>
      BY <1>1, <3>1, <3>2, <3>4, SameKept, Zenon DEF Exclusive
    <3> QED
      BY <1>11, <2>3, <3>3, <3>4, Zenon DEF LoggerSwitchedOff
  <2> QED
    BY <2>2, <2>3
<1>12. CASE LoggerLeaves(t)
  <2>1. UNCHANGED <<inited, next, buf, msgs, out, bad, cond>>
    BY <1>12, Zenon DEF LoggerLeaves
  <2>2. Exclusive' /\ Ordered'
    BY <1>1, <2>1, SameKept, Zenon DEF Exclusive
  <2>3. log'[t].pc = "none" \/ (inited /\ log'[t].pc = "flush")
    BY <1>6, <1>12, Zenon DEF LoggerLeaves
  <2>4. cond'.FLUSH => ~mnl
    BY <1>7, <1>12, <2>1, Zenon DEF LoggerLeaves
  <2>5. SessionOf(t)'
    BY <1>1, <2>1, <2>3, <2>4, Zenon DEF SessionOf
  <2> QED
    BY <2>2, <2>5
<1>13. CASE LoggerFlushes(t)
  <2>1. inited /\ (cond'.FLUSH => ~mnl)
    BY <1>1, <1>7, <1>13, Zenon DEF LoggerFlushes, SessionOf
  <2>2. SessionOf(t)'
    BY <1>1, <1>6, <1>13, <2>1, AfterLoopFacts, Zenon DEF LoggerFlushes
  <2> QED
    BY <1>1, <1>13, <2>1, <2>2, FlushKept, Zenon
<1> QED
  BY <1>8, <1>9, <1>10, <1>11, <1>12, <1>13, Zenon DEF Logger

\* Steps that leave the logger threads and the session alone.
LEMMA SessionSame ==
  ASSUME OneLogger, Session, UNCHANGED <<mnl, exit, log>>, cond'.FLUSH = cond.FLUSH,
         inited => inited', ~mnl => writer' = "idle",
         \A b \in 1..2 : buf[b].st = "READING" => buf'[b].st = "READING"
  PROVE  OneLogger' /\ Session'
<1>1. OneLogger'
  BY Zenon DEF OneLogger, AtWork
<1>2. (exit' <=> ~mnl') /\ (~mnl' => writer' = "idle")
  BY Zenon DEF Session
<1>3. \A t \in Threads : SessionOf(t)'
  BY DEF Session, SessionOf
<1> QED
  BY <1>1, <1>2, <1>3, Zenon DEF Session

LEMMA OrderlyKept ==
  ASSUME Overlap = {}, Typed, Numbered, Orderly, [Next]_vars
  PROVE  Orderly'
<1>1. OneLogger /\ Session /\ Exclusive /\ Ordered
  BY SMTT(30) DEF Orderly
<1>2. CASE UNCHANGED vars
  BY <1>1, <1>2, SessionSame, SameKept, Zenon DEF vars, Orderly, Session, Exclusive
<1>3. CASE Restart
  <2>1. /\ \A t \in Threads : log'[t].pc = "none"
        /\ (exit' <=> ~mnl') /\ writer' = "idle"
    BY <1>3, Zenon DEF Restart
  <2>2. OneLogger' /\ Session'
    BY <2>1, Zenon DEF OneLogger, AtWork, Session, SessionOf
  <2>3. /\ \A b \in 1..2 : buf'[b] = Buffer("NOTINIT")
        /\ next' = 0 /\ ~inited'
    BY <1>3, FreeFacts, Zenon DEF Restart
  <2>4. "abnormal" \notin bad' /\ msgs' = msgs /\ Rising(out') /\ UpTo(out', msgs)
    BY <1>1, <1>3, Zenon DEF Restart, Exclusive, Ordered
  <2>5. Exclusive' /\ Ordered'
    BY <1>1, <2>3, <2>4, EmptyKept, Zenon
  <2> QED
    BY <2>2, <2>5, Zenon DEF Orderly
<1>4. CASE DbgTests
  <2>1. OneLogger' /\ Session'
    BY <1>1, <1>4, SessionSame, Zenon DEF DbgTests
  <2>2. Exclusive' /\ Ordered'
    BY <1>1, <1>4, SameKept, Zenon DEF DbgTests, Exclusive
  <2> QED
    BY <2>1, <2>2, Zenon DEF Orderly
<1>5. CASE DbgCopies
  <2>1. /\ Exclusive' /\ Ordered'
        /\ \A b \in 1..2 : buf[b].st = "READING" => buf'[b].st = "READING"
    BY <1>1, <1>5, CopyKept, Zenon
  <2>2. cond'.FLUSH = cond.FLUSH
    <3>1. CASE UNCHANGED cond
      BY <3>1, Zenon
    <3>2. CASE \E b \in Writing : CopyInto(b, msgs + 1)
      <4>1. PICK b \in Writing : CopyInto(b, msgs + 1)
        BY <3>2, Zenon
      <4>2. b \in 1..2 /\ msgs + 1 \in 1..MaxMsg
        BY <1>5, ConstantTypes, SMTT(30) DEF Writing, Typed, Numbered, DbgCopies
      <4> QED
        BY <4>1, <4>2, CopyFacts, Zenon
    <3> QED
      BY <1>5, <3>1, <3>2, Zenon DEF DbgCopies
  <2>3. OneLogger' /\ Session'
    BY <1>1, <1>5, <2>1, <2>2, SessionSame, Zenon DEF DbgCopies
  <2> QED
    BY <2>1, <2>3, Zenon DEF Orderly
<1>6. CASE deep_start
  <2>1. /\ Exclusive' /\ Ordered' /\ (inited => inited')
        /\ \A b \in 1..2 : buf[b].st = "READING" => buf'[b].st = "READING"
    <3>1. CASE InitUnlessDone(TRUE)
      BY <1>1, <1>6, <3>1, InitKept, Zenon DEF deep_start
    <3>2. CASE UNCHANGED <<inited, next, buf>>
      BY <1>1, <1>6, <3>2, SameKept, Zenon DEF deep_start, Exclusive
    <3> QED
      BY <1>6, <3>1, <3>2, Zenon DEF deep_start
  <2>2. OneLogger' /\ Session'
    BY <1>1, <1>6, <2>1, SessionSame, Zenon DEF deep_start, Session
  <2> QED
    BY <2>1, <2>2, Zenon DEF Orderly
<1>7. CASE deep_stop
  <2>1. OneLogger' /\ Session'
    BY <1>1, <1>7, SessionSame, Zenon DEF deep_stop, Session
  <2>2. Exclusive' /\ Ordered'
    BY <1>1, <1>7, SameKept, Zenon DEF deep_stop, Exclusive
  <2> QED
    BY <2>1, <2>2, Zenon DEF Orderly
<1>8. ASSUME NEW t \in Threads, gps_dbg_log_thread_init(t) PROVE Orderly'
  <2>1. /\ ~mnl /\ mnl' /\ ~exit' /\ writer' = writer
        /\ \A u \in Threads : log[u].pc = "none"
    BY <1>8, NoOverlap, Zenon DEF gps_dbg_log_thread_init
  <2>2. log'[t].pc = "init" /\ \A u \in Threads \ {t} : log'[u].pc = "none"
    BY <1>8, <2>1, Zenon DEF gps_dbg_log_thread_init, Typed
  <2>3. OneLogger' /\ Session'
    BY <2>1, <2>2, Zenon DEF OneLogger, AtWork, Session, SessionOf
  <2>4. Exclusive' /\ Ordered'
    BY <1>1, <1>8, SameKept, Zenon DEF gps_dbg_log_thread_init, Exclusive
  <2> QED
    BY <2>3, <2>4, Zenon DEF Orderly
<1>9. CASE gps_stop_dbglog_release_condition
  <2>1. /\ ~mnl' /\ exit' /\ writer' = "idle" /\ UNCHANGED <<log, inited, buf>>
        /\ \A u \in Threads : log[u].pc # "init"
    BY <1>9, NoOverlap, Zenon DEF gps_stop_dbglog_release_condition
  <2>2. OneLogger'
    BY <1>1, <2>1, Zenon DEF OneLogger, AtWork
  <2>3. Session'
    BY <1>1, <2>1, Zenon DEF Session, SessionOf
  <2>4. Exclusive' /\ Ordered'
    BY <1>1, <1>9, SameKept, Zenon DEF gps_stop_dbglog_release_condition, Exclusive
  <2> QED
    BY <2>2, <2>3, <2>4, Zenon DEF Orderly
<1>10. ASSUME NEW t \in Threads, Logger(t) PROVE Orderly'
  BY <1>10, LoggerKept
<1> QED
  BY <1>2, <1>3, <1>4, <1>5, <1>6, <1>7, <1>8, <1>9, <1>10, Zenon DEF Next

-----------------------------------------------------------------------------
(* The theorems. *)

LEMMA InitHolds == Init => IInv
<1> SUFFICES ASSUME Init PROVE IInv
  BY Zenon
<1>1. /\ buf \in [1..2 -> Cells] /\ \A b \in 1..2 : buf[b] = Buffer("NOTINIT")
      /\ \A b \in 1..2 : buf[b].data = <<>>
  BY EmptyCell, Zenon DEF Init, States
<1>2. /\ log \in [Threads -> Places] /\ \A t \in Threads : log[t].pc = "none"
  BY ConstantTypes, Zenon DEF Init, Places, Pcs
<1>3. Typed
  <2>1. mnl \in BOOLEAN /\ dbg \in BOOLEAN /\ exit \in BOOLEAN /\ inited \in BOOLEAN
    BY Zenon DEF Init
  <2>2. next \in 0..2 /\ opened \in 0..MaxFiles /\ file \in 0..opened /\ msgs \in 0..MaxMsg
    BY ConstantTypes, SMTT(30) DEF Init
  <2>3. cond \in Conditions /\ writer \in {"idle", "copy"} /\ out \in Messages
        /\ bad \subseteq Abnormal
    BY Cleared, EmptyCell, Zenon DEF Init
  <2> QED
    BY <1>1, <1>2, <2>1, <2>2, <2>3, Zenon DEF Typed
<1>4. OneLogger /\ Session
  BY <1>2, Zenon DEF Init, OneLogger, AtWork, Session, SessionOf
<1>5. Exclusive
  BY <1>1, Zenon DEF Init, Exclusive
<1>6. Ordered
  BY <1>1, EmptyRises, Zenon DEF Init, Ordered
<1>7. Numbered
  BY DEF Init, Numbered
<1> QED
  BY <1>3, <1>4, <1>5, <1>6, <1>7, TypesBack, Zenon DEF IInv, Orderly

LEMMA NextHolds == IInv /\ [Next]_vars => IInv'
<1> SUFFICES ASSUME IInv, [Next]_vars PROVE IInv'
  OBVIOUS
<1>1. Typed /\ Numbered
  BY Types, Zenon DEF IInv
<1>2. TypeOK' /\ Numbered'
  BY <1>1, TypeKept, TypesNext, NumberedKept, Zenon
<1>3. Overlap = {} => Orderly'
  BY <1>1, OrderlyKept, Zenon DEF IInv
<1> QED
  BY <1>2, <1>3, Zenon DEF IInv

\* The invariant is inductive: whatever MNL, mtklogger, the control thread and the
\* logger threads do, messages are numbered when they are copied, and as long as
\* sessions do not overlap with their logger there is one logger, one buffer being
\* written, and an order of the messages from the files to that buffer.
THEOREM Invariance == Spec => []IInv
<1>1. Init => IInv
  BY InitHolds
<1>2. IInv /\ [Next]_vars => IInv'
  BY NextHolds
<1> QED
  BY <1>1, <1>2, PTL DEF Spec

\* The variables keep their types, and the buffers of gps_dbg_log.c hold no more than
\* their capacity, however far sessions overlap with their logger.
THEOREM TypeCorrect == Spec => []TypeOK
<1>1. IInv => TypeOK
  BY DEF IInv
<1> QED
  BY <1>1, Invariance, PTL

\* When no session is stopped before its logger thread has begun and none is started
\* before the last logger has ended, MNL and the logger never use the same buffer, and
\* neither "abnormal happens" of gps_dbg_log_pingpang_copy() and _flush() is reached.
THEOREM BuffersExclusiveHolds ==
  ASSUME Overlap = {}
  PROVE  Spec => []BuffersExclusive
<1>1. IInv => BuffersExclusive
  <2> SUFFICES ASSUME IInv PROVE BuffersExclusive
    OBVIOUS
  <2>1. Exclusive /\ Session
    BY Zenon DEF IInv, Orderly
  <2>2. "abnormal" \notin bad /\ (inited => Writing = {next})
    BY <2>1, WritingIsNext, Zenon DEF Exclusive
  <2>3. \A t \in Threads : log[t].pc = "write" => \E b \in 1..2 : buf[b].st = "READING"
    BY <2>1, Zenon DEF Session, SessionOf
  <2> QED
    BY <2>2, <2>3, Zenon DEF BuffersExclusive
<1> QED
  BY <1>1, Invariance, PTL

\* Under the same condition the files hold the messages in the order in which MNL
\* produced them, over any number of sessions, of files and of restarts of mnld.
THEOREM LogInOrderHolds ==
  ASSUME Overlap = {}
  PROVE  Spec => []LogInOrder
<1>1. IInv => LogInOrder
  <2> SUFFICES ASSUME IInv PROVE LogInOrder
    OBVIOUS
  <2>1. Rising(out) /\ out \in Messages /\ Len(out) \in Nat
    BY Types, IndexType, Zenon DEF IInv, Orderly, Ordered, Typed
  <2> QED
    BY <2>1, SMTT(30) DEF LogInOrder, Rising
<1> QED
  BY <1>1, Invariance, PTL

\* Under the same condition gps_dbg_log_pingpang_flush() never takes next_write away
\* from an MNL that is in the middle of a copy: a thread that has begun sees FLUSH only
\* after MNL has been stopped.
THEOREM NotCopiedAgainHolds ==
  ASSUME Overlap = {}
  PROVE  Spec => NotCopiedAgain
<1> DEFINE A == \A t \in Threads : log[t].pc = "flush" /\ log'[t].pc # "flush"
                                   => writer = "idle" \/ ~Alive
<1>1. IInv /\ [Next]_vars => [A]_vars
  <2> SUFFICES ASSUME IInv, Next, NEW t \in Threads, log[t].pc = "flush", log'[t].pc # "flush"
               PROVE  writer = "idle" \/ ~Alive
    BY Zenon
  <2>1. Typed /\ OneLogger /\ Session /\ SessionOf(t)
    BY Types, Zenon DEF IInv, Orderly, Session
  <2>2. CASE cond.FLUSH
    BY <2>1, <2>2, Zenon DEF Session, SessionOf
  <2>3. CASE Restart
    BY <2>3, Zenon DEF Restart, Alive
  <2>4. CASE UNCHANGED log
    BY <2>4, Zenon
  <2>5. ASSUME NEW u \in Threads, gps_dbg_log_thread_init(u) PROVE FALSE
    BY <2>5, NoOverlap, Zenon DEF gps_dbg_log_thread_init
  <2>6. ASSUME NEW u \in Threads, Logger(u) PROVE cond.FLUSH
    <3>1. u = t
      BY <2>1, <2>6, LoggerStep, Zenon
    <3> QED
      BY <2>6, <3>1, Zenon DEF Logger, LoggerBegins, LoggerWakes, LoggerWrites,
         LoggerSwitchedOff,
         LoggerLeaves, LoggerFlushes
  <2> QED
    BY <2>2, <2>3, <2>4, <2>5, <2>6, Zenon DEF Next, DbgTests, DbgCopies, deep_start,
       deep_stop,
       gps_stop_dbglog_release_condition
<1>2. Spec => [][A]_vars
  BY <1>1, Invariance, PTL DEF Spec
<1> QED
  BY <1>2, SMTT(30) DEF NotCopiedAgain
-----------------------------------------------------------------------------
(* Why a logger that was told to exit can end. *)

\* A logger that was told to exit finds what it waits for released: WRITE at the head
\* of its loop, FLUSH in gps_dbg_log_pingpang_flush(), and also when it comes to the
\* flush only later.
EndReleased ==
  exit => \A t \in Threads : /\ log[t].pc = "wait" => cond.WRITE
                             /\ log[t].pc \notin {"none", "init"} => cond.FLUSH

LEMMA BothReleased ==
  LET c == [k \in {"WRITE", "FLUSH"} |-> TRUE] IN c.WRITE = TRUE /\ c.FLUSH = TRUE
OBVIOUS

\* Steps that take back no release and leave the threads alone.
LEMMA ReleasedSame ==
  ASSUME EndReleased, UNCHANGED <<exit, log>>, cond.WRITE => cond'.WRITE, cond.FLUSH => cond'.FLUSH
  PROVE  EndReleased'
<1>1. SUFFICES ASSUME exit', NEW t \in Threads
               PROVE  /\ log'[t].pc = "wait" => cond'.WRITE
                      /\ log'[t].pc \notin {"none", "init"} => cond'.FLUSH
  BY Zenon DEF EndReleased
<1>2. exit /\ log'[t] = log[t]
  BY <1>1
<1>3. /\ log[t].pc = "wait" => cond.WRITE
      /\ log[t].pc \notin {"none", "init"} => cond.FLUSH
  BY <1>2, Zenon DEF EndReleased
<1> QED
  BY <1>2, <1>3, Zenon

\* A logger that was told to exit does not wait for WRITE again, and takes no FLUSH back.
LEMMA LoggerEndsLoop ==
  ASSUME Typed, NEW t \in Threads, Logger(t), exit, log[t].pc # "init"
  PROVE  log'[t].pc # "wait" /\ (cond.FLUSH => cond'.FLUSH)
<1>1. log \in [Threads -> Places] /\ cond \in Conditions /\ file \in 0..MaxFiles
  BY FileTypes, Zenon DEF Typed
<1>2. [cond EXCEPT !.WRITE = FALSE].FLUSH = cond.FLUSH
  BY <1>1, SetWrite, Zenon
<1>3. AfterLoop(t) = "drain" /\ AfterLoop(t) \in Pcs /\ {"none", "flush"} \subseteq Pcs
  BY DEF AfterLoop, Pcs
<1>4. \A p \in Pcs, f \in 0..MaxFiles : /\ [log EXCEPT ![t].pc = p][t].pc = p
                                        /\ [log EXCEPT ![t] = [pc |-> p, filp |-> f]][t].pc = p
  BY <1>1, PlaceFacts, Zenon
<1>5. /\ [log EXCEPT ![t].pc = AfterLoop(t)][t].pc = "drain"
      /\ [log EXCEPT ![t] = [pc |-> AfterLoop(t), filp |-> 0]][t].pc = "drain"
      /\ [log EXCEPT ![t].pc = "none"][t].pc = "none"
      /\ [log EXCEPT ![t] = [pc |-> "none", filp |-> 0]][t].pc = "none"
      /\ [log EXCEPT ![t] = [pc |-> "flush", filp |-> file]][t].pc = "flush"
  BY <1>1, <1>3, <1>4, ConstantTypes, Zenon
<1>6. \A f \in 0..MaxFiles : Take(t, f) => log'[t].pc \in {"write", "drain"}
  BY <1>1, <1>3, TakeFacts, Zenon
<1>7. CASE LoggerWakes(t)
  <2>1. \/ Take(t, 0) \/ Take(t, file) \/ (opened < MaxFiles /\ Take(t, opened + 1))
        \/ log' = [log EXCEPT ![t] = [pc |-> "none", filp |-> 0]]
    BY <1>7, Zenon DEF LoggerWakes
  <2>2. log'[t].pc \in {"write", "drain", "none"}
    BY <1>1, <1>5, <1>6, <2>1, NewFile, ConstantTypes, Zenon
  <2> QED
    BY <1>2, <1>7, <2>2, Zenon DEF LoggerWakes
<1>8. CASE LoggerSwitchedOff(t)
  BY <1>2, <1>5, <1>8, Zenon DEF LoggerSwitchedOff
<1>9. CASE LoggerWrites(t)
  BY <1>5, <1>9, Zenon DEF LoggerWrites
<1>10. CASE LoggerLeaves(t)
  BY <1>5, <1>10, Zenon DEF LoggerLeaves
<1>11. CASE LoggerFlushes(t)
  BY <1>5, <1>11, Zenon DEF LoggerFlushes
<1> QED
  BY <1>7, <1>8, <1>9, <1>10, <1>11, Zenon DEF Logger, LoggerBegins

LEMMA EndStaysReleased ==
  ASSUME Overlap = {}, IInv, EndReleased, [Next]_vars
  PROVE  EndReleased'
<1>1. Typed /\ Numbered /\ OneLogger /\ Session /\ cond \in Conditions
  BY Types, Zenon DEF IInv, Orderly, Typed
<1>2. CASE UNCHANGED vars \/ DbgTests \/ deep_start \/ deep_stop
  <2>1. UNCHANGED <<exit, log, cond>>
    BY <1>2, Zenon DEF vars, DbgTests, deep_start, deep_stop
  <2> QED
    BY <2>1, ReleasedSame
<1>3. CASE Restart
  BY <1>3, Zenon DEF Restart, EndReleased
<1>4. CASE DbgCopies
  <2>1. cond' = cond \/ cond' = [cond EXCEPT !.WRITE = TRUE]
    BY <1>4, Zenon DEF DbgCopies, CopyInto
  <2>2. [cond EXCEPT !.WRITE = TRUE].WRITE = TRUE /\ [cond EXCEPT !.WRITE = TRUE].FLUSH = cond.FLUSH
    BY <1>1, Zenon DEF Conditions
  <2>3. (cond.WRITE => cond'.WRITE) /\ (cond.FLUSH => cond'.FLUSH)
    BY <2>1, <2>2, Zenon
  <2>4. UNCHANGED <<exit, log>>
    BY <1>4, Zenon DEF DbgCopies
  <2> QED
    BY <2>3, <2>4, ReleasedSame
<1>5. ASSUME NEW t \in Threads, gps_dbg_log_thread_init(t) PROVE EndReleased'
  BY <1>5, Zenon DEF gps_dbg_log_thread_init, EndReleased
<1>6. CASE gps_stop_dbglog_release_condition
  <2>1. ~exit
    BY <1>1, <1>6, Zenon DEF gps_stop_dbglog_release_condition, Session
  <2>2. cond' = [c \in {"WRITE", "FLUSH"} |-> TRUE]
    BY <1>6, <2>1, Zenon DEF gps_stop_dbglog_release_condition
  <2>3. cond'.WRITE /\ cond'.FLUSH
    BY <2>2, BothReleased, Zenon
  <2> QED
    BY <2>3, Zenon DEF EndReleased
<1>7. ASSUME NEW t \in Threads, Logger(t) PROVE EndReleased'
  <2>1. SUFFICES ASSUME exit PROVE EndReleased'
    <3>1. exit' = exit
      BY <1>1, <1>7, LoggerStep, Zenon
    <3> QED
      BY <3>1, Zenon DEF EndReleased
  <2>2. /\ log[t].pc \notin {"none", "init"}
        /\ \A u \in Threads \ {t} : log'[u].pc = "none"
    BY <1>1, <1>7, <2>1, LoggerStep, Zenon DEF Session, SessionOf
  <2>3. log'[t].pc # "wait" /\ cond'.FLUSH
    BY <1>1, <1>7, <2>1, <2>2, LoggerEndsLoop, Zenon DEF EndReleased
  <2> QED
    BY <2>2, <2>3, Zenon DEF EndReleased
<1> QED
  BY <1>2, <1>3, <1>4, <1>5, <1>6, <1>7, Zenon DEF Next

\* When sessions do not overlap with their logger, a logger that was told to exit is
\* never blocked on a condition that nobody releases any more (gps_dbg_log.c:359), the
\* safety half of LoggerEnds.
THEOREM EndReleasedHolds ==
  ASSUME Overlap = {}
  PROVE  Spec => []EndReleased
<1>1. Init => EndReleased
  <2>1. SUFFICES ASSUME Init PROVE EndReleased
    OBVIOUS
  <2>2. log = [t \in Threads |-> [pc |-> "none", filp |-> 0]]
    BY <2>1, Zenon DEF Init
  <2>3. \A t \in Threads : log[t].pc = "none"
    BY <2>2
  <2> QED
    BY <2>3, Zenon DEF EndReleased
<1>2. IInv /\ EndReleased /\ [Next]_vars => EndReleased'
  BY EndStaysReleased, Zenon
<1> QED
  BY <1>1, <1>2, Invariance, PTL DEF Spec
=============================================================================
