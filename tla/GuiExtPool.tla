----------------------------- MODULE GuiExtPool -----------------------------
(***************************************************************************)
(* The buffer pool of the GuiExt service (GuiExtImpl.cpp) and the consumer *)
(* side of its client library (GuiExtClientConsumer.cpp).  A producer      *)
(* (video playback) allocates pool items; consumers (the hardware          *)
(* composer) acquire buffers of them, one queue per display type.  The     *)
(* calls of the service hold mLock; the observers that clean up after a    *)
(* dead process do not, and are split where another thread can come in.    *)
(***************************************************************************)
EXTENDS Integers, FiniteSets, FiniteSetsExt

CONSTANTS
  Producers, Consumers,   \* client processes, by the binder token they pass
  NumTypes,               \* display types 0..NumTypes-1; 0 is the primary one
  BufNum,                 \* buffers of a queue
  MaxAlloc,               \* MAX_ALLOC_SIZE
  None,                   \* no token
  MaxCalls                \* bound: calls of alloc() and configDisplay()

ASSUME PoolConstants ==
  /\ NumTypes \in Nat \ {0} /\ BufNum \in Nat \ {0} /\ MaxAlloc \in Nat \ {0}
  /\ None \notin Producers \cup Consumers

Ids == 1..MaxAlloc
Types == 0..(NumTypes - 1)

\* A buffer of an item, numbered as the slots are sorted: by type, then by index.
Bufs == 0..(NumTypes * BufNum - 1)
TypeOf(b) == b \div BufNum
BufsOf(types) == {b \in Bufs : TypeOf(b) \in types}

VARIABLES
  mPoolList,       \* the items, by id
  mPoolId,         \* the id given last
  mDisplayList,    \* configured display types
  alive,           \* the processes that have not died
  client,          \* GuiExtClientConsumer of each consumer
  cobs,            \* the observer that runs for a dead consumer
  pobs,            \* the observer that runs for a dead producer
  calls            \* calls of alloc() and configDisplay() so far

vars == <<mPoolList, mPoolId, mDisplayList, alive, client, cobs, pobs, calls>>

\* GuiExtPoolItem: the tokens and mIsHwcNeeded; token of each consumer slot; the
\* buffers dequeued from the queues; whether mIsDisconnected[HWC] is false.  The
\* queue of the GPU is never created, so the other usage has no buffers.
\* History: users are the consumers that still have to disconnect or to be cleaned
\* up after; left, a consumer disconnected after the last acquire; raced, a call
\* came into the middle of an observer's cleaning.
Items ==
  [prod : Producers \cup {None}, obs : Producers, hwc : BOOLEAN,
   slot : UNION {[BufsOf(ts) -> Consumers \cup {None}] : ts \in SUBSET Types},
   out : SUBSET Bufs, conn : BOOLEAN,
   users : SUBSET Consumers, left : BOOLEAN, raced : BOOLEAN]

\* mSlots and isAcquired, and the service call that the client has to make next.
Clients ==
  [slots : SUBSET (Ids \X Bufs), acquired : SUBSET (Ids \X Bufs),
   pc : {"idle", "request", "disconnect"}, id : Ids, b : Bufs]
Idle == [slots |-> {}, acquired |-> {}, pc |-> "idle", id |-> 1, b |-> 0]

ConsumerObservers ==
  [pc : {"next", "compare", "cancel", "clear", "flag", "scan", "mark", "remove"},
   id : Ids, at : 0..(NumTypes * BufNum), found : BOOLEAN]
NoCleaning == [pc |-> "next", id |-> 1, at |-> 0, found |-> FALSE]
ProducerObservers ==
  [pc : {"next", "compare", "remove"}, todo : SUBSET Ids, i : 0..(MaxAlloc - 1)]

TypeOK ==
  /\ DOMAIN mPoolList \subseteq Ids
  /\ \A id \in DOMAIN mPoolList :
       /\ mPoolList[id] \in Items
       /\ mPoolList[id].out \subseteq DOMAIN mPoolList[id].slot
  /\ mPoolId \in 0..MaxAlloc /\ mDisplayList \in SUBSET Types
  /\ alive \in SUBSET (Producers \cup Consumers)
  /\ client \in [Consumers -> Clients]
  /\ \A c \in Consumers : client[c].acquired \subseteq client[c].slots
  /\ cobs \in [Consumers -> ConsumerObservers]
  /\ pobs \in [Producers -> ProducerObservers] /\ calls \in Nat

Init ==
  /\ mPoolList = [id \in {} |-> 0] /\ mPoolId = 0 /\ mDisplayList = {}
  /\ alive = Producers \cup Consumers
  /\ client = [c \in Consumers |-> Idle]
  /\ cobs = [c \in Consumers |-> NoCleaning]
  /\ pobs = [p \in Producers |-> [pc |-> "next", todo |-> {}, i |-> 0]]
  /\ calls = 0

-----------------------------------------------------------------------------
(* The list of items. *)

\* A change of the list.  An observer whose item is gone goes on with freed
\* memory: either the process crashes or nothing in the list changes any more.  A
\* change under an observer that walks the list by index is recorded.
Update(pool, co, self) ==
  LET shifted == /\ DOMAIN pool # DOMAIN mPoolList
                 /\ \E p \in Producers \ {self} : pobs[p].pc # "next"
  IN /\ mPoolList' = [id \in DOMAIN pool |->
                        [pool[id] EXCEPT !.raced = @ \/ shifted]]
     /\ cobs' = [c \in Consumers |->
                   IF co[c].pc # "next" /\ co[c].id \notin DOMAIN pool THEN NoCleaning ELSE co[c]]

\* removePoolItemLocked()
Unused_ProducerOnly(item) == item.prod = None
Unused(item) == ~item.conn /\ item.prod = None
removePoolItemLocked(pool, id) ==
  IF id \in DOMAIN pool /\ Unused(pool[id])
  THEN [j \in DOMAIN pool \ {id} |-> pool[j]] ELSE pool

\* getPoolId(): the next id, cyclically, that no item has.
Cyclic_FromZero(n) == n % MaxAlloc
Cyclic(n) == IF n % MaxAlloc = 0 THEN MaxAlloc ELSE n % MaxAlloc
getPoolId ==
  Cyclic(mPoolId + Min({k \in Ids : Cyclic(mPoolId + k) \notin DOMAIN mPoolList}))

\* alloc(): the primary display is configured when the list is empty; an item
\* for the composer has a queue for every display configured at this moment.
alloc(p, hwc) ==
  LET displays == IF DOMAIN mPoolList = {} THEN mDisplayList \cup {0} ELSE mDisplayList
      item == [prod |-> p, obs |-> p, hwc |-> hwc,
               slot |-> [b \in BufsOf(IF hwc THEN displays ELSE {}) |-> None],
               out |-> {}, conn |-> FALSE, users |-> {}, left |-> FALSE, raced |-> FALSE]
  IN /\ p \in alive /\ Cardinality(DOMAIN mPoolList) < MaxAlloc
     /\ calls < MaxCalls /\ calls' = calls + 1
     /\ mDisplayList' = displays
     /\ mPoolId' = getPoolId
     /\ Update([id \in DOMAIN mPoolList \cup {getPoolId} |->
                  IF id = getPoolId THEN item ELSE mPoolList[id]], cobs, None)
     /\ UNCHANGED <<alive, client, pobs>>

free(p, id) ==
  /\ p \in alive /\ id \in DOMAIN mPoolList /\ mPoolList[id].prod = p
  /\ Update(removePoolItemLocked([mPoolList EXCEPT ![id].prod = None], id), cobs, None)
  /\ UNCHANGED <<mPoolId, mDisplayList, alive, client, pobs, calls>>

\* configDisplay(), which no lock protects.
configDisplay(t, enable) ==
  /\ calls < MaxCalls /\ calls' = calls + 1
  /\ mDisplayList' = IF enable THEN mDisplayList \cup {t} ELSE mDisplayList \ {t}
  /\ mDisplayList' # mDisplayList
  /\ UNCHANGED <<mPoolList, mPoolId, alive, client, cobs, pobs>>

-----------------------------------------------------------------------------
(* Calls of a consumer on an item. *)

Free(id, t) ==
  IF id \in DOMAIN mPoolList
  THEN {b \in DOMAIN mPoolList[id].slot : TypeOf(b) = t} \ mPoolList[id].out ELSE {}

\* An observer has decided to clean b, and has not done so yet.
BeingCleaned(id, b) ==
  \E d \in Consumers : cobs[d].pc \in {"cancel", "clear"} /\ cobs[d].id = id /\ cobs[d].at = b

\* An observer has seen a token and is about to reset the flag of its usage.
BeingMarked(id) == \E d \in Consumers : cobs[d].pc = "mark" /\ cobs[d].id = id

\* GuiExtPoolItem::acquire(): the slot is taken over unless it still has a token.
Acquired(item, c, b, cleaning) ==
  [item EXCEPT !.out = @ \cup {b}, !.slot[b] = IF @ = None THEN c ELSE @, !.conn = TRUE,
               !.users = @ \cup {c}, !.left = FALSE, !.raced = @ \/ cleaning]

\* GuiExtPoolItem::release(), whoever calls it.
Released_KeepsToken(item, b) == [item EXCEPT !.out = @ \ {b}]
Released(item, b) ==
  IF b \in DOMAIN item.slot
  THEN [item EXCEPT !.out = @ \ {b}, !.slot[b] = None] ELSE item
ReleasedIn(pool, id, b) ==
  IF id \in DOMAIN pool THEN [pool EXCEPT ![id] = Released(@, b)] ELSE pool

\* GuiExtPoolItem::disconnect(): the flag is kept per usage, not per display type.
Disconnected(item, c, marking) ==
  IF item.hwc
  THEN [item EXCEPT !.conn = FALSE, !.left = TRUE, !.raced = @ \/ marking,
                    !.users = IF \E b \in DOMAIN item.slot : item.slot[b] = c
                              THEN @ ELSE @ \ {c}]
  ELSE item

-----------------------------------------------------------------------------
(* GuiExtClientConsumer. *)

\* acquire(): the service hands out a buffer, which is requested from it unless
\* the client has it in its list already.
ClientAcquires(c, id, b) ==
  /\ c \in alive /\ client[c].pc = "idle" /\ b \in Free(id, TypeOf(b))
  /\ Update([mPoolList EXCEPT ![id] = Acquired(@, c, b, BeingCleaned(id, b))], cobs, None)
  /\ client' = IF <<id, b>> \in client[c].slots THEN client
               ELSE [client EXCEPT ![c].pc = "request", ![c].id = id, ![c].b = b]
  /\ UNCHANGED <<mPoolId, mDisplayList, alive, pobs, calls>>

\* request(), and the new entry of the list; the item may be gone by now.
ClientRequests(c) ==
  LET k == <<client[c].id, client[c].b>>
      ok == client[c].id \in DOMAIN mPoolList
            /\ \E b \in DOMAIN mPoolList[client[c].id].slot : TypeOf(b) = TypeOf(client[c].b)
  IN /\ client[c].pc = "request"
     /\ client' = [client EXCEPT ![c] =
                     [Idle EXCEPT !.slots = client[c].slots \cup IF ok THEN {k} ELSE {},
                                  !.acquired = client[c].acquired \cup IF ok THEN {k} ELSE {}]]
     /\ UNCHANGED <<mPoolList, mPoolId, mDisplayList, alive, cobs, pobs, calls>>

\* acquire() that the service refuses: a released buffer of the list is used.
ClientFallsBack(c, id, t) ==
  LET spare == {b \in BufsOf({t}) : <<id, b>> \in client[c].slots \ client[c].acquired}
  IN /\ c \in alive /\ client[c].pc = "idle" /\ Free(id, t) = {} /\ spare # {}
     /\ client' = [client EXCEPT ![c].acquired = @ \cup {<<id, Min(spare)>>}]
     /\ UNCHANGED <<mPoolList, mPoolId, mDisplayList, alive, cobs, pobs, calls>>

\* release() of a buffer in the list, acquired or not.
ClientReleases(c, id, b) ==
  /\ c \in alive /\ client[c].pc = "idle" /\ <<id, b>> \in client[c].slots
  /\ client' = [client EXCEPT ![c].acquired = @ \ {<<id, b>>}]
  /\ Update(ReleasedIn(mPoolList, id, b), cobs, None)
  /\ UNCHANGED <<mPoolId, mDisplayList, alive, pobs, calls>>

\* disconnect() of a display type with buffers in the list: those that are
\* acquired are released one by one, with pc = "disconnect" in between and b the
\* first buffer of the type; the last call disconnects.
Dropped(id, t) == {id} \X BufsOf({t})
Disconnecting(c, id, t) ==
  \/ c \in alive /\ client[c].pc = "idle" /\ client[c].slots \cap Dropped(id, t) # {}
  \/ client[c].pc = "disconnect" /\ client[c].id = id /\ TypeOf(client[c].b) = t

ClientGivesBack(c, id, t) ==
  LET bs == {b \in BufsOf({t}) : <<id, b>> \in client[c].acquired}
      k == <<id, Max(bs)>>
  IN /\ Disconnecting(c, id, t) /\ bs # {}
     /\ client' = [client EXCEPT ![c] = [slots |-> @.slots \ {k}, acquired |-> @.acquired \ {k},
                                        pc |-> "disconnect", id |-> id, b |-> t * BufNum]]
     /\ Update(ReleasedIn(mPoolList, id, Max(bs)), cobs, None)
     /\ UNCHANGED <<mPoolId, mDisplayList, alive, pobs, calls>>

ClientLeaves(c, id, t) ==
  LET pool == IF id \in DOMAIN mPoolList
              THEN [mPoolList EXCEPT ![id] = Disconnected(@, c, BeingMarked(id))] ELSE mPoolList
  IN /\ Disconnecting(c, id, t) /\ client[c].acquired \cap Dropped(id, t) = {}
     /\ client' = [client EXCEPT ![c] = [Idle EXCEPT !.slots = client[c].slots \ Dropped(id, t),
                                                     !.acquired = client[c].acquired]]
     /\ Update(removePoolItemLocked(pool, id), cobs, None)
     /\ UNCHANGED <<mPoolId, mDisplayList, alive, pobs, calls>>

-----------------------------------------------------------------------------
(* ConsumerDeathObserver. *)
ConsumerDies(c) ==
  /\ c \in alive
  /\ alive' = alive \ {c}
  /\ client' = [client EXCEPT ![c] = Idle]
  /\ UNCHANGED <<mPoolList, mPoolId, mDisplayList, cobs, pobs, calls>>

\* A slot keeps the observer of its token alive.
ObserverBegins(d, id) ==
  /\ d \notin alive /\ cobs[d].pc = "next" /\ id \in DOMAIN mPoolList
  /\ \E b \in DOMAIN mPoolList[id].slot : mPoolList[id].slot[b] = d
  /\ cobs' = [cobs EXCEPT ![d] = [pc |-> "compare", id |-> id, at |-> 0, found |-> FALSE]]
  /\ UNCHANGED <<mPoolList, mPoolId, mDisplayList, alive, client, pobs, calls>>

\* The slots are walked in order; at is the one to look at.  A slot without the
\* dead token never gets it again, so the walk to the next one that has it is a step.
Item(d) == mPoolList[cobs[d].id]
Behind(d) == \A b \in DOMAIN Item(d).slot : b < cobs[d].at
HasToken_Any(d) == cobs[d].at \in DOMAIN Item(d).slot
HasToken(d) == cobs[d].at \in DOMAIN Item(d).slot /\ Item(d).slot[cobs[d].at] # None
Goes(d, pc, at) == [cobs EXCEPT ![d].pc = pc, ![d].at = at]

ObserverCompares(d) ==
  LET matching == {b \in DOMAIN Item(d).slot : b >= cobs[d].at /\ Item(d).slot[b] = d}
  IN /\ cobs[d].pc = "compare"
     /\ cobs' = IF matching = {} THEN Goes(d, "flag", 0) ELSE Goes(d, "cancel", Min(matching))
     /\ UNCHANGED <<mPoolList, mPoolId, mDisplayList, alive, client, pobs, calls>>

\* release() returns the buffer to its queue first and clears the slot afterwards.
ObserverCancels(d) ==
  /\ cobs[d].pc = "cancel"
  /\ Update([mPoolList EXCEPT ![cobs[d].id].out = @ \ {cobs[d].at}],
            Goes(d, "clear", cobs[d].at), None)
  /\ UNCHANGED <<mPoolId, mDisplayList, alive, client, pobs, calls>>

ObserverClears(d) ==
  /\ cobs[d].pc = "clear"
  /\ Update([mPoolList EXCEPT ![cobs[d].id].slot[cobs[d].at] = None],
            Goes(d, "compare", cobs[d].at + 1), None)
  /\ UNCHANGED <<mPoolId, mDisplayList, alive, client, pobs, calls>>

\* All of mIsDisconnected is set, and reset again for the slots with a token.
FlagsSet(item, d, marking) ==
  [item EXCEPT !.conn = FALSE, !.users = @ \ {d}, !.raced = @ \/ marking]
ObserverSetsFlags(d) ==
  /\ cobs[d].pc = "flag"
  /\ Update([mPoolList EXCEPT ![cobs[d].id] = FlagsSet(@, d, BeingMarked(cobs[d].id))],
            Goes(d, "scan", 0), None)
  /\ UNCHANGED <<mPoolId, mDisplayList, alive, client, pobs, calls>>

ObserverScans(d) ==
  /\ cobs[d].pc = "scan"
  /\ cobs' = IF Behind(d) THEN IF cobs[d].found THEN [cobs EXCEPT ![d] = NoCleaning]
                               ELSE Goes(d, "remove", 0)
             ELSE IF HasToken(d) THEN Goes(d, "mark", cobs[d].at)
             ELSE Goes(d, "scan", cobs[d].at + 1)
  /\ UNCHANGED <<mPoolList, mPoolId, mDisplayList, alive, client, pobs, calls>>

ObserverMarks(d) ==
  /\ cobs[d].pc = "mark"
  /\ Update([mPoolList EXCEPT ![cobs[d].id].conn = TRUE],
            [Goes(d, "scan", cobs[d].at + 1) EXCEPT ![d].found = TRUE], None)
  /\ UNCHANGED <<mPoolId, mDisplayList, alive, client, pobs, calls>>

\* binderDied() of the listener: removePoolItem() takes the lock.
ObserverRemoves(d) ==
  /\ cobs[d].pc = "remove"
  /\ Update(removePoolItemLocked(mPoolList, cobs[d].id), [cobs EXCEPT ![d] = NoCleaning], None)
  /\ UNCHANGED <<mPoolId, mDisplayList, alive, client, pobs, calls>>

-----------------------------------------------------------------------------
(* ProducerDeathObserver: every item has one, and each walks the whole list. *)
ProducerDies(p) ==
  /\ p \in alive
  /\ alive' = alive \ {p}
  /\ pobs' = [pobs EXCEPT ![p].todo = {id \in DOMAIN mPoolList : mPoolList[id].obs = p}]
  /\ UNCHANGED <<mPoolList, mPoolId, mDisplayList, client, cobs, calls>>

WalkBegins(p, id) ==
  /\ p \notin alive /\ pobs[p].pc = "next" /\ id \in pobs[p].todo
  /\ pobs' = [pobs EXCEPT ![p] =
                IF id \in DOMAIN mPoolList /\ mPoolList[id].obs = p
                THEN [pc |-> "compare", todo |-> pobs[p].todo \ {id},
                      i |-> Cardinality(DOMAIN mPoolList) - 1]
                ELSE [pobs[p] EXCEPT !.todo = @ \ {id}]]
  /\ UNCHANGED <<mPoolList, mPoolId, mDisplayList, alive, client, cobs, calls>>

\* The id at index i of the sorted list, and none behind its end.
IdAt(i) == {id \in DOMAIN mPoolList : Cardinality({j \in DOMAIN mPoolList : j < id}) = i}
WalkGoesOn(p) == IF pobs[p].i = 0 THEN [pobs EXCEPT ![p].pc = "next"]
                 ELSE [pobs EXCEPT ![p].pc = "compare", ![p].i = @ - 1]

WalkCompares(p) ==
  LET mine == {id \in IdAt(pobs[p].i) : mPoolList[id].prod = p}
  IN /\ pobs[p].pc = "compare"
     /\ Update([id \in DOMAIN mPoolList |->
                  IF id \in mine THEN [mPoolList[id] EXCEPT !.prod = None] ELSE mPoolList[id]],
               cobs, p)
     /\ pobs' = IF mine # {} THEN [pobs EXCEPT ![p].pc = "remove"] ELSE WalkGoesOn(p)
     /\ UNCHANGED <<mPoolId, mDisplayList, alive, client, calls>>

\* The index is evaluated again for removePoolItem(mPoolList[i]->mId).
WalkRemoves(p) ==
  /\ pobs[p].pc = "remove"
  /\ Update(IF IdAt(pobs[p].i) = {} THEN mPoolList
            ELSE removePoolItemLocked(mPoolList, Min(IdAt(pobs[p].i))), cobs, p)
  /\ pobs' = WalkGoesOn(p)
  /\ UNCHANGED <<mPoolId, mDisplayList, alive, client, calls>>

-----------------------------------------------------------------------------
ConsumerObserver(d) ==
  \/ \E id \in Ids : ObserverBegins(d, id)
  \/ ObserverCompares(d) \/ ObserverCancels(d) \/ ObserverClears(d)
  \/ ObserverSetsFlags(d) \/ ObserverScans(d) \/ ObserverMarks(d) \/ ObserverRemoves(d)

ProducerObserver(p) ==
  (\E id \in Ids : WalkBegins(p, id)) \/ WalkCompares(p) \/ WalkRemoves(p)

ConsumerCalls(c) ==
  \/ \E id \in Ids, b \in Bufs : ClientAcquires(c, id, b) \/ ClientReleases(c, id, b)
  \/ \E id \in Ids, t \in Types :
       ClientFallsBack(c, id, t) \/ ClientGivesBack(c, id, t) \/ ClientLeaves(c, id, t)
  \/ ClientRequests(c)

ProducerCalls(p) ==
  (\E hwc \in BOOLEAN : alloc(p, hwc)) \/ (\E id \in Ids : free(p, id))

Next ==
  \/ \E c \in Consumers : ConsumerCalls(c) \/ ConsumerDies(c) \/ ConsumerObserver(c)
  \/ \E p \in Producers : ProducerCalls(p) \/ ProducerDies(p) \/ ProducerObserver(p)
  \/ \E t \in Types, enable \in BOOLEAN : configDisplay(t, enable)

\* The binder threads that deliver the notices of a death are scheduled.
Fairness ==
  /\ \A c \in Consumers : WF_vars(ConsumerObserver(c))
  /\ \A p \in Producers : WF_vars(ProducerObserver(p))

Spec == Init /\ [][Next]_vars /\ Fairness

-----------------------------------------------------------------------------
(* Properties. *)

\* A buffer is out of its queue exactly as long as a slot names who has it
\* (GuiExtImpl.cpp:704, 746), so that it comes back when the holder dies; unless
\* it was acquired while an observer, which takes no lock, was cleaning its slot.
SlotsMatchQueue ==
  \A id \in DOMAIN mPoolList : \A b \in DOMAIN mPoolList[id].slot :
    LET item == mPoolList[id]
    IN \/ item.raced \/ BeingCleaned(id, b)
       \/ (b \in item.out) = (item.slot[b] # None)

\* An item is not removed under a live consumer that is registered for a buffer
\* (GuiExtImpl.cpp:390), unless a consumer disconnects or has disconnected since
\* the last acquire (the flag is one for all consumers and display types), or an
\* observer has set the flag and not yet reset it (GuiExtImpl.cpp:712).
HeldKept ==
  [][\A id \in DOMAIN mPoolList \ DOMAIN mPoolList' :
       \/ \A b \in DOMAIN mPoolList[id].slot : mPoolList[id].slot[b] \notin alive
       \/ mPoolList[id].left \/ \E c \in Consumers, t \in Types : ClientLeaves(c, id, t)
       \/ \E d \in Consumers : cobs[d].id = id /\ cobs[d].pc \in {"scan", "mark"}]_vars

\* An item whose producer is gone and whose consumers have disconnected, or died
\* with a buffer, does not stay in the list of ten (GuiExtImpl.cpp:175, 725),
\* unless a call came into the middle of an observer's work.
Abandoned(id) ==
  /\ id \in DOMAIN mPoolList /\ ~mPoolList[id].raced
  /\ mPoolList[id].prod \notin alive
  /\ \A u \in mPoolList[id].users :
       u \notin alive /\ \E b \in DOMAIN mPoolList[id].slot : mPoolList[id].slot[b] = u
AbandonedRemoved == \A id \in Ids : Abandoned(id) ~> ~Abandoned(id)
=============================================================================
