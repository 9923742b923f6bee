-------------------------- MODULE GuiExtPoolProofs --------------------------
(***************************************************************************)
(* Proofs about GuiExtPool, for every set of processes, every number of    *)
(* display types and buffers, and every size of the pool.                  *)
(***************************************************************************)
EXTENDS GuiExtPool, FiniteSetTheorems, WellFoundedInduction, TLAPS

SlotFns == UNION {[BufsOf(ts) -> Consumers \cup {None}] : ts \in SUBSET Types}
Watches ==
  [pc : {"next", "compare", "cancel", "clear", "flag", "scan", "mark", "remove"},
   id : Ids, at : Nat, found : BOOLEAN]

\* What an item and the observers at work on it have to do with each other.  An
\* observer stands at one of the slots; one that has returned a buffer and not yet
\* cleared the slot finds it in the queue; a slot and the queue agree except where
\* an observer is at work; a token without the flag is one that an observer still
\* has before it, or one left over by a disconnect.
AtSlot(item, id, co) ==
  \A d \in Consumers :
    co[d].id = id /\ co[d].pc \in {"cancel", "clear", "mark"} => co[d].at \in DOMAIN item.slot
ReturnedFirst(item, id, co) ==
  \A d \in Consumers :
    co[d].id = id /\ co[d].pc = "clear" => item.raced \/ co[d].at \notin item.out
Cleaned(id, b, co) ==
  \E d \in Consumers : co[d].pc \in {"cancel", "clear"} /\ co[d].id = id /\ co[d].at = b
SlotsAgree(item, id, co) ==
  \A b \in DOMAIN item.slot :
    item.raced \/ Cleaned(id, b, co) \/ ((b \in item.out) <=> (item.slot[b] # None))
Ahead(id, b, co) ==
  \E d \in Consumers : co[d].pc \in {"scan", "mark"} /\ co[d].id = id /\ co[d].at <= b
FlagFits(item, id, co) ==
  \A b \in DOMAIN item.slot :
    item.slot[b] # None => item.conn \/ item.left \/ Ahead(id, b, co)

ItemSound(item, id, co) ==
  /\ AtSlot(item, id, co) /\ ReturnedFirst(item, id, co)
  /\ SlotsAgree(item, id, co) /\ FlagFits(item, id, co)

Sound(pool, co) ==
  /\ pool \in [DOMAIN pool -> Items] /\ DOMAIN pool \subseteq Ids
  /\ co \in [Consumers -> Watches]
  /\ \A id \in DOMAIN pool : ItemSound(pool[id], id, co)

OnItems(pool, co) == \A d \in Consumers : co[d].pc # "next" => co[d].id \in DOMAIN pool

IInv ==
  /\ Sound(mPoolList, cobs) /\ OnItems(mPoolList, cobs)
  /\ mPoolId \in 0..MaxAlloc /\ alive \in SUBSET (Producers \cup Consumers)

-----------------------------------------------------------------------------
(* The list. *)
LEMMA ConstantTypes ==
  /\ NumTypes \in Nat \ {0} /\ BufNum \in Nat \ {0} /\ MaxAlloc \in Nat \ {0}
  /\ None \notin Producers /\ None \notin Consumers /\ Ids = 1..MaxAlloc
BY PoolConstants DEF Ids

LEMMA NoCleaningType == NoCleaning \in Watches /\ NoCleaning.pc = "next"
BY ConstantTypes DEF NoCleaning, Watches

LEMMA ItemsAre ==
  Items = [prod : Producers \cup {None}, obs : Producers, hwc : BOOLEAN, slot : SlotFns,
           out : SUBSET Bufs, conn : BOOLEAN, users : SUBSET Consumers, left : BOOLEAN,
           raced : BOOLEAN]
BY DEF Items, SlotFns

\* The fields of an item.
LEMMA ItemFields ==
  ASSUME NEW item \in Items
  PROVE  /\ item.prod \in Producers \cup {None} /\ item.obs \in Producers /\ item.hwc \in BOOLEAN
         /\ item.slot \in SlotFns /\ item.out \in SUBSET Bufs /\ item.conn \in BOOLEAN
         /\ item.users \in SUBSET Consumers /\ item.left \in BOOLEAN /\ item.raced \in BOOLEAN
         /\ item = [prod |-> item.prod, obs |-> item.obs, hwc |-> item.hwc, slot |-> item.slot,
                    out |-> item.out, conn |-> item.conn, users |-> item.users,
                    left |-> item.left, raced |-> item.raced]
BY ItemsAre

LEMMA SlotType ==
  ASSUME NEW s \in SlotFns
  PROVE  /\ DOMAIN s \subseteq Bufs
         /\ \A b \in DOMAIN s : s[b] \in Consumers \cup {None}
         /\ \A b : \A v \in Consumers \cup {None} :
              [s EXCEPT ![b] = v] \in SlotFns /\ DOMAIN [s EXCEPT ![b] = v] = DOMAIN s
<1>1. PICK ts \in SUBSET Types : s \in [BufsOf(ts) -> Consumers \cup {None}]
  BY DEF SlotFns
<1>2. BufsOf(ts) \subseteq Bufs
  BY DEF BufsOf
<1>3. ASSUME NEW b, NEW v \in Consumers \cup {None}
      PROVE  [s EXCEPT ![b] = v] \in [BufsOf(ts) -> Consumers \cup {None}]
  BY <1>1, Zenon
<1>4. QED
  BY <1>1, <1>2, <1>3 DEF SlotFns

\* A change of the list keeps what holds of the new list and the observers.
LEMMA UpdateSound ==
  ASSUME NEW pool, NEW co, NEW self, Sound(pool, co), Update(pool, co, self)
  PROVE  /\ Sound(mPoolList', cobs') /\ OnItems(mPoolList', cobs')
         /\ DOMAIN mPoolList' = DOMAIN pool
<1> DEFINE sh == /\ DOMAIN pool # DOMAIN mPoolList
                 /\ \E p \in Producers \ {self} : pobs[p].pc # "next"
<1>1. /\ mPoolList' = [id \in DOMAIN pool |-> [pool[id] EXCEPT !.raced = @ \/ sh]]
      /\ cobs' = [c \in Consumers |->
                   IF co[c].pc # "next" /\ co[c].id \notin DOMAIN pool THEN NoCleaning ELSE co[c]]
  BY DEF Update
<1>2. sh \in BOOLEAN
  OBVIOUS
<1> HIDE DEF sh
<1>3. DOMAIN mPoolList' = DOMAIN pool
  BY <1>1
<1>4. ASSUME NEW id \in DOMAIN pool
      PROVE  /\ mPoolList'[id] \in Items /\ mPoolList'[id].slot = pool[id].slot
             /\ mPoolList'[id].out = pool[id].out /\ mPoolList'[id].conn = pool[id].conn
             /\ mPoolList'[id].left = pool[id].left
             /\ pool[id].raced => mPoolList'[id].raced
  <2> DEFINE old == pool[id]
             r == old.raced \/ sh
  <2>1. old \in Items
    BY DEF Sound
  <2>2. mPoolList'[id] = [old EXCEPT !.raced = r]
    BY <1>1
  <2>3. r \in BOOLEAN /\ (old.raced => r)
    OBVIOUS
  <2> HIDE DEF r, old
  <2>4. mPoolList'[id] = [prod |-> old.prod, obs |-> old.obs, hwc |-> old.hwc, slot |-> old.slot,
                          out |-> old.out, conn |-> old.conn, users |-> old.users,
                          left |-> old.left, raced |-> r]
    BY <2>1, <2>2, ItemFields
  <2>5. /\ old.prod \in Producers \cup {None} /\ old.obs \in Producers /\ old.hwc \in BOOLEAN
        /\ old.slot \in SlotFns /\ old.out \in SUBSET Bufs /\ old.conn \in BOOLEAN
        /\ old.users \in SUBSET Consumers /\ old.left \in BOOLEAN
    BY <2>1, ItemFields
  <2>6. mPoolList'[id] \in Items
    BY <2>3, <2>4, <2>5, ItemsAre
  <2>7. /\ mPoolList'[id].slot = old.slot /\ mPoolList'[id].out = old.out
        /\ mPoolList'[id].conn = old.conn /\ mPoolList'[id].left = old.left
        /\ mPoolList'[id].raced = r
    BY <2>4
  <2>8. QED
    BY <2>3, <2>6, <2>7 DEF old
<1>5. cobs' \in [Consumers -> Watches]
  BY <1>1, NoCleaningType DEF Sound
<1>6. \A d \in Consumers : cobs'[d].pc = "next" \/ (cobs'[d] = co[d] /\ co[d].id \in DOMAIN pool)
  BY <1>1, NoCleaningType
<1>7. \A d \in Consumers : co[d].pc # "next" /\ co[d].id \in DOMAIN pool => cobs'[d] = co[d]
  BY <1>1
<1>8. ASSUME NEW id \in DOMAIN pool
      PROVE  ItemSound(mPoolList'[id], id, cobs')
  <2>1. ItemSound(pool[id], id, co)
    BY DEF Sound
  <2>2. AtSlot(mPoolList'[id], id, cobs') /\ ReturnedFirst(mPoolList'[id], id, cobs')
    BY <2>1, <1>4, <1>6 DEF ItemSound, AtSlot, ReturnedFirst
  <2>3. \A b : Cleaned(id, b, co) => Cleaned(id, b, cobs')
    BY <1>7 DEF Cleaned
  <2>4. SlotsAgree(mPoolList'[id], id, cobs')
    BY <2>1, <2>3, <1>4 DEF ItemSound, SlotsAgree
  <2>5. \A b : Ahead(id, b, co) => Ahead(id, b, cobs')
    BY <1>7 DEF Ahead
  <2>6. FlagFits(mPoolList'[id], id, cobs')
    BY <2>1, <2>5, <1>4 DEF ItemSound, FlagFits
  <2>7. QED
    BY <2>2, <2>4, <2>6 DEF ItemSound
<1>9. QED
  BY <1>1, <1>3, <1>4, <1>5, <1>6, <1>8, Zenon DEF Sound, OnItems

LEMMA RemoveSound ==
  ASSUME NEW pool, NEW co, NEW id, Sound(pool, co)
  PROVE  Sound(removePoolItemLocked(pool, id), co)
BY DEF Sound, removePoolItemLocked

\* Only observers of item id differ between co and new.
OnlyAt(id, co, new) ==
  \A d \in Consumers :
    \/ new[d] = co[d]
    \/ (co[d].pc = "next" \/ co[d].id = id) /\ (new[d].pc = "next" \/ new[d].id = id)

LEMMA OthersSound ==
  ASSUME NEW item, NEW id, NEW j, j # id, NEW co, NEW new, OnlyAt(id, co, new), ItemSound(item, j, co)
  PROVE  ItemSound(item, j, new)
<1>1. AtSlot(item, j, new) /\ ReturnedFirst(item, j, new)
  BY DEF OnlyAt, ItemSound, AtSlot, ReturnedFirst
<1>2. \A b : Cleaned(j, b, co) => Cleaned(j, b, new)
  BY DEF OnlyAt, Cleaned
<1>3. \A b : Ahead(j, b, co) => Ahead(j, b, new)
  BY DEF OnlyAt, Ahead
<1>4. SlotsAgree(item, j, new)
  BY <1>2 DEF ItemSound, SlotsAgree
<1>5. FlagFits(item, j, new)
  BY <1>3 DEF ItemSound, FlagFits
<1>6. QED
  BY <1>1, <1>4, <1>5 DEF ItemSound

\* A step that changes one item, and observers of that item.
LEMMA ItemChange ==
  ASSUME NEW pool, NEW co, Sound(pool, co), NEW id \in DOMAIN pool, NEW item \in Items,
         NEW new \in [Consumers -> Watches], OnlyAt(id, co, new), ItemSound(item, id, new)
  PROVE  Sound([pool EXCEPT ![id] = item], new)
<1>1. \A j \in DOMAIN pool : j # id => ItemSound(pool[j], j, new)
  BY OthersSound DEF Sound
<1>2. QED
  BY <1>1 DEF Sound

LEMMA SameObservers == \A id, co : OnlyAt(id, co, co)
BY DEF OnlyAt

-----------------------------------------------------------------------------
(* getPoolId() *)
LEMMA Remainder ==
  ASSUME NEW m \in Nat \ {0}, NEW x \in 0..(m - 1)
  PROVE  x % m = x /\ (x + m) % m = x /\ (m + m) % m = 0 /\ m % m = 0
OBVIOUS

LEMMA CyclicIs ==
  ASSUME NEW id \in Ids
  PROVE  Cyclic(id) = id /\ Cyclic(id + MaxAlloc) = id
<1>1. CASE id = MaxAlloc
  BY <1>1, ConstantTypes, Remainder DEF Cyclic
<1>2. CASE id # MaxAlloc
  <2>1. id \in 0..(MaxAlloc - 1) /\ id # 0
    BY <1>2, ConstantTypes
  <2>2. QED
    BY <2>1, ConstantTypes, Remainder DEF Cyclic
<1>3. QED
  BY <1>1, <1>2

LEMMA MinIs ==
  ASSUME NEW S \in SUBSET Nat, S # {}
  PROVE  Min(S) \in S
<1>1. \E x \in S : \A y \in S : ~(<<y, x>> \in OpToRel(<, Nat))
  BY NatLessThanWellFounded, WFMin, Zenon
<1>2. \E x \in S : \A y \in S : ~(y < x)
  BY <1>1, Zenon DEF OpToRel
<1>3. \E x \in S : \A y \in S : x <= y
  BY <1>2
<1>4. QED
  BY <1>3, Zenon DEF Min

\* Every id is reached from the last one within MaxAlloc steps.
LEMMA Reached ==
  ASSUME NEW last \in 0..MaxAlloc, NEW id \in Ids
  PROVE  \E k \in Ids : Cyclic(last + k) = id
<1>1. CASE id > last
  <2>1. id - last \in Ids /\ last + (id - last) = id
    BY <1>1, ConstantTypes
  <2>2. QED
    BY <2>1, CyclicIs
<1>2. CASE id <= last
  <2>1. id - last + MaxAlloc \in Ids /\ last + (id - last + MaxAlloc) = id + MaxAlloc
    BY <1>2, ConstantTypes
  <2>2. QED
    BY <2>1, CyclicIs
<1>3. QED
  BY <1>1, <1>2, ConstantTypes

\* An id that no item has, as long as the pool is not full (GuiExtImpl.cpp:436).
LEMMA FreshId ==
  ASSUME DOMAIN mPoolList \subseteq Ids, mPoolId \in 0..MaxAlloc,
         Cardinality(DOMAIN mPoolList) < MaxAlloc
  PROVE  getPoolId \in Ids \ DOMAIN mPoolList
<1> DEFINE K == {k \in Ids : Cyclic(mPoolId + k) \notin DOMAIN mPoolList}
<1>1. DOMAIN mPoolList # Ids
  <2>1. Cardinality(1..MaxAlloc) = MaxAlloc
    BY ConstantTypes, FS_Interval
  <2>2. QED
    BY <2>1, ConstantTypes
<1>2. PICK id \in Ids : id \notin DOMAIN mPoolList
  BY <1>1
<1>3. PICK k \in Ids : Cyclic(mPoolId + k) = id
  BY Reached
<1>4. K # {} /\ K \in SUBSET Nat
  <2>1. k \in K
    BY <1>2, <1>3
  <2>2. K \subseteq Ids /\ Ids \subseteq Nat
    BY ConstantTypes
  <2>3. QED
    BY <2>1, <2>2, Zenon
<1>5. Min(K) \in K
  BY <1>4, MinIs
<1>6. \A n \in Nat : Cyclic(n) \in Ids
  BY ConstantTypes DEF Cyclic
<1>7. getPoolId = Cyclic(mPoolId + Min(K))
  BY DEF getPoolId
<1>8. QED
  BY <1>5, <1>6, <1>7, ConstantTypes

-----------------------------------------------------------------------------
(* Calls. *)
LEMMA SameFields ==
  ASSUME NEW old, NEW new, NEW id, NEW co, ItemSound(old, id, co), new.slot = old.slot,
         new.out = old.out, new.conn = old.conn, new.left = old.left, old.raced => new.raced
  PROVE  ItemSound(new, id, co)
<1>1. AtSlot(new, id, co) /\ ReturnedFirst(new, id, co)
  BY DEF ItemSound, AtSlot, ReturnedFirst
<1>2. SlotsAgree(new, id, co)
  BY DEF ItemSound, SlotsAgree
<1>3. FlagFits(new, id, co)
  BY DEF ItemSound, FlagFits
<1>4. QED
  BY <1>1, <1>2, <1>3 DEF ItemSound

LEMMA AllocStep ==
  ASSUME IInv, NEW p \in Producers, NEW hwc \in BOOLEAN, alloc(p, hwc)
  PROVE  IInv'
<1> DEFINE displays == IF DOMAIN mPoolList = {} THEN mDisplayList \cup {0} ELSE mDisplayList
           ts == IF hwc THEN displays ELSE {}
           item == [prod |-> p, obs |-> p, hwc |-> hwc, slot |-> [b \in BufsOf(ts) |-> None],
                    out |-> {}, conn |-> FALSE, users |-> {}, left |-> FALSE, raced |-> FALSE]
           j == getPoolId
           pool == [id \in DOMAIN mPoolList \cup {j} |-> IF id = j THEN item ELSE mPoolList[id]]
<1>1. j \in Ids \ DOMAIN mPoolList
  BY FreshId, Zenon DEF IInv, Sound, alloc
<1>2. Update(pool, cobs, None) /\ mPoolId' = j /\ alive' = alive
  BY Zenon DEF alloc
<1>3. item \in Items
  <2>1. BufsOf(ts) = BufsOf(ts \cap Types)
    BY ConstantTypes, SMTT(30) DEF BufsOf, TypeOf, Types, Bufs
  <2>2. [b \in BufsOf(ts) |-> None] \in SlotFns
    BY <2>1 DEF SlotFns
  <2>3. QED
    BY <2>2, ItemsAre
<1>4. ItemSound(item, j, cobs)
  <2>1. \A d \in Consumers : cobs[d].id = j => cobs[d].pc = "next"
    BY <1>1 DEF IInv, OnItems
  <2>2. QED
    BY <2>1, Zenon DEF ItemSound, AtSlot, ReturnedFirst, SlotsAgree, FlagFits
<1> HIDE DEF item, j
<1>5. Sound(pool, cobs)
  BY <1>1, <1>3, <1>4 DEF IInv, Sound
<1> HIDE DEF pool
<1>6. Sound(mPoolList', cobs') /\ OnItems(mPoolList', cobs')
  BY <1>2, <1>5, UpdateSound
<1>7. QED
  BY <1>1, <1>2, <1>6, ConstantTypes DEF IInv

LEMMA FreeStep ==
  ASSUME IInv, NEW p \in Producers, NEW id \in Ids, free(p, id)
  PROVE  IInv'
<1> DEFINE item == [mPoolList[id] EXCEPT !.prod = None]
           pool == [mPoolList EXCEPT ![id] = item]
<1>1. id \in DOMAIN mPoolList /\ mPoolList[id] \in Items /\ ItemSound(mPoolList[id], id, cobs)
  BY DEF free, IInv, Sound
<1>2. Update(removePoolItemLocked(pool, id), cobs, None)
  BY DEF free
<1>3. item \in Items
  BY <1>1, ItemsAre
<1>4. ItemSound(item, id, cobs)
  <2>1. /\ item.slot = mPoolList[id].slot /\ item.out = mPoolList[id].out
        /\ item.conn = mPoolList[id].conn /\ item.left = mPoolList[id].left
        /\ item.raced = mPoolList[id].raced
    BY <1>1, ItemFields
  <2>2. QED
    BY <1>1, <2>1, SameFields, Zenon
<1> HIDE DEF item
<1>5. Sound(pool, cobs)
  BY <1>1, <1>3, <1>4, ItemChange, SameObservers DEF IInv, Sound
<1> HIDE DEF pool
<1>6. Sound(mPoolList', cobs') /\ OnItems(mPoolList', cobs')
  BY <1>2, <1>5, RemoveSound, UpdateSound
<1>7. QED
  BY <1>6 DEF free, IInv

LEMMA BufsAreNat == Bufs \subseteq Nat
BY ConstantTypes DEF Bufs

\* acquire(): the buffer and its slot, unless an observer is at the slot.
LEMMA AcquiredSound ==
  ASSUME NEW item \in Items, NEW id, ItemSound(item, id, cobs), NEW c \in Consumers,
         NEW b \in DOMAIN item.slot, b \notin item.out,
         NEW new, new = Acquired(item, c, b, BeingCleaned(id, b))
  PROVE  new \in Items /\ ItemSound(new, id, cobs)
<1> DEFINE v == IF item.slot[b] = None THEN c ELSE item.slot[b]
           s == [item.slot EXCEPT ![b] = v]
           r == item.raced \/ BeingCleaned(id, b)
<1>1. v \in Consumers \cup {None} /\ v # None /\ DOMAIN item.slot \subseteq Bufs
  BY ItemFields, SlotType, ConstantTypes, Zenon
<1>2. s \in SlotFns /\ DOMAIN s = DOMAIN item.slot
  BY <1>1, ItemFields, SlotType
<1>3. r \in BOOLEAN /\ (item.raced => r) /\ (Cleaned(id, b, cobs) => r)
  BY Zenon DEF BeingCleaned, Cleaned
<1>4. s[b] # None /\ \A e \in DOMAIN item.slot : e # b => s[e] = item.slot[e]
  BY <1>1
<1>5. new = [prod |-> item.prod, obs |-> item.obs, hwc |-> item.hwc, slot |-> s,
             out |-> item.out \cup {b}, conn |-> TRUE, users |-> item.users \cup {c},
             left |-> FALSE, raced |-> r]
  <2>1. new = [item EXCEPT !.out = item.out \cup {b}, !.slot = s, !.conn = TRUE,
                           !.users = item.users \cup {c}, !.left = FALSE, !.raced = r]
    BY DEF Acquired
  <2> HIDE DEF v, s, r
  <2>2. QED
    BY <2>1, ItemFields, ZenonT(30)
<1> HIDE DEF v, s, r
<1>6. new \in Items
  BY <1>1, <1>2, <1>3, <1>5, ItemFields, ItemsAre
<1>7. /\ new.slot = s /\ new.out = item.out \cup {b} /\ new.conn = TRUE /\ new.raced = r
  BY <1>5
<1>8. AtSlot(new, id, cobs)
  BY <1>2, <1>7, Zenon DEF ItemSound, AtSlot
<1>9. ReturnedFirst(new, id, cobs)
  BY <1>3, <1>7, Zenon DEF ItemSound, ReturnedFirst, Cleaned
<1>10. SlotsAgree(new, id, cobs)
  BY <1>2, <1>3, <1>4, <1>7 DEF ItemSound, SlotsAgree
<1>11. FlagFits(new, id, cobs)
  BY <1>7, Zenon DEF FlagFits
<1>12. QED
  BY <1>6, <1>8, <1>9, <1>10, <1>11 DEF ItemSound

LEMMA AcquireStep ==
  ASSUME IInv, NEW c \in Consumers, NEW id \in Ids, NEW b \in Bufs, ClientAcquires(c, id, b)
  PROVE  IInv'
<1> DEFINE item == Acquired(mPoolList[id], c, b, BeingCleaned(id, b))
           pool == [mPoolList EXCEPT ![id] = item]
<1>1. id \in DOMAIN mPoolList /\ b \in DOMAIN mPoolList[id].slot /\ b \notin mPoolList[id].out
  BY DEF ClientAcquires, Free
<1>2. Update(pool, cobs, None) /\ mPoolId' = mPoolId /\ alive' = alive
  BY DEF ClientAcquires
<1>3. item \in Items /\ ItemSound(item, id, cobs)
  BY <1>1, AcquiredSound DEF IInv, Sound
<1> HIDE DEF item
<1>4. Sound(pool, cobs)
  BY <1>1, <1>3, ItemChange, SameObservers DEF IInv, Sound
<1> HIDE DEF pool
<1>5. QED
  BY <1>2, <1>4, UpdateSound DEF IInv

LEMMA ReleasedSound ==
  ASSUME NEW item \in Items, NEW id, NEW co, ItemSound(item, id, co), NEW b
  PROVE  Released(item, b) \in Items /\ ItemSound(Released(item, b), id, co)
<1>1. CASE b \notin DOMAIN item.slot
  BY <1>1 DEF Released
<1>2. CASE b \in DOMAIN item.slot
  <2> DEFINE new == Released(item, b)
             s == [item.slot EXCEPT ![b] = None]
  <2>1. s \in SlotFns /\ DOMAIN s = DOMAIN item.slot
    BY <1>2, ItemFields, SlotType
  <2>2. s[b] = None /\ \A e \in DOMAIN item.slot : e # b => s[e] = item.slot[e]
    BY <1>2
  <2>3. new = [item EXCEPT !.out = item.out \ {b}, !.slot = s]
    BY <1>2 DEF Released
  <2> HIDE DEF s, new
  <2>4. new \in Items
    BY <2>1, <2>3, ItemFields, ItemsAre, Zenon
  <2>5. /\ new.slot = s /\ new.out = item.out \ {b} /\ new.conn = item.conn
        /\ new.left = item.left /\ new.raced = item.raced
    BY <2>3, ItemsAre
  <2>6. AtSlot(new, id, co) /\ ReturnedFirst(new, id, co)
    BY <2>1, <2>5, Zenon DEF ItemSound, AtSlot, ReturnedFirst
  <2>7. SlotsAgree(new, id, co)
    BY <2>1, <2>2, <2>5, Zenon DEF ItemSound, SlotsAgree
  <2>8. FlagFits(new, id, co)
    BY <2>1, <2>2, <2>5, Zenon DEF ItemSound, FlagFits
  <2>9. QED
    BY <2>4, <2>6, <2>7, <2>8 DEF ItemSound, new
<1>3. QED
  BY <1>1, <1>2

LEMMA ReleasedInSound ==
  ASSUME IInv, NEW id, NEW b
  PROVE  Sound(ReleasedIn(mPoolList, id, b), cobs)
<1>1. CASE id \notin DOMAIN mPoolList
  BY <1>1 DEF IInv, ReleasedIn
<1>2. CASE id \in DOMAIN mPoolList
  <2> DEFINE item == Released(mPoolList[id], b)
  <2>1. item \in Items /\ ItemSound(item, id, cobs)
    BY <1>2, ReleasedSound DEF IInv, Sound
  <2>2. ReleasedIn(mPoolList, id, b) = [mPoolList EXCEPT ![id] = item]
    BY <1>2 DEF ReleasedIn
  <2> HIDE DEF item
  <2>3. Sound([mPoolList EXCEPT ![id] = item], cobs)
    BY <1>2, <2>1, ItemChange, SameObservers, Zenon DEF IInv, Sound
  <2>4. QED
    BY <2>2, <2>3
<1>3. QED
  BY <1>1, <1>2

LEMMA ReleaseStep ==
  ASSUME IInv, NEW c \in Consumers, NEW id \in Ids, NEW b \in Bufs, ClientReleases(c, id, b)
  PROVE  IInv'
<1>1. Update(ReleasedIn(mPoolList, id, b), cobs, None) /\ mPoolId' = mPoolId /\ alive' = alive
  BY DEF ClientReleases
<1>2. QED
  BY <1>1, ReleasedInSound, UpdateSound, Zenon DEF IInv

LEMMA GiveBackStep ==
  ASSUME IInv, NEW c \in Consumers, NEW id \in Ids, NEW t \in Types, ClientGivesBack(c, id, t)
  PROVE  IInv'
<1>1. PICK b : Update(ReleasedIn(mPoolList, id, b), cobs, None) /\ mPoolId' = mPoolId /\ alive' = alive
  BY Zenon DEF ClientGivesBack
<1>2. QED
  BY <1>1, ReleasedInSound, UpdateSound, Zenon DEF IInv

\* disconnect() clears the flag and says so in left.
LEMMA LeaveStep ==
  ASSUME IInv, NEW c \in Consumers, NEW id \in Ids, NEW t \in Types, ClientLeaves(c, id, t)
  PROVE  IInv'
<1> DEFINE old == mPoolList[id]
           item == Disconnected(old, c, BeingMarked(id))
           pool == IF id \in DOMAIN mPoolList THEN [mPoolList EXCEPT ![id] = item] ELSE mPoolList
<1>1. /\ Update(removePoolItemLocked(pool, id), cobs, None)
      /\ mPoolId' = mPoolId /\ alive' = alive
  BY Zenon DEF ClientLeaves
<1>2. Sound(pool, cobs)
  <2>1. CASE id \notin DOMAIN mPoolList
    BY <2>1 DEF IInv
  <2>2. CASE id \in DOMAIN mPoolList
    <3>1. old \in Items /\ ItemSound(old, id, cobs)
      BY <2>2, Zenon DEF IInv, Sound
    <3> DEFINE u == IF \E b \in DOMAIN old.slot : old.slot[b] = c THEN old.users ELSE old.users \ {c}
               r == old.raced \/ BeingMarked(id)
    <3>2. u \in SUBSET Consumers /\ r \in BOOLEAN /\ (old.raced => r)
      BY <3>1, ItemFields
    <3>3. CASE ~old.hwc
      BY <2>2, <3>1, <3>3, ItemChange, SameObservers, Zenon DEF IInv, Sound, Disconnected
    <3>4. CASE old.hwc
      <4>1. item = [old EXCEPT !.conn = FALSE, !.left = TRUE, !.raced = r, !.users = u]
        BY <3>4, Zenon DEF Disconnected
      <4> HIDE DEF u, r, old, item
      <4>2. item \in Items
        BY <3>1, <3>2, <4>1, ItemFields, ItemsAre, ZenonT(30)
      <4>3. /\ item.slot = old.slot /\ item.out = old.out /\ item.left = TRUE /\ item.raced = r
        BY <3>1, <4>1, ItemsAre
      <4>4. ItemSound(item, id, cobs)
        <5>1. AtSlot(item, id, cobs) /\ ReturnedFirst(item, id, cobs)
          BY <3>1, <3>2, <4>3, Zenon DEF ItemSound, AtSlot, ReturnedFirst
        <5>2. SlotsAgree(item, id, cobs) /\ FlagFits(item, id, cobs)
          BY <3>1, <3>2, <4>3, Zenon DEF ItemSound, SlotsAgree, FlagFits
        <5>3. QED
          BY <5>1, <5>2 DEF ItemSound
      <4>5. QED
        BY <2>2, <4>2, <4>4, ItemChange, SameObservers, Zenon DEF IInv, Sound
    <3>5. QED
      BY <3>1, <3>3, <3>4, ItemFields, Zenon
  <2>3. QED
    BY <2>1, <2>2
<1> HIDE DEF pool
<1>3. QED
  BY <1>1, <1>2, RemoveSound, UpdateSound DEF IInv

-----------------------------------------------------------------------------
(* Observers. *)
Pcs == {"next", "compare", "cancel", "clear", "flag", "scan", "mark", "remove"}

LEMMA GoesIs ==
  ASSUME cobs \in [Consumers -> Watches], NEW d \in Consumers, NEW pc \in Pcs, NEW at \in Nat
  PROVE  /\ Goes(d, pc, at) \in [Consumers -> Watches]
         /\ Goes(d, pc, at)[d].pc = pc /\ Goes(d, pc, at)[d].at = at
         /\ Goes(d, pc, at)[d].id = cobs[d].id
         /\ \A e \in Consumers : e # d => Goes(d, pc, at)[e] = cobs[e]
         /\ OnlyAt(cobs[d].id, cobs, Goes(d, pc, at))
<1>1. cobs[d] \in Watches
  OBVIOUS
<1>2. Goes(d, pc, at) = [cobs EXCEPT ![d] = [cobs[d] EXCEPT !.pc = pc, !.at = at]]
  BY Zenon DEF Goes
<1>3. [cobs[d] EXCEPT !.pc = pc, !.at = at] \in Watches
  BY <1>1, Zenon DEF Watches, Pcs
<1>4. /\ [cobs[d] EXCEPT !.pc = pc, !.at = at].pc = pc
      /\ [cobs[d] EXCEPT !.pc = pc, !.at = at].at = at
      /\ [cobs[d] EXCEPT !.pc = pc, !.at = at].id = cobs[d].id
  BY <1>1 DEF Watches
<1>5. QED
  BY <1>2, <1>3, <1>4, Zenon DEF OnlyAt

LEMMA ObserverChange ==
  ASSUME NEW pool, NEW co, Sound(pool, co), NEW id \in DOMAIN pool,
         NEW new \in [Consumers -> Watches], OnlyAt(id, co, new), ItemSound(pool[id], id, new)
  PROVE  Sound(pool, new)
<1>1. \A j \in DOMAIN pool : j # id => ItemSound(pool[j], j, new)
  BY OthersSound DEF Sound
<1>2. QED
  BY <1>1 DEF Sound

\* An observer that neither stands at a slot nor scans may go where it is not in the way.
LEMMA Elsewhere ==
  ASSUME NEW item, NEW id, NEW d \in Consumers, ItemSound(item, id, cobs), NEW new,
         \A e \in Consumers : e # d => new[e] = cobs[e],
         cobs[d].pc \in {"next", "compare", "flag", "remove"} \/ cobs[d].id # id,
         new[d].pc \in {"next", "compare", "flag", "remove"}
           \/ (new[d].pc = "cancel" /\ new[d].at \in DOMAIN item.slot)
  PROVE  ItemSound(item, id, new)
<1>1. AtSlot(item, id, new) /\ ReturnedFirst(item, id, new)
  BY Zenon DEF ItemSound, AtSlot, ReturnedFirst
<1>2. \A b : Cleaned(id, b, cobs) => Cleaned(id, b, new)
  BY Zenon DEF Cleaned
<1>3. \A b : Ahead(id, b, cobs) => Ahead(id, b, new)
  BY Zenon DEF Ahead
<1>4. SlotsAgree(item, id, new)
  BY <1>2, Zenon DEF ItemSound, SlotsAgree
<1>5. FlagFits(item, id, new)
  BY <1>3, Zenon DEF ItemSound, FlagFits
<1>6. QED
  BY <1>1, <1>4, <1>5, Zenon DEF ItemSound

\* The item of an observer at work.
LEMMA AtWork ==
  ASSUME IInv, NEW d \in Consumers, cobs[d].pc # "next"
  PROVE  /\ cobs[d].id \in DOMAIN mPoolList /\ cobs[d].at \in Nat /\ cobs[d] \in Watches
         /\ Item(d) \in Items /\ Item(d) = mPoolList[cobs[d].id]
         /\ ItemSound(Item(d), cobs[d].id, cobs) /\ DOMAIN Item(d).slot \subseteq Nat
         /\ cobs \in [Consumers -> Watches]
<1>1. /\ cobs[d].id \in DOMAIN mPoolList /\ cobs \in [Consumers -> Watches]
      /\ Item(d) = mPoolList[cobs[d].id]
  BY Zenon DEF IInv, OnItems, Sound, Item
<1>2. cobs[d] \in Watches /\ cobs[d].at \in Nat
  BY <1>1 DEF Watches
<1>3. Item(d) \in Items /\ ItemSound(Item(d), cobs[d].id, cobs)
  BY <1>1, Zenon DEF IInv, Sound
<1>4. DOMAIN Item(d).slot \subseteq Nat
  BY <1>3, ItemFields, SlotType, BufsAreNat, Zenon
<1>5. QED
  BY <1>1, <1>2, <1>3, <1>4, Zenon

LEMMA BeginStep ==
  ASSUME IInv, NEW d \in Consumers, NEW id \in Ids, ObserverBegins(d, id)
  PROVE  IInv'
<1> DEFINE w == [pc |-> "compare", id |-> id, at |-> 0, found |-> FALSE]
           new == [cobs EXCEPT ![d] = w]
<1>1. /\ cobs[d].pc = "next" /\ id \in DOMAIN mPoolList /\ cobs' = new
      /\ UNCHANGED <<mPoolList, mPoolId, alive>> /\ cobs \in [Consumers -> Watches]
  BY Zenon DEF ObserverBegins, IInv, Sound
<1>2. w \in Watches
  BY DEF Watches
<1>3. new \in [Consumers -> Watches] /\ new[d] = w /\ \A e \in Consumers : e # d => new[e] = cobs[e]
  BY <1>1, <1>2, Zenon
<1>4. OnlyAt(id, cobs, new)
  BY <1>1, <1>3, Zenon DEF OnlyAt
<1> HIDE DEF new
<1>5. ItemSound(mPoolList[id], id, new)
  BY <1>1, <1>3, Elsewhere DEF IInv, Sound
<1>6. Sound(mPoolList, new)
  BY <1>1, <1>3, <1>4, <1>5, ObserverChange, Zenon DEF IInv
<1>7. OnItems(mPoolList, new)
  BY <1>1, <1>3 DEF IInv, OnItems
<1>8. QED
  BY <1>1, <1>6, <1>7, Zenon DEF IInv

LEMMA CompareStep ==
  ASSUME IInv, NEW d \in Consumers, ObserverCompares(d)
  PROVE  IInv'
<1> DEFINE matching == {b \in DOMAIN Item(d).slot : b >= cobs[d].at /\ Item(d).slot[b] = d}
<1>1. /\ cobs[d].pc = "compare" /\ UNCHANGED <<mPoolList, mPoolId, alive>>
      /\ cobs' = IF matching = {} THEN Goes(d, "flag", 0) ELSE Goes(d, "cancel", Min(matching))
  BY Zenon DEF ObserverCompares
<1>2. matching # {} => Min(matching) \in DOMAIN Item(d).slot
  BY <1>1, AtWork, MinIs
<1> HIDE DEF matching
<1>3. PICK pc \in {"flag", "cancel"}, at \in Nat :
        cobs' = Goes(d, pc, at) /\ (pc = "cancel" => at \in DOMAIN Item(d).slot)
  BY <1>1, <1>2, AtWork, Zenon
<1> DEFINE new == Goes(d, pc, at)
<1>4. /\ new \in [Consumers -> Watches] /\ new[d].pc = pc /\ new[d].at = at
      /\ new[d].id = cobs[d].id /\ OnlyAt(cobs[d].id, cobs, new)
      /\ \A e \in Consumers : e # d => new[e] = cobs[e]
  BY <1>1, AtWork, GoesIs, SMTT(30) DEF Pcs
<1> HIDE DEF new
<1>5. ItemSound(Item(d), cobs[d].id, new)
  BY <1>1, <1>3, <1>4, AtWork, Elsewhere, Zenon
<1>6. Sound(mPoolList, new)
  BY <1>1, <1>4, <1>5, AtWork, ObserverChange, Zenon DEF IInv
<1>7. OnItems(mPoolList, new)
  BY <1>1, <1>4, Zenon DEF IInv, OnItems
<1>8. QED
  BY <1>1, <1>3, <1>6, <1>7, Zenon DEF IInv, new

\* release(): the buffer goes back while the slot still names the dead consumer.
LEMMA CancelStep ==
  ASSUME IInv, NEW d \in Consumers, ObserverCancels(d)
  PROVE  IInv'
<1> DEFINE id == cobs[d].id
           at == cobs[d].at
           old == mPoolList[id]
           item == [old EXCEPT !.out = old.out \ {at}]
           new == Goes(d, "clear", at)
           pool == [mPoolList EXCEPT ![id] = item]
<1>1. /\ cobs[d].pc = "cancel" /\ UNCHANGED <<mPoolId, alive>> /\ Update(pool, new, None)
  BY Zenon DEF ObserverCancels
<1>2. /\ id \in DOMAIN mPoolList /\ at \in Nat /\ old \in Items /\ ItemSound(old, id, cobs)
  BY <1>1, AtWork, SMTT(30)
<1>3. /\ new \in [Consumers -> Watches] /\ new[d].pc = "clear" /\ new[d].at = at
      /\ new[d].id = id /\ OnlyAt(id, cobs, new)
      /\ \A e \in Consumers : e # d => new[e] = cobs[e]
  <2>1. "clear" \in Pcs
    BY Zenon DEF Pcs
  <2>2. cobs \in [Consumers -> Watches] /\ at \in Nat
    BY <1>1, AtWork, Zenon
  <2> QED
    BY <2>1, <2>2, GoesIs
<1>4. item \in Items
  BY <1>2, ItemFields, ItemsAre, Zenon
<1>5. /\ item.slot = old.slot /\ item.out = old.out \ {at} /\ item.conn = old.conn
      /\ item.left = old.left /\ item.raced = old.raced
  BY <1>2, ItemsAre, SMTT(30)
<1> HIDE DEF item, new
<1>6. AtSlot(item, id, new) /\ ReturnedFirst(item, id, new)
  BY Zenon, <1>1, <1>2, <1>3, <1>5 DEF ItemSound, AtSlot, ReturnedFirst
<1>7. Cleaned(id, at, new) /\ \A b : Cleaned(id, b, cobs) => Cleaned(id, b, new)
  BY <1>1, <1>3, Zenon DEF Cleaned
<1>8. SlotsAgree(item, id, new)
  BY <1>2, <1>5, <1>7, Zenon DEF ItemSound, SlotsAgree
<1>9. \A b : Ahead(id, b, cobs) => Ahead(id, b, new)
  BY <1>1, <1>3, Zenon DEF Ahead
<1>10. FlagFits(item, id, new)
  BY <1>2, <1>5, <1>9, Zenon DEF ItemSound, FlagFits
<1>11. Sound(pool, new)
  BY <1>2, <1>3, <1>4, <1>6, <1>8, <1>10, ItemChange, Zenon DEF IInv, ItemSound
<1> HIDE DEF pool
<1>12. QED
  BY <1>1, <1>11, UpdateSound, Zenon DEF IInv

LEMMA ClearStep ==
  ASSUME IInv, NEW d \in Consumers, ObserverClears(d)
  PROVE  IInv'
<1> DEFINE id == cobs[d].id
           at == cobs[d].at
           old == mPoolList[id]
           s == [old.slot EXCEPT ![at] = None]
           item == [old EXCEPT !.slot = s]
           new == Goes(d, "compare", at + 1)
           pool == [mPoolList EXCEPT ![id] = item]
<1>1. /\ cobs[d].pc = "clear" /\ UNCHANGED <<mPoolId, alive>> /\ Update(pool, new, None)
  BY Zenon DEF ObserverClears
<1>2. /\ id \in DOMAIN mPoolList /\ at \in Nat /\ old \in Items /\ ItemSound(old, id, cobs)
  BY <1>1, AtWork, Zenon
<1>3. /\ new \in [Consumers -> Watches] /\ new[d].pc = "compare"
      /\ new[d].id = id /\ OnlyAt(id, cobs, new)
      /\ \A e \in Consumers : e # d => new[e] = cobs[e]
  <2>1. at + 1 \in Nat /\ "compare" \in Pcs /\ cobs \in [Consumers -> Watches]
    BY <1>1, <1>2, AtWork, SMTT(30) DEF Pcs
  <2>2. QED
    BY <2>1, GoesIs
<1>4. at \in DOMAIN old.slot /\ (old.raced \/ at \notin old.out)
  BY <1>1, <1>2, Zenon DEF ItemSound, AtSlot, ReturnedFirst
<1>5. s \in SlotFns /\ DOMAIN s = DOMAIN old.slot
  BY Zenon, <1>2, ItemFields, SlotType
<1>6. s[at] = None /\ \A b \in DOMAIN old.slot : b # at => s[b] = old.slot[b]
  BY <1>4, Zenon
<1> HIDE DEF s
<1>7. item \in Items
  BY <1>2, <1>5, ItemFields, ItemsAre, Zenon
<1>8. /\ item.slot = s /\ item.out = old.out /\ item.conn = old.conn
      /\ item.left = old.left /\ item.raced = old.raced
  BY <1>2, ItemsAre, Zenon
<1> HIDE DEF item, new
<1>9. AtSlot(item, id, new) /\ ReturnedFirst(item, id, new)
  BY Zenon, <1>2, <1>3, <1>5, <1>8 DEF ItemSound, AtSlot, ReturnedFirst
<1>10. \A b : b # at /\ Cleaned(id, b, cobs) => Cleaned(id, b, new)
  BY <1>3, Zenon DEF Cleaned
<1>11. SlotsAgree(item, id, new)
  BY Zenon, <1>2, <1>4, <1>5, <1>6, <1>8, <1>10 DEF ItemSound, SlotsAgree
<1>12. \A b : Ahead(id, b, cobs) => Ahead(id, b, new)
  BY <1>1, <1>3, Zenon DEF Ahead
<1>13. FlagFits(item, id, new)
  BY Zenon, <1>2, <1>5, <1>6, <1>8, <1>12 DEF ItemSound, FlagFits
<1>14. Sound(pool, new)
  BY <1>2, <1>3, <1>7, <1>9, <1>11, <1>13, ItemChange, Zenon DEF IInv, ItemSound
<1> HIDE DEF pool
<1>15. QED
  BY <1>1, <1>14, UpdateSound, Zenon DEF IInv

\* The flag is set with every slot still ahead of the observer.
LEMMA FlagStep ==
  ASSUME IInv, NEW d \in Consumers, ObserverSetsFlags(d)
  PROVE  IInv'
<1> DEFINE id == cobs[d].id
           old == mPoolList[id]
           r == old.raced \/ BeingMarked(id)
           item == FlagsSet(old, d, BeingMarked(id))
           new == Goes(d, "scan", 0)
           pool == [mPoolList EXCEPT ![id] = item]
<1>1. /\ cobs[d].pc = "flag" /\ UNCHANGED <<mPoolId, alive>> /\ Update(pool, new, None)
  BY Zenon DEF ObserverSetsFlags
<1>2. /\ id \in DOMAIN mPoolList /\ old \in Items /\ ItemSound(old, id, cobs)
      /\ DOMAIN old.slot \subseteq Nat
  BY <1>1, AtWork, Zenon
<1>3. /\ new \in [Consumers -> Watches] /\ new[d].pc = "scan" /\ new[d].at = 0
      /\ new[d].id = id /\ OnlyAt(id, cobs, new)
      /\ \A e \in Consumers : e # d => new[e] = cobs[e]
  <2>1. "scan" \in Pcs
    BY Zenon DEF Pcs
  <2>2. 0 \in Nat
    OBVIOUS
  <2>3. cobs \in [Consumers -> Watches]
    BY <1>1, AtWork, Zenon
  <2> QED
    BY <2>1, <2>2, <2>3, GoesIs
<1>4. item = [old EXCEPT !.conn = FALSE, !.users = old.users \ {d}, !.raced = r]
  BY Zenon DEF FlagsSet
<1>5. r \in BOOLEAN /\ (old.raced => r)
  BY Zenon
<1> HIDE DEF item, new, r
<1>6. item \in Items
  BY <1>2, <1>4, <1>5, ItemFields, ItemsAre, ZenonT(30)
<1>7. item.slot = old.slot /\ item.out = old.out /\ item.raced = r
  BY <1>2, <1>4, ItemsAre, Zenon
<1>8. AtSlot(item, id, new) /\ ReturnedFirst(item, id, new)
  BY Zenon, <1>2, <1>3, <1>5, <1>7 DEF ItemSound, AtSlot, ReturnedFirst
<1>9. \A b : Cleaned(id, b, cobs) => Cleaned(id, b, new)
  BY <1>1, <1>3, Zenon DEF Cleaned
<1>10. SlotsAgree(item, id, new)
  BY Zenon, <1>2, <1>5, <1>7, <1>9 DEF ItemSound, SlotsAgree
<1>11. \A b \in Nat : Ahead(id, b, new)
  BY <1>3 DEF Ahead
<1>12. FlagFits(item, id, new)
  BY <1>2, <1>7, <1>11, Zenon DEF FlagFits
<1>13. Sound(pool, new)
  BY <1>2, <1>3, <1>6, <1>8, <1>10, <1>12, ItemChange, Zenon DEF IInv, ItemSound
<1> HIDE DEF pool
<1>14. QED
  BY <1>1, <1>13, UpdateSound, Zenon DEF IInv

\* A scanning observer goes past slots without a token only.
LEMMA Scanned ==
  ASSUME NEW item, NEW id, NEW d \in Consumers, ItemSound(item, id, cobs), NEW new,
         DOMAIN item.slot \subseteq Nat, cobs[d].at \in Nat,
         \A e \in Consumers : e # d => new[e] = cobs[e],
         cobs[d].pc = "scan", cobs[d].id = id, new[d].pc \in {"next", "remove", "scan", "mark"},
         new[d].pc = "mark" => new[d].at \in DOMAIN item.slot,
         \A b \in DOMAIN item.slot : b >= cobs[d].at /\ item.slot[b] # None =>
           new[d].pc \in {"scan", "mark"} /\ new[d].id = id /\ new[d].at <= b
  PROVE  ItemSound(item, id, new)
<1>1. AtSlot(item, id, new) /\ ReturnedFirst(item, id, new)
  BY Zenon DEF ItemSound, AtSlot, ReturnedFirst
<1>2. \A b : Cleaned(id, b, cobs) => Cleaned(id, b, new)
  BY Zenon DEF Cleaned
<1>3. SlotsAgree(item, id, new)
  BY <1>2, Zenon DEF ItemSound, SlotsAgree
<1>4. ASSUME NEW b \in DOMAIN item.slot, item.slot[b] # None, Ahead(id, b, cobs)
      PROVE  Ahead(id, b, new)
  <2>1. PICK e \in Consumers : cobs[e].pc \in {"scan", "mark"} /\ cobs[e].id = id /\ cobs[e].at <= b
    BY <1>4, Zenon DEF Ahead
  <2>2. CASE e = d
    BY <1>4, <2>1, <2>2, Zenon DEF Ahead
  <2>3. CASE e # d
    BY <2>1, <2>3, Zenon DEF Ahead
  <2>4. QED
    BY <2>2, <2>3, Zenon
<1>5. FlagFits(item, id, new)
  BY <1>4, Zenon DEF ItemSound, FlagFits
<1>6. QED
  BY <1>1, <1>3, <1>5, Zenon DEF ItemSound

LEMMA ScanStep ==
  ASSUME IInv, NEW d \in Consumers, ObserverScans(d)
  PROVE  IInv'
<1> DEFINE id == cobs[d].id
           at == cobs[d].at
           item == Item(d)
<1>1. /\ cobs[d].pc = "scan" /\ UNCHANGED <<mPoolList, mPoolId, alive>>
      /\ cobs' = IF Behind(d) THEN IF cobs[d].found THEN [cobs EXCEPT ![d] = NoCleaning]
                                   ELSE Goes(d, "remove", 0)
                 ELSE IF HasToken(d) THEN Goes(d, "mark", cobs[d].at)
                 ELSE Goes(d, "scan", cobs[d].at + 1)
  BY Zenon DEF ObserverScans
<1>2. /\ id \in DOMAIN mPoolList /\ at \in Nat /\ item = mPoolList[id]
      /\ ItemSound(item, id, cobs) /\ DOMAIN item.slot \subseteq Nat
      /\ cobs \in [Consumers -> Watches] /\ at + 1 \in Nat
  BY <1>1, AtWork
<1>a. cobs \in [Consumers -> Watches] /\ at \in Nat /\ at + 1 \in Nat
  BY <1>2, Zenon
<1>3. SUFFICES ASSUME NEW new \in [Consumers -> Watches], cobs' = new, OnlyAt(id, cobs, new),
                      \A e \in Consumers : e # d => new[e] = cobs[e],
                      new[d].pc = "next" \/ new[d].id = id, ItemSound(item, id, new)
               PROVE  IInv'
  <2> DEFINE Ok(new) == /\ new \in [Consumers -> Watches] /\ OnlyAt(id, cobs, new)
                        /\ \A e \in Consumers : e # d => new[e] = cobs[e]
                        /\ new[d].pc = "next" \/ new[d].id = id
                        /\ ItemSound(item, id, new)
  <2>1. CASE Behind(d)
    <3>1. \A b \in DOMAIN item.slot : ~(b >= at)
      BY <1>2, <2>1 DEF Behind
    <3>2. CASE cobs[d].found
      <4> DEFINE new == [cobs EXCEPT ![d] = NoCleaning]
      <4>1. /\ new \in [Consumers -> Watches] /\ new[d].pc = "next"
            /\ \A e \in Consumers : e # d => new[e] = cobs[e]
        BY <1>2, NoCleaningType, Zenon
      <4> HIDE DEF new
      <4>2. ItemSound(item, id, new)
        BY Zenon, <1>1, <1>2, <3>1, <4>1, Scanned
      <4>3. Ok(new)
        BY <4>1, <4>2, Zenon DEF OnlyAt
      <4>4. cobs' = new
        BY <1>1, <2>1, <3>2, Zenon DEF new
      <4>5. QED
        BY <4>3, <4>4, Zenon
    <3>3. CASE ~cobs[d].found
      <4> DEFINE new == Goes(d, "remove", 0)
      <4>1. /\ new \in [Consumers -> Watches] /\ new[d].pc = "remove" /\ new[d].id = id
            /\ OnlyAt(id, cobs, new) /\ \A e \in Consumers : e # d => new[e] = cobs[e]
        <5>1. "remove" \in Pcs /\ 0 \in Nat
          BY Zenon DEF Pcs
        <5>2. QED
          BY <1>a, <5>1, GoesIs
      <4> HIDE DEF new
      <4>2. ItemSound(item, id, new)
        BY Zenon, <1>1, <1>2, <3>1, <4>1, Scanned
      <4>3. cobs' = new
        BY <1>1, <2>1, <3>3, Zenon DEF new
      <4>4. QED
        BY <4>1, <4>2, <4>3, Zenon
    <3>4. QED
      BY <3>2, <3>3, Zenon
  <2>2. CASE ~Behind(d) /\ HasToken(d)
    <3> DEFINE new == Goes(d, "mark", at)
    <3>1. /\ new \in [Consumers -> Watches] /\ new[d].pc = "mark" /\ new[d].id = id
          /\ new[d].at = at
          /\ OnlyAt(id, cobs, new) /\ \A e \in Consumers : e # d => new[e] = cobs[e]
      <4>1. "mark" \in Pcs
        BY Zenon DEF Pcs
      <4>2. QED
        BY <1>a, <4>1, GoesIs
    <3>2. cobs' = new /\ at \in DOMAIN item.slot
      BY <1>1, <2>2, Zenon DEF HasToken
    <3> HIDE DEF new
    <3>3. ItemSound(item, id, new)
      BY Zenon, <1>1, <1>2, <3>1, <3>2, Scanned
    <3>4. QED
      BY Zenon, <3>1, <3>2, <3>3
  <2>3. CASE ~Behind(d) /\ ~HasToken(d)
    <3> DEFINE new == Goes(d, "scan", at + 1)
    <3>1. /\ new \in [Consumers -> Watches] /\ new[d].pc = "scan" /\ new[d].id = id
          /\ new[d].at = at + 1
          /\ OnlyAt(id, cobs, new) /\ \A e \in Consumers : e # d => new[e] = cobs[e]
      <4>1. "scan" \in Pcs
        BY Zenon DEF Pcs
      <4>2. QED
        BY <1>a, <4>1, GoesIs
    <3>2. cobs' = new /\ \A b \in DOMAIN item.slot : b >= at /\ item.slot[b] # None => b >= at + 1
      <4>1. cobs' = new /\ (at \in DOMAIN item.slot => item.slot[at] = None)
        BY <1>1, <2>3, Zenon DEF HasToken
      <4>2. \A b \in Nat : b >= at /\ b # at => b >= at + 1
        BY <1>a
      <4>3. QED
        BY <1>2, <4>1, <4>2, Zenon
    <3> HIDE DEF new
    <3>3. ItemSound(item, id, new)
      BY <1>1, <1>2, <3>1, <3>2, Scanned, Zenon
    <3>4. QED
      BY Zenon, <3>1, <3>2, <3>3
  <2>4. QED
    BY <2>1, <2>2, <2>3, Zenon
<1>4. Sound(mPoolList, new)
  BY Zenon, <1>2, <1>3, ObserverChange DEF IInv
<1>5. OnItems(mPoolList, new)
  BY <1>2, <1>3, Zenon DEF IInv, OnItems
<1>6. QED
  BY <1>1, <1>3, <1>4, <1>5, Zenon DEF IInv

LEMMA MarkStep ==
  ASSUME IInv, NEW d \in Consumers, ObserverMarks(d)
  PROVE  IInv'
<1> DEFINE id == cobs[d].id
           at == cobs[d].at
           old == mPoolList[id]
           item == [old EXCEPT !.conn = TRUE]
           gone == Goes(d, "scan", at + 1)
           new == [gone EXCEPT ![d].found = TRUE]
           pool == [mPoolList EXCEPT ![id] = item]
<1>1. /\ cobs[d].pc = "mark" /\ UNCHANGED <<mPoolId, alive>> /\ Update(pool, new, None)
  BY Zenon DEF ObserverMarks
<1>2. /\ id \in DOMAIN mPoolList /\ at + 1 \in Nat /\ old \in Items /\ ItemSound(old, id, cobs)
      /\ cobs \in [Consumers -> Watches]
  BY <1>1, AtWork, SMTT(30)
<1>3. /\ gone \in [Consumers -> Watches] /\ gone[d].pc = "scan" /\ gone[d].id = id
      /\ \A e \in Consumers : e # d => gone[e] = cobs[e]
  <2>1. "scan" \in Pcs
    BY Zenon DEF Pcs
  <2>2. QED
    BY <1>2, <2>1, GoesIs
<1> HIDE DEF gone
<1>4. /\ new \in [Consumers -> Watches] /\ new[d].pc = "scan" /\ new[d].id = id
      /\ \A e \in Consumers : e # d => new[e] = cobs[e]
  <2>1. new[d] = [gone[d] EXCEPT !.found = TRUE] /\ gone[d] \in Watches
    BY <1>3, Zenon
  <2>2. new[d] \in Watches /\ new[d].pc = gone[d].pc /\ new[d].id = gone[d].id
    <3> HIDE DEF new
    <3>1. QED
      BY <2>1, Zenon DEF Watches
  <2>3. \A e \in Consumers : e # d => new[e] = gone[e]
    BY <1>3, Zenon
  <2>4. QED
    BY <1>3, <2>2, <2>3
<1>5. OnlyAt(id, cobs, new)
  BY <1>4 DEF OnlyAt
<1>6. item \in Items
  BY <1>2, ItemFields, ItemsAre, Zenon
<1>7. item.slot = old.slot /\ item.out = old.out /\ item.conn = TRUE /\ item.raced = old.raced
  BY <1>2, ItemsAre, Zenon
<1> HIDE DEF item, new
<1>8. AtSlot(item, id, new) /\ ReturnedFirst(item, id, new)
  BY <1>2, <1>4, <1>7, Zenon DEF ItemSound, AtSlot, ReturnedFirst
<1>9. \A b : Cleaned(id, b, cobs) => Cleaned(id, b, new)
  BY <1>1, <1>4, Zenon DEF Cleaned
<1>10. SlotsAgree(item, id, new) /\ FlagFits(item, id, new)
  BY Zenon, <1>2, <1>7, <1>9 DEF ItemSound, SlotsAgree, FlagFits
<1>11. Sound(pool, new)
  BY <1>2, <1>4, <1>5, <1>6, <1>8, <1>10, ItemChange, Zenon DEF IInv, ItemSound
<1> HIDE DEF pool
<1>12. QED
  BY <1>1, <1>11, UpdateSound, Zenon DEF IInv

LEMMA RemoveStep ==
  ASSUME IInv, NEW d \in Consumers, ObserverRemoves(d)
  PROVE  IInv'
<1> DEFINE id == cobs[d].id
           new == [cobs EXCEPT ![d] = NoCleaning]
<1>1. /\ cobs[d].pc = "remove" /\ UNCHANGED <<mPoolId, alive>>
      /\ Update(removePoolItemLocked(mPoolList, id), new, None)
  BY Zenon DEF ObserverRemoves
<1>2. /\ id \in DOMAIN mPoolList /\ ItemSound(mPoolList[id], id, cobs)
      /\ cobs \in [Consumers -> Watches]
  BY <1>1, AtWork, Zenon
<1>3. /\ new \in [Consumers -> Watches] /\ new[d].pc = "next"
      /\ \A e \in Consumers : e # d => new[e] = cobs[e]
  BY <1>2, NoCleaningType, Zenon
<1> HIDE DEF new
<1>4. ItemSound(mPoolList[id], id, new)
  BY Zenon, <1>1, <1>2, <1>3, Elsewhere
<1>5. OnlyAt(id, cobs, new)
  BY <1>3, Zenon DEF OnlyAt
<1>6. Sound(mPoolList, new)
  BY <1>2, <1>3, <1>4, <1>5, ObserverChange, Zenon DEF IInv
<1>7. QED
  BY <1>1, <1>6, RemoveSound, UpdateSound, Zenon DEF IInv

LEMMA WalkStep ==
  ASSUME IInv, NEW p \in Producers, WalkCompares(p) \/ WalkRemoves(p)
  PROVE  IInv'
<1>1. CASE WalkCompares(p)
  <2> DEFINE mine == {id \in IdAt(pobs[p].i) : mPoolList[id].prod = p}
             item(id) == IF id \in mine THEN [mPoolList[id] EXCEPT !.prod = None] ELSE mPoolList[id]
             pool == [id \in DOMAIN mPoolList |-> item(id)]
  <2>1. Update(pool, cobs, p) /\ UNCHANGED <<mPoolId, alive>>
    BY <1>1 DEF WalkCompares
  <2>2. ASSUME NEW id \in DOMAIN mPoolList
        PROVE  item(id) \in Items /\ ItemSound(item(id), id, cobs)
    <3>1. mPoolList[id] \in Items /\ ItemSound(mPoolList[id], id, cobs)
      BY Zenon DEF IInv, Sound
    <3>2. CASE id \notin mine
      BY <3>1, <3>2
    <3>3. CASE id \in mine
      <4> DEFINE new == [mPoolList[id] EXCEPT !.prod = None]
      <4>1. new \in Items
        BY <3>1, ItemsAre, Zenon
      <4>2. /\ new.slot = mPoolList[id].slot /\ new.out = mPoolList[id].out
            /\ new.conn = mPoolList[id].conn /\ new.left = mPoolList[id].left
            /\ new.raced = mPoolList[id].raced
        BY <3>1, ItemsAre
      <4>3. ItemSound(new, id, cobs)
        BY <3>1, <4>2, SameFields, Zenon
      <4>4. QED
        BY <3>3, <4>1, <4>3
    <3>4. QED
      BY <3>2, <3>3
  <2> HIDE DEF item
  <2>3. Sound(pool, cobs)
    BY <2>2, Zenon DEF IInv, Sound
  <2> HIDE DEF pool
  <2>4. QED
    BY <2>1, <2>3, UpdateSound, Zenon DEF IInv
<1>2. CASE WalkRemoves(p)
  <2>1. PICK pool : Update(pool, cobs, p) /\ UNCHANGED <<mPoolId, alive>> /\ Sound(pool, cobs)
    <3>1. CASE IdAt(pobs[p].i) = {}
      BY <1>2, <3>1, Zenon DEF WalkRemoves, IInv
    <3>2. CASE IdAt(pobs[p].i) # {}
      BY Zenon, <1>2, <3>2, RemoveSound DEF WalkRemoves, IInv
    <3>3. QED
      BY <3>1, <3>2, Zenon
  <2>2. QED
    BY <2>1, UpdateSound, Zenon DEF IInv
<1>3. QED
  BY <1>1, <1>2, Zenon

LEMMA OtherStep ==
  ASSUME IInv, UNCHANGED <<mPoolList, cobs, mPoolId>>, alive' \subseteq alive
  PROVE  IInv'
BY Zenon DEF IInv, Sound, OnItems

-----------------------------------------------------------------------------
(* The invariant. *)

\* Every state satisfies the inductive invariant: slots and queues agree except
\* where an observer is at work (GuiExtImpl.cpp:704), and a token without the flag
\* lies ahead of a scanning observer (:712) or was left by a disconnect (:835).
THEOREM Invariance == Spec => []IInv
<1>1. Init => IInv
  <2> SUFFICES ASSUME Init PROVE IInv
    BY Zenon
  <2>1. DOMAIN mPoolList = {} /\ mPoolList \in [{} -> Items]
    BY Zenon DEF Init
  <2>2. cobs \in [Consumers -> Watches] /\ \A d \in Consumers : cobs[d].pc = "next"
    BY NoCleaningType, Zenon DEF Init
  <2>3. mPoolId \in 0..MaxAlloc /\ alive \in SUBSET (Producers \cup Consumers)
    BY ConstantTypes DEF Init
  <2>4. QED
    BY <2>1, <2>2, <2>3, Zenon DEF IInv, Sound, OnItems
<1>2. IInv /\ [Next]_vars => IInv'
  <2> SUFFICES ASSUME IInv, [Next]_vars PROVE IInv'
    BY Zenon
  <2>1. CASE UNCHANGED vars
    BY <2>1, OtherStep, Zenon DEF vars
  <2>2. ASSUME NEW c \in Consumers, ConsumerCalls(c) PROVE IInv'
    <3>1. ASSUME NEW id \in Ids, NEW b \in Bufs, ClientAcquires(c, id, b) PROVE IInv'
      BY <3>1, AcquireStep, Zenon
    <3>2. ASSUME NEW id \in Ids, NEW b \in Bufs, ClientReleases(c, id, b) PROVE IInv'
      BY <3>2, ReleaseStep
    <3>3. ASSUME NEW id \in Ids, NEW t \in Types, ClientFallsBack(c, id, t) PROVE IInv'
      BY <3>3, OtherStep, Zenon DEF ClientFallsBack
    <3>4. ASSUME NEW id \in Ids, NEW t \in Types, ClientGivesBack(c, id, t) PROVE IInv'
      BY <3>4, GiveBackStep
    <3>5. ASSUME NEW id \in Ids, NEW t \in Types, ClientLeaves(c, id, t) PROVE IInv'
      BY <3>5, LeaveStep
    <3>6. CASE ClientRequests(c)
      BY <3>6, OtherStep DEF ClientRequests
    <3>7. QED
      BY <2>2, <3>1, <3>2, <3>3, <3>4, <3>5, <3>6, Zenon DEF ConsumerCalls
  <2>3. ASSUME NEW c \in Consumers, ConsumerDies(c) PROVE IInv'
    BY <2>3, OtherStep, Zenon DEF ConsumerDies
  <2>4. ASSUME NEW d \in Consumers, ConsumerObserver(d) PROVE IInv'
    BY <2>4, BeginStep, CompareStep, CancelStep, ClearStep, FlagStep, ScanStep, MarkStep,
       RemoveStep, Zenon
       DEF ConsumerObserver
  <2>5. ASSUME NEW p \in Producers, ProducerCalls(p) PROVE IInv'
    BY <2>5, AllocStep, FreeStep, Zenon DEF ProducerCalls
  <2>6. ASSUME NEW p \in Producers, ProducerDies(p) PROVE IInv'
    BY <2>6, OtherStep, Zenon DEF ProducerDies
  <2>7. ASSUME NEW p \in Producers, ProducerObserver(p) PROVE IInv'
    <3>1. ASSUME NEW id \in Ids, WalkBegins(p, id) PROVE IInv'
      BY <3>1, OtherStep, Zenon DEF WalkBegins
    <3>2. QED
      BY <2>7, <3>1, WalkStep, Zenon DEF ProducerObserver
  <2>8. ASSUME NEW t \in Types, NEW enable \in BOOLEAN, configDisplay(t, enable) PROVE IInv'
    BY <2>8, OtherStep, Zenon DEF configDisplay
  <2>9. QED
    BY <2>1, <2>2, <2>3, <2>4, <2>5, <2>6, <2>7, <2>8, Zenon DEF Next
<1>3. QED
  BY <1>1, <1>2, PTL DEF Spec

\* A buffer is out of its queue exactly as long as a slot names its holder, unless
\* an observer is at the slot or a call came into its work (GuiExtImpl.cpp:704, 746).
THEOREM SlotsMatchQueueHolds == Spec => []SlotsMatchQueue
<1>1. IInv => SlotsMatchQueue
  <2> SUFFICES ASSUME IInv, NEW id \in DOMAIN mPoolList, NEW b \in DOMAIN mPoolList[id].slot
               PROVE  \/ mPoolList[id].raced \/ BeingCleaned(id, b)
                      \/ (b \in mPoolList[id].out) = (mPoolList[id].slot[b] # None)
    BY Zenon DEF SlotsMatchQueue
  <2>1. SlotsAgree(mPoolList[id], id, cobs)
    BY Zenon DEF IInv, Sound, ItemSound
  <2>2. Cleaned(id, b, cobs) => BeingCleaned(id, b)
    BY Zenon DEF Cleaned, BeingCleaned
  <2>3. QED
    BY <2>1, <2>2 DEF SlotsAgree
<1>2. QED
  BY <1>1, Invariance, PTL

-----------------------------------------------------------------------------
(* Removal. *)
LEMMA UpdateDomain ==
  ASSUME NEW pool, NEW co, NEW self, Update(pool, co, self)
  PROVE  DOMAIN mPoolList' = DOMAIN pool
BY DEF Update

LEMMA RemovedIs ==
  ASSUME NEW pool, NEW id, NEW j \in DOMAIN pool, j \notin DOMAIN removePoolItemLocked(pool, id)
  PROVE  j = id /\ ~pool[j].conn
BY SMTT(30) DEF removePoolItemLocked, Unused

\* An item goes only with its flag set, or in a disconnect.
LEMMA Removal ==
  ASSUME IInv, Next, NEW j \in DOMAIN mPoolList, j \notin DOMAIN mPoolList'
  PROVE  ~mPoolList[j].conn \/ \E c \in Consumers, t \in Types : ClientLeaves(c, j, t)
<1>1. ASSUME NEW p \in Producers, NEW id \in Ids, free(p, id)
      PROVE  ~mPoolList[j].conn
  <2> DEFINE pool == [mPoolList EXCEPT ![id].prod = None]
  <2>1. DOMAIN pool = DOMAIN mPoolList /\ pool[j].conn = mPoolList[j].conn
    <3>1. mPoolList[j] \in Items /\ mPoolList \in [DOMAIN mPoolList -> Items]
      BY Zenon DEF IInv, Sound
    <3>2. [mPoolList[j] EXCEPT !.prod = None].conn = mPoolList[j].conn
      BY <3>1, ItemsAre
    <3>3. pool[j] = mPoolList[j] \/ pool[j] = [mPoolList[j] EXCEPT !.prod = None]
      BY <3>1, Zenon
    <3>4. DOMAIN pool = DOMAIN mPoolList
      BY <3>1
    <3>5. QED
      BY <3>2, <3>3, <3>4, Zenon
  <2>2. Update(removePoolItemLocked(pool, id), cobs, None)
    BY <1>1 DEF free
  <2> HIDE DEF pool
  <2>3. QED
    BY <2>1, <2>2, UpdateDomain, RemovedIs
<1>2. ASSUME NEW c \in Consumers, NEW id \in Ids, NEW t \in Types, ClientLeaves(c, id, t)
      PROVE  j = id
  <2> DEFINE pool == IF id \in DOMAIN mPoolList
                     THEN [mPoolList EXCEPT ![id] = Disconnected(mPoolList[id], c, BeingMarked(id))]
                     ELSE mPoolList
  <2>1. Update(removePoolItemLocked(pool, id), cobs, None)
    BY <1>2, Zenon DEF ClientLeaves
  <2>2. DOMAIN pool = DOMAIN mPoolList
    BY Zenon
  <2> HIDE DEF pool
  <2>3. QED
    BY <2>1, <2>2, UpdateDomain, RemovedIs, Zenon
<1>3. ASSUME NEW d \in Consumers, ObserverRemoves(d)
      PROVE  ~mPoolList[j].conn
  BY <1>3, UpdateDomain, RemovedIs, SMTT(30) DEF ObserverRemoves
<1>4. ASSUME NEW p \in Producers, WalkRemoves(p)
      PROVE  ~mPoolList[j].conn
  <2>1. CASE IdAt(pobs[p].i) = {}
    BY <1>4, <2>1, UpdateDomain, Zenon DEF WalkRemoves
  <2>2. CASE IdAt(pobs[p].i) # {}
    BY <1>4, <2>2, UpdateDomain, RemovedIs DEF WalkRemoves
  <2>3. QED
    BY <2>1, <2>2, Zenon
<1>5. ASSUME NEW c \in Consumers, NEW id, NEW b PROVE DOMAIN ReleasedIn(mPoolList, id, b) = DOMAIN mPoolList
  BY Zenon DEF ReleasedIn
<1>6. ASSUME NEW c \in Consumers, ConsumerCalls(c), ~ \E t \in Types : ClientLeaves(c, j, t)
      PROVE  FALSE
  <2>1. ASSUME NEW id \in Ids, NEW b \in Bufs, ClientAcquires(c, id, b) PROVE FALSE
    BY <2>1, UpdateDomain DEF ClientAcquires
  <2>2. ASSUME NEW id \in Ids, NEW b \in Bufs, ClientReleases(c, id, b) PROVE FALSE
    BY <2>2, <1>5, UpdateDomain, Zenon DEF ClientReleases
  <2>3. ASSUME NEW id \in Ids, NEW t \in Types, ClientFallsBack(c, id, t) PROVE FALSE
    BY <2>3, Zenon DEF ClientFallsBack
  <2>4. ASSUME NEW id \in Ids, NEW t \in Types, ClientGivesBack(c, id, t) PROVE FALSE
    <3>1. PICK b : Update(ReleasedIn(mPoolList, id, b), cobs, None)
      BY <2>4, Zenon DEF ClientGivesBack
    <3>2. QED
      BY <3>1, <1>5, UpdateDomain, Zenon
  <2>5. ASSUME NEW id \in Ids, NEW t \in Types, ClientLeaves(c, id, t) PROVE FALSE
    BY <2>5, <1>2, <1>6, Zenon
  <2>6. CASE ClientRequests(c)
    BY <2>6, Zenon DEF ClientRequests
  <2>7. QED
    BY <1>6, <2>1, <2>2, <2>3, <2>4, <2>5, <2>6, Zenon DEF ConsumerCalls
<1>7. ASSUME NEW d \in Consumers, ConsumerObserver(d)
      PROVE  ~mPoolList[j].conn
  <2>1. CASE (\E id \in Ids : ObserverBegins(d, id)) \/ ObserverCompares(d) \/ ObserverScans(d)
    BY <2>1, Zenon DEF ObserverBegins, ObserverCompares, ObserverScans
  <2>2. CASE ObserverCancels(d)
    BY <2>2, UpdateDomain DEF ObserverCancels
  <2>3. CASE ObserverClears(d)
    BY <2>3, UpdateDomain, SMTT(30) DEF ObserverClears
  <2>4. CASE ObserverSetsFlags(d)
    BY <2>4, UpdateDomain DEF ObserverSetsFlags
  <2>5. CASE ObserverMarks(d)
    BY <2>5, UpdateDomain, SMTT(30) DEF ObserverMarks
  <2>6. QED
    BY <1>3, <1>7, <2>1, <2>2, <2>3, <2>4, <2>5, Zenon DEF ConsumerObserver
<1>8. ASSUME NEW p \in Producers, NEW hwc \in BOOLEAN, alloc(p, hwc) PROVE FALSE
  BY <1>8, UpdateDomain, SMTT(30) DEF alloc
<1>9. ASSUME NEW p \in Producers, ProducerObserver(p) PROVE ~mPoolList[j].conn
  <2>1. CASE \E id \in Ids : WalkBegins(p, id)
    BY <2>1, Zenon DEF WalkBegins
  <2>2. CASE WalkCompares(p)
    BY <2>2, UpdateDomain DEF WalkCompares
  <2>3. QED
    BY <1>4, <1>9, <2>1, <2>2, Zenon DEF ProducerObserver
<1>10. ASSUME NEW c \in Consumers, ConsumerDies(c) PROVE FALSE
  BY <1>10, Zenon DEF ConsumerDies
<1>11. ASSUME NEW p \in Producers, ProducerDies(p) PROVE FALSE
  BY <1>11 DEF ProducerDies
<1>12. ASSUME NEW t \in Types, NEW enable \in BOOLEAN, configDisplay(t, enable) PROVE FALSE
  BY <1>12, Zenon DEF configDisplay
<1>13. QED
  BY <1>1, <1>6, <1>7, <1>8, <1>9, <1>10, <1>11, <1>12, Zenon DEF Next, ProducerCalls

\* An item with a registered live consumer is not removed, outside of the cases
\* that HeldKept names (GuiExtImpl.cpp:390, 712, 835).
THEOREM HeldKeptHolds == Spec => HeldKept
<1> DEFINE Kept(id) ==
       \/ \A b \in DOMAIN mPoolList[id].slot : mPoolList[id].slot[b] \notin alive
       \/ mPoolList[id].left \/ \E c \in Consumers, t \in Types : ClientLeaves(c, id, t)
       \/ \E d \in Consumers : cobs[d].id = id /\ cobs[d].pc \in {"scan", "mark"}
<1>1. ASSUME IInv, Next, NEW id \in DOMAIN mPoolList \ DOMAIN mPoolList'
      PROVE  Kept(id)
  <2>1. SUFFICES ASSUME ~mPoolList[id].conn, ~mPoolList[id].left,
                        ~ \E d \in Consumers : cobs[d].id = id /\ cobs[d].pc \in {"scan", "mark"}
                 PROVE  \A b \in DOMAIN mPoolList[id].slot : mPoolList[id].slot[b] \notin alive
    BY <1>1, Removal, Zenon
  <2>2. FlagFits(mPoolList[id], id, cobs) /\ None \notin alive
    BY <1>1, ConstantTypes, Zenon DEF IInv, Sound, ItemSound
  <2>3. QED
    BY <2>1, <2>2, Zenon DEF FlagFits, Ahead
<1>2. IInv /\ [Next]_vars => [\A id \in DOMAIN mPoolList \ DOMAIN mPoolList' : Kept(id)]_vars
  BY <1>1, Zenon
<1>3. QED
  BY <1>2, Invariance, PTL DEF Spec, HeldKept

-----------------------------------------------------------------------------
(* Type correctness. *)

\* A buffer that is out of its queue is one of the item's own.
Fit(item) == item \in Items /\ item.out \subseteq DOMAIN item.slot
Fits(pool) == \A id \in DOMAIN pool : Fit(pool[id])

\* An observer does not go beyond the end of the slots.
Within(co) == \A d \in Consumers : co[d].at \in 0..(NumTypes * BufNum)

ClientsFit ==
  /\ client \in [Consumers -> Clients]
  /\ \A c \in Consumers : client[c].acquired \subseteq client[c].slots

LEMMA ItemChangesFit ==
  ASSUME NEW item, Fit(item), NEW b
  PROVE  /\ Fit([item EXCEPT !.prod = None]) /\ Fit([item EXCEPT !.out = item.out \ {b}])
         /\ Fit([item EXCEPT !.slot = [item.slot EXCEPT ![b] = None]])
         /\ Fit([item EXCEPT !.conn = TRUE])
         /\ \A r \in BOOLEAN : Fit([item EXCEPT !.raced = r])
<1>1. item \in Items /\ item.out \subseteq DOMAIN item.slot
  BY Zenon DEF Fit
<1> DEFINE s == [item.slot EXCEPT ![b] = None]
<1>2. s \in SlotFns /\ DOMAIN s = DOMAIN item.slot
  BY <1>1, ItemFields, SlotType, Zenon
<1> HIDE DEF s
<1>3. Fit([item EXCEPT !.prod = None])
  BY <1>1, ItemsAre, Zenon DEF Fit
<1>4. Fit([item EXCEPT !.out = item.out \ {b}])
  BY <1>1, ItemsAre, Zenon DEF Fit
<1>5. Fit([item EXCEPT !.slot = s])
  BY <1>1, <1>2, ItemsAre, Zenon DEF Fit
<1>6. Fit([item EXCEPT !.conn = TRUE])
  <2>1. [item EXCEPT !.conn = TRUE] \in Items
    BY <1>1, ItemFields, ItemsAre, Zenon
  <2>2. /\ [item EXCEPT !.conn = TRUE].out = item.out
        /\ [item EXCEPT !.conn = TRUE].slot = item.slot
    BY <1>1, ItemsAre, Zenon
  <2>3. QED
    BY <1>1, <2>1, <2>2, Zenon DEF Fit
<1>7. ASSUME NEW r \in BOOLEAN PROVE Fit([item EXCEPT !.raced = r])
  <2>1. [item EXCEPT !.raced = r] \in Items
    BY <1>1, ItemFields, ItemsAre, Zenon
  <2>2. /\ [item EXCEPT !.raced = r].out = item.out
        /\ [item EXCEPT !.raced = r].slot = item.slot
    BY <1>1, ItemsAre, Zenon
  <2>3. QED
    BY <1>1, <2>1, <2>2, Zenon DEF Fit
<1>8. QED
  BY <1>3, <1>4, <1>5, <1>6, <1>7 DEF s

LEMMA ReleasedFit ==
  ASSUME NEW item, Fit(item), NEW b
  PROVE  Fit(Released(item, b))
<1>1. CASE b \notin DOMAIN item.slot
  BY <1>1, Zenon DEF Released
<1>2. CASE b \in DOMAIN item.slot
  <2> DEFINE new == Released(item, b)
             s == [item.slot EXCEPT ![b] = None]
  <2>1. item \in Items /\ item.out \subseteq DOMAIN item.slot
    BY Zenon DEF Fit
  <2>2. s \in SlotFns /\ DOMAIN s = DOMAIN item.slot
    BY <2>1, ItemFields, SlotType, Zenon
  <2>3. new = [item EXCEPT !.out = item.out \ {b}, !.slot = s]
    BY <1>2, Zenon DEF Released
  <2> HIDE DEF s, new
  <2>4. new \in Items
    BY <2>1, <2>2, <2>3, ItemFields, ItemsAre, Zenon
  <2>5. new.slot = s /\ new.out = item.out \ {b}
    BY <2>1, <2>3, ItemsAre, Zenon
  <2>6. QED
    BY <2>1, <2>2, <2>4, <2>5, Zenon DEF Fit, new
<1>3. QED
  BY <1>1, <1>2, Zenon

LEMMA AcquiredFit ==
  ASSUME NEW item, Fit(item), NEW c \in Consumers, NEW b \in DOMAIN item.slot,
         NEW r \in BOOLEAN
  PROVE  Fit(Acquired(item, c, b, r))
<1> DEFINE new == Acquired(item, c, b, r)
           v == IF item.slot[b] = None THEN c ELSE item.slot[b]
           s == [item.slot EXCEPT ![b] = v]
           q == item.raced \/ r
<1>1. item \in Items /\ item.out \subseteq DOMAIN item.slot /\ q \in BOOLEAN
  BY Zenon DEF Fit
<1>2. v \in Consumers \cup {None} /\ DOMAIN item.slot \subseteq Bufs
  BY <1>1, ItemFields, SlotType, ConstantTypes, Zenon
<1>3. s \in SlotFns /\ DOMAIN s = DOMAIN item.slot
  BY <1>1, <1>2, ItemFields, SlotType, Zenon
<1> DEFINE o == item.out \cup {b}
           u == item.users \cup {c}
<1>4. new = [item EXCEPT !.out = o, !.slot = s, !.conn = TRUE, !.users = u, !.left = FALSE,
                         !.raced = q]
  BY Zenon DEF Acquired
<1>5. o \in SUBSET Bufs /\ u \in SUBSET Consumers /\ o \subseteq DOMAIN item.slot
  BY <1>1, <1>2, ItemFields, Zenon
<1> HIDE DEF v, s, q, o, u, new
<1>6. new \in Items
  BY <1>1, <1>3, <1>4, <1>5, ItemFields, ItemsAre, ZenonT(30)
<1>7. new.slot = s /\ new.out = o
  BY <1>1, <1>4, ItemsAre, Zenon
<1>8. QED
  BY <1>3, <1>5, <1>6, <1>7, Zenon DEF Fit, new

\* disconnect() and the flags that an observer sets change neither slots nor queue.
LEMMA FlagsFit ==
  ASSUME NEW item, Fit(item), NEW c, NEW r \in BOOLEAN
  PROVE  Fit(Disconnected(item, c, r)) /\ Fit(FlagsSet(item, c, r))
<1> DEFINE q == item.raced \/ r
<1>1. item \in Items /\ item.out \subseteq DOMAIN item.slot /\ q \in BOOLEAN
  BY Zenon DEF Fit
<1>2. ASSUME NEW u \in SUBSET Consumers, NEW new,
             new = [item EXCEPT !.conn = FALSE, !.left = TRUE, !.raced = q, !.users = u]
      PROVE  Fit(new)
  <2> HIDE DEF q
  <2>1. new \in Items
    BY <1>1, <1>2, ItemFields, ItemsAre, ZenonT(30)
  <2>2. new.slot = item.slot /\ new.out = item.out
    BY <1>1, <1>2, ItemsAre, Zenon
  <2>3. QED
    BY <1>1, <2>1, <2>2, Zenon DEF Fit
<1>0. ASSUME NEW u \in SUBSET Consumers, NEW new,
             new = [item EXCEPT !.conn = FALSE, !.users = u, !.raced = q]
      PROVE  Fit(new)
  <2> HIDE DEF q
  <2>1. new \in Items
    BY <1>0, <1>1, ItemFields, ItemsAre, ZenonT(30)
  <2>2. new.slot = item.slot /\ new.out = item.out
    BY <1>0, <1>1, ItemsAre, Zenon
  <2>3. QED
    BY <1>1, <2>1, <2>2, Zenon DEF Fit
<1> DEFINE u == IF \E b \in DOMAIN item.slot : item.slot[b] = c THEN item.users
                ELSE item.users \ {c}
<1>3. u \in SUBSET Consumers /\ item.users \ {c} \in SUBSET Consumers
  BY <1>1, ItemFields, Zenon
<1>4. ASSUME item.hwc PROVE Fit(Disconnected(item, c, r))
  <2>1. Disconnected(item, c, r)
          = [item EXCEPT !.conn = FALSE, !.left = TRUE, !.raced = q, !.users = u]
    BY <1>4, Zenon DEF Disconnected
  <2> HIDE DEF u
  <2>2. QED
    BY <1>2, <1>3, <2>1, Zenon
<1>5. ASSUME ~item.hwc PROVE Fit(Disconnected(item, c, r))
  BY <1>5 DEF Disconnected
<1>6. FlagsSet(item, c, r) = [item EXCEPT !.conn = FALSE, !.users = item.users \ {c}, !.raced = q]
  BY SMTT(30) DEF FlagsSet
<1>7. Fit(FlagsSet(item, c, r))
  BY <1>0, <1>3, <1>6, Zenon
<1>8. Fit(Disconnected(item, c, r))
  BY <1>4, <1>5, Zenon
<1>9. QED
  BY <1>7, <1>8, Zenon

LEMMA ListFits ==
  ASSUME NEW pool, Fits(pool), NEW id
  PROVE  /\ Fits(removePoolItemLocked(pool, id))
         /\ \A item : (id \in DOMAIN pool => Fit(item)) => Fits([pool EXCEPT ![id] = item])
         /\ \A b : Fits(ReleasedIn(pool, id, b))
<1>1. Fits(removePoolItemLocked(pool, id))
  BY Zenon DEF Fits, removePoolItemLocked
<1>2. ASSUME NEW item, id \in DOMAIN pool => Fit(item) PROVE Fits([pool EXCEPT ![id] = item])
  BY <1>2 DEF Fits
<1>3. ASSUME NEW b PROVE Fits(ReleasedIn(pool, id, b))
  <2>1. id \in DOMAIN pool => Fit(Released(pool[id], b))
    BY ReleasedFit, Zenon DEF Fits
  <2>2. ReleasedIn(pool, id, b) \in {pool, [pool EXCEPT ![id] = Released(pool[id], b)]}
    BY Zenon DEF ReleasedIn
  <2>3. QED
    BY <1>2, <2>1, <2>2, Zenon
<1>4. QED
  BY <1>1, <1>2, <1>3, Zenon

LEMMA UpdateFits ==
  ASSUME NEW pool, NEW co, NEW self, Fits(pool), Within(co), Update(pool, co, self)
  PROVE  Fits(mPoolList') /\ Within(cobs')
<1> DEFINE sh == /\ DOMAIN pool # DOMAIN mPoolList
                 /\ \E p \in Producers \ {self} : pobs[p].pc # "next"
           r(id) == pool[id].raced \/ sh
<1>1. /\ mPoolList' = [id \in DOMAIN pool |-> [pool[id] EXCEPT !.raced = r(id)]]
      /\ cobs' = [c \in Consumers |->
                   IF co[c].pc # "next" /\ co[c].id \notin DOMAIN pool THEN NoCleaning ELSE co[c]]
  BY Zenon DEF Update
<1>2. \A id : r(id) \in BOOLEAN
  BY Zenon
<1> HIDE DEF r
<1>3. Fits(mPoolList')
  <2> SUFFICES ASSUME NEW id \in DOMAIN pool PROVE Fit([pool[id] EXCEPT !.raced = r(id)])
    BY <1>1, Zenon DEF Fits
  <2>1. Fit(pool[id])
    BY Zenon DEF Fits
  <2>2. QED
    BY <1>2, <2>1, ItemChangesFit, Zenon
<1>4. NoCleaning.at \in 0..(NumTypes * BufNum)
  BY ConstantTypes DEF NoCleaning
<1>5. Within(cobs')
  BY <1>1, <1>4 DEF Within
<1>6. QED
  BY <1>3, <1>5, Zenon

LEMMA Ends ==
  /\ NumTypes * BufNum \in Nat \ {0}
  /\ Bufs \subseteq 0..(NumTypes * BufNum) /\ 0 \in Bufs
  /\ \A b \in Bufs : b + 1 \in 0..(NumTypes * BufNum)
  /\ \A t \in Types : t * BufNum \in Bufs
<1>1. NumTypes * BufNum \in Nat \ {0}
  BY ConstantTypes
<1>2. ASSUME NEW t \in Types PROVE t * BufNum \in Nat /\ t * BufNum < NumTypes * BufNum
  <2>1. t \in Nat /\ t + 1 <= NumTypes
    BY ConstantTypes DEF Types
  <2>2. \A m, n, k \in Nat : m <= n => m * k <= n * k
    OBVIOUS
  <2>3. (t + 1) * BufNum <= NumTypes * BufNum
    BY <2>1, <2>2, ConstantTypes
  <2>4. (t + 1) * BufNum = t * BufNum + BufNum /\ t * BufNum \in Nat
    BY <2>1, ConstantTypes
  <2>5. QED
    BY <2>3, <2>4, <1>1, ConstantTypes
<1> DEFINE n == NumTypes * BufNum
<1> HIDE DEF n
<1>3. n \in Nat \ {0} /\ Bufs = 0..(n - 1)
  BY <1>1, Zenon DEF n, Bufs
<1>4. Bufs \subseteq 0..n /\ 0 \in Bufs /\ \A b \in Bufs : b + 1 \in 0..n
  BY <1>3
<1>5. \A k \in Nat : k < n => k \in Bufs
  BY <1>3
<1>6. QED
  BY <1>1, <1>2, <1>4, <1>5, Zenon DEF n

LEMMA GoesWithin ==
  ASSUME cobs \in [Consumers -> Watches], Within(cobs), NEW d \in Consumers, NEW pc \in Pcs,
         NEW at \in 0..(NumTypes * BufNum)
  PROVE  Within(Goes(d, pc, at))
<1>1. at \in Nat
  BY Ends
<1>2. Goes(d, pc, at)[d].at = at /\ \A e \in Consumers : e # d => Goes(d, pc, at)[e] = cobs[e]
  BY <1>1, GoesIs
<1>3. QED
  BY <1>2, Zenon DEF Within

LEMMA NoCleaningWithin ==
  ASSUME cobs \in [Consumers -> Watches], Within(cobs), NEW d \in Consumers, NEW w,
         w.at = 0
  PROVE  Within([cobs EXCEPT ![d] = w])
<1>1. 0 \in 0..(NumTypes * BufNum)
  BY Ends, Zenon
<1>2. QED
  BY <1>1, Zenon DEF Within

LEMMA SlotsWithin ==
  ASSUME IInv, NEW d \in Consumers, cobs[d].pc # "next"
  PROVE  /\ \A b \in DOMAIN Item(d).slot : b \in Bufs
         /\ cobs[d].pc \in {"cancel", "clear", "mark"} => cobs[d].at \in Bufs
<1>1. /\ Item(d) \in Items /\ ItemSound(Item(d), cobs[d].id, cobs)
  BY AtWork, Zenon
<1>2. DOMAIN Item(d).slot \subseteq Bufs
  BY <1>1, ItemFields, SlotType, Zenon
<1>3. QED
  BY <1>1, <1>2, Zenon DEF ItemSound, AtSlot

\* The observer of a dead consumer.
LEMMA ObserverFits ==
  ASSUME IInv, Fits(mPoolList), Within(cobs), NEW d \in Consumers, ConsumerObserver(d)
  PROVE  Fits(mPoolList') /\ Within(cobs')
<1> DEFINE id == cobs[d].id
<1>0. cobs \in [Consumers -> Watches] /\ \A j \in DOMAIN mPoolList : Fit(mPoolList[j])
  BY Zenon DEF IInv, Sound, Fits
<1>p. \A pc \in {"flag", "cancel", "clear", "compare", "scan", "mark", "remove"} : pc \in Pcs
  BY DEF Pcs
<1>z. 0 \in 0..(NumTypes * BufNum)
  BY Ends, Zenon
<1>1. ASSUME NEW j \in Ids, ObserverBegins(d, j) PROVE Fits(mPoolList') /\ Within(cobs')
  BY <1>0, <1>1, NoCleaningWithin, Zenon DEF ObserverBegins
<1>2. CASE ObserverCompares(d)
  <2> DEFINE matching == {b \in DOMAIN Item(d).slot : b >= cobs[d].at /\ Item(d).slot[b] = d}
  <2>1. /\ cobs[d].pc = "compare" /\ UNCHANGED mPoolList
        /\ cobs' = IF matching = {} THEN Goes(d, "flag", 0) ELSE Goes(d, "cancel", Min(matching))
    BY <1>2, Zenon DEF ObserverCompares
  <2>2. matching # {} => Min(matching) \in DOMAIN Item(d).slot
    BY <2>1, AtWork, MinIs, SMTT(30)
  <2> HIDE DEF matching
  <2>3. matching # {} => Min(matching) \in 0..(NumTypes * BufNum)
    BY <2>1, <2>2, SlotsWithin, Ends, Zenon
  <2>4. Within(cobs')
    BY <1>0, <1>p, <1>z, <2>1, <2>3, GoesWithin, Zenon
  <2>5. QED
    BY <2>1, <2>4, Zenon
<1>3. CASE ObserverCancels(d)
  <2> DEFINE item == [mPoolList[id] EXCEPT !.out = mPoolList[id].out \ {cobs[d].at}]
             pool == [mPoolList EXCEPT ![id] = item]
  <2>1. cobs[d].pc = "cancel" /\ Update(pool, Goes(d, "clear", cobs[d].at), None)
    BY <1>3, Zenon DEF ObserverCancels
  <2>2. id \in DOMAIN mPoolList => Fit(item)
    BY <1>0, ItemChangesFit, Zenon
  <2> HIDE DEF item
  <2>3. Fits(pool)
    BY <2>2, ListFits, Zenon
  <2>4. Within(Goes(d, "clear", cobs[d].at))
    BY <1>0, <1>p, GoesWithin, Zenon DEF Within
  <2>5. QED
    BY <2>1, <2>3, <2>4, UpdateFits, Zenon
<1>4. CASE ObserverClears(d)
  <2> DEFINE item == [mPoolList[id] EXCEPT !.slot = [mPoolList[id].slot EXCEPT ![cobs[d].at] = None]]
             pool == [mPoolList EXCEPT ![id] = item]
  <2>1. cobs[d].pc = "clear" /\ Update(pool, Goes(d, "compare", cobs[d].at + 1), None)
    BY <1>4, Zenon DEF ObserverClears
  <2>2. id \in DOMAIN mPoolList => Fit(item)
    BY <1>0, ItemChangesFit, Zenon
  <2> HIDE DEF item
  <2>3. Fits(pool)
    BY <2>2, ListFits, Zenon
  <2>4. cobs[d].at + 1 \in 0..(NumTypes * BufNum)
    BY <2>1, SlotsWithin, Ends, Zenon
  <2>5. Within(Goes(d, "compare", cobs[d].at + 1))
    BY <1>0, <1>p, <2>4, GoesWithin, Zenon
  <2>6. QED
    BY <2>1, <2>3, <2>5, UpdateFits, Zenon
<1>5. CASE ObserverSetsFlags(d)
  <2> DEFINE item == FlagsSet(mPoolList[id], d, BeingMarked(id))
             pool == [mPoolList EXCEPT ![id] = item]
  <2>1. Update(pool, Goes(d, "scan", 0), None)
    BY <1>5, Zenon DEF ObserverSetsFlags
  <2>2. BeingMarked(id) \in BOOLEAN
    BY Zenon DEF BeingMarked
  <2>3. id \in DOMAIN mPoolList => Fit(item)
    BY <1>0, <2>2, FlagsFit, Zenon
  <2> HIDE DEF item
  <2>4. Fits(pool)
    BY <2>3, ListFits, Zenon
  <2>5. Within(Goes(d, "scan", 0))
    BY <1>0, <1>p, <1>z, GoesWithin, Zenon
  <2>6. QED
    BY <2>1, <2>4, <2>5, UpdateFits, Zenon
<1>6. CASE ObserverScans(d)
  <2>1. /\ cobs[d].pc = "scan" /\ UNCHANGED mPoolList
        /\ \/ cobs' = [cobs EXCEPT ![d] = NoCleaning] \/ cobs' = Goes(d, "remove", 0)
           \/ cobs' = Goes(d, "mark", cobs[d].at)
           \/ ~Behind(d) /\ cobs' = Goes(d, "scan", cobs[d].at + 1)
    BY <1>6, Zenon DEF ObserverScans
  <2>2. ~Behind(d) => cobs[d].at + 1 \in 0..(NumTypes * BufNum)
    <3> SUFFICES ASSUME ~Behind(d) PROVE cobs[d].at + 1 \in 0..(NumTypes * BufNum)
      BY Zenon
    <3>1. PICK b \in DOMAIN Item(d).slot : ~(b < cobs[d].at)
      BY Zenon DEF Behind
    <3>2. cobs[d].at \in Nat /\ b \in Nat /\ b + 1 \in 0..(NumTypes * BufNum)
      BY <2>1, AtWork, SlotsWithin, Ends, BufsAreNat, Zenon
    <3>3. QED
      BY <3>1, <3>2, Ends
  <2>3. Within([cobs EXCEPT ![d] = NoCleaning])
    BY <1>0, NoCleaningWithin, Zenon DEF NoCleaning
  <2>4. Within(Goes(d, "remove", 0)) /\ Within(Goes(d, "mark", cobs[d].at))
    BY <1>0, <1>p, <1>z, GoesWithin, Zenon DEF Within
  <2>5. ~Behind(d) => Within(Goes(d, "scan", cobs[d].at + 1))
    BY <1>0, <1>p, <2>2, GoesWithin, Zenon
  <2>6. QED
    BY <2>1, <2>3, <2>4, <2>5, Zenon
<1>7. CASE ObserverMarks(d)
  <2> DEFINE item == [mPoolList[id] EXCEPT !.conn = TRUE]
             pool == [mPoolList EXCEPT ![id] = item]
             gone == Goes(d, "scan", cobs[d].at + 1)
             new == [gone EXCEPT ![d].found = TRUE]
  <2>1. cobs[d].pc = "mark" /\ Update(pool, new, None)
    BY <1>7, Zenon DEF ObserverMarks
  <2>2. id \in DOMAIN mPoolList => Fit(item)
    BY <1>0, ItemChangesFit, Zenon
  <2> HIDE DEF item
  <2>3. Fits(pool)
    BY <2>2, ListFits, Zenon
  <2>4. cobs[d].at + 1 \in 0..(NumTypes * BufNum) /\ cobs[d].at + 1 \in Nat
    BY <2>1, SlotsWithin, Ends
  <2>5. Within(gone) /\ gone \in [Consumers -> Watches]
    BY <1>0, <1>p, <2>4, GoesWithin, GoesIs, Zenon
  <2> HIDE DEF gone
  <2>6. \A e \in Consumers : new[e].at = gone[e].at
    BY <2>5, Zenon DEF Watches
  <2>7. Within(new)
    BY <2>5, <2>6, Zenon DEF Within
  <2>8. QED
    BY <2>1, <2>3, <2>7, UpdateFits, Zenon
<1>8. CASE ObserverRemoves(d)
  <2>1. Update(removePoolItemLocked(mPoolList, id), [cobs EXCEPT ![d] = NoCleaning], None)
    BY <1>8, Zenon DEF ObserverRemoves
  <2>2. Within([cobs EXCEPT ![d] = NoCleaning])
    BY <1>0, NoCleaningWithin, Zenon DEF NoCleaning
  <2>3. QED
    BY <2>1, <2>2, ListFits, UpdateFits, Zenon
<1>9. QED
  BY <1>1, <1>2, <1>3, <1>4, <1>5, <1>6, <1>7, <1>8, Zenon DEF ConsumerObserver

\* The calls of the service and the observer of a dead producer.
LEMMA CallsFit ==
  ASSUME IInv, Fits(mPoolList), Within(cobs), NEW c \in Consumers, ConsumerCalls(c)
  PROVE  Fits(mPoolList') /\ Within(cobs')
<1>0. \A j \in DOMAIN mPoolList : Fit(mPoolList[j])
  BY Zenon DEF Fits
<1>1. ASSUME NEW id \in Ids, NEW b \in Bufs, ClientAcquires(c, id, b)
      PROVE  Fits(mPoolList') /\ Within(cobs')
  <2> DEFINE item == Acquired(mPoolList[id], c, b, BeingCleaned(id, b))
             pool == [mPoolList EXCEPT ![id] = item]
  <2>1. id \in DOMAIN mPoolList /\ b \in DOMAIN mPoolList[id].slot
    BY <1>1, Zenon DEF ClientAcquires, Free
  <2>2. Update(pool, cobs, None)
    BY <1>1, SMTT(30) DEF ClientAcquires
  <2>3. BeingCleaned(id, b) \in BOOLEAN
    BY Zenon DEF BeingCleaned
  <2>4. Fit(item)
    BY <1>0, <2>1, <2>3, AcquiredFit, Zenon
  <2> HIDE DEF item
  <2>5. Fits(pool)
    BY <2>4, ListFits, Zenon
  <2>6. QED
    BY <2>2, <2>5, UpdateFits, Zenon
<1>2. ASSUME NEW id \in Ids, NEW b, Update(ReleasedIn(mPoolList, id, b), cobs, None)
      PROVE  Fits(mPoolList') /\ Within(cobs')
  BY <1>2, ListFits, UpdateFits, Zenon
<1>3. ASSUME NEW id \in Ids, NEW t \in Types, ClientLeaves(c, id, t)
      PROVE  Fits(mPoolList') /\ Within(cobs')
  <2> DEFINE item == Disconnected(mPoolList[id], c, BeingMarked(id))
             pool == IF id \in DOMAIN mPoolList THEN [mPoolList EXCEPT ![id] = item] ELSE mPoolList
  <2>1. Update(removePoolItemLocked(pool, id), cobs, None)
    BY <1>3, Zenon DEF ClientLeaves
  <2>2. BeingMarked(id) \in BOOLEAN
    BY Zenon DEF BeingMarked
  <2>3. id \in DOMAIN mPoolList => Fit(item)
    BY <1>0, <2>2, FlagsFit, Zenon
  <2> HIDE DEF item
  <2>4. Fits(pool)
    BY <2>3, ListFits, Zenon
  <2> HIDE DEF pool
  <2>5. QED
    BY <2>1, <2>4, ListFits, UpdateFits, Zenon
<1>4. QED
  BY <1>1, <1>2, <1>3, Zenon DEF ConsumerCalls, ClientReleases, ClientGivesBack,
     ClientFallsBack,
     ClientRequests

\* A new item of alloc().
LEMMA AllocatedFits ==
  ASSUME NEW p \in Producers, NEW hwc \in BOOLEAN, NEW ts
  PROVE  Fit([prod |-> p, obs |-> p, hwc |-> hwc, slot |-> [b \in BufsOf(ts) |-> None],
              out |-> {}, conn |-> FALSE, users |-> {}, left |-> FALSE, raced |-> FALSE])
<1>1. BufsOf(ts) = BufsOf(ts \cap Types)
  BY ConstantTypes, SMTT(30) DEF BufsOf, TypeOf, Types, Bufs
<1>2. [b \in BufsOf(ts) |-> None] \in SlotFns
  BY <1>1, SMTT(30) DEF SlotFns
<1> QED
  BY <1>2, ItemsAre, Zenon DEF Fit

LEMMA ProducersFit ==
  ASSUME IInv, Fits(mPoolList), Within(cobs), NEW p \in Producers,
         ProducerCalls(p) \/ ProducerObserver(p)
  PROVE  Fits(mPoolList') /\ Within(cobs')
<1>0. \A j \in DOMAIN mPoolList : Fit(mPoolList[j])
  BY Zenon DEF Fits
<1>1. ASSUME NEW hwc \in BOOLEAN, alloc(p, hwc) PROVE Fits(mPoolList') /\ Within(cobs')
  <2> DEFINE displays == IF DOMAIN mPoolList = {} THEN mDisplayList \cup {0} ELSE mDisplayList
             ts == IF hwc THEN displays ELSE {}
             item == [prod |-> p, obs |-> p, hwc |-> hwc, slot |-> [b \in BufsOf(ts) |-> None],
                      out |-> {}, conn |-> FALSE, users |-> {}, left |-> FALSE, raced |-> FALSE]
             pool == [id \in DOMAIN mPoolList \cup {getPoolId} |->
                        IF id = getPoolId THEN item ELSE mPoolList[id]]
  <2>1. Update(pool, cobs, None)
    BY <1>1, Zenon DEF alloc
  <2>2. Fit(item)
    BY AllocatedFits, Zenon
  <2> HIDE DEF item
  <2>3. Fits(pool)
    BY <1>0, <2>2, Zenon DEF Fits
  <2> HIDE DEF pool
  <2>4. QED
    BY <2>1, <2>3, UpdateFits, Zenon
<1>2. ASSUME NEW id \in Ids, free(p, id) PROVE Fits(mPoolList') /\ Within(cobs')
  <2> DEFINE item == [mPoolList[id] EXCEPT !.prod = None]
             pool == [mPoolList EXCEPT ![id] = item]
  <2>1. Update(removePoolItemLocked(pool, id), cobs, None)
    BY <1>2, Zenon DEF free
  <2>2. id \in DOMAIN mPoolList => Fit(item)
    BY <1>0, ItemChangesFit, Zenon
  <2> HIDE DEF item
  <2>3. Fits(pool)
    BY <2>2, ListFits, Zenon
  <2> HIDE DEF pool
  <2>4. QED
    BY <2>1, <2>3, ListFits, UpdateFits, Zenon
<1>3. CASE WalkCompares(p)
  <2> DEFINE mine == {id \in IdAt(pobs[p].i) : mPoolList[id].prod = p}
             item(id) == IF id \in mine THEN [mPoolList[id] EXCEPT !.prod = None] ELSE mPoolList[id]
             pool == [id \in DOMAIN mPoolList |-> item(id)]
  <2>1. Update(pool, cobs, p)
    BY <1>3, Zenon DEF WalkCompares
  <2>2. \A id \in DOMAIN mPoolList : Fit(item(id))
    BY <1>0, ItemChangesFit, Zenon
  <2> HIDE DEF item
  <2>3. Fits(pool)
    BY <2>2, Zenon DEF Fits
  <2> HIDE DEF pool
  <2>4. QED
    BY <2>1, <2>3, UpdateFits, Zenon
<1>4. CASE WalkRemoves(p)
  <2> DEFINE pool == IF IdAt(pobs[p].i) = {} THEN mPoolList
                     ELSE removePoolItemLocked(mPoolList, Min(IdAt(pobs[p].i)))
  <2>1. Update(pool, cobs, p)
    BY <1>4, Zenon DEF WalkRemoves
  <2>2. Fits(pool)
    BY ListFits, Zenon
  <2> HIDE DEF pool
  <2>3. QED
    BY <2>1, <2>2, UpdateFits
<1>5. ASSUME NEW id \in Ids, WalkBegins(p, id) PROVE Fits(mPoolList') /\ Within(cobs')
  BY <1>5, Zenon DEF WalkBegins
<1>6. QED
  BY <1>1, <1>2, <1>3, <1>4, <1>5, Zenon DEF ProducerCalls, ProducerObserver

\* The list of a client (GuiExtClientConsumer): what is acquired is in the list.
ClientFit(r) == r \in Clients /\ r.acquired \subseteq r.slots

LEMMA ClientsFitIs == ClientsFit <=> client \in [Consumers -> Clients]
                                     /\ \A c \in Consumers : ClientFit(client[c])
BY Zenon DEF ClientsFit, ClientFit

LEMMA IdleFits ==
  ASSUME NEW s \in SUBSET (Ids \X Bufs), NEW a \in SUBSET (Ids \X Bufs), a \subseteq s
  PROVE  ClientFit([Idle EXCEPT !.slots = s, !.acquired = a])
<1>1. 1 \in Ids /\ 0 \in Bufs
  BY ConstantTypes, Ends
<1>2. Idle \in Clients
  BY <1>1, Zenon DEF Idle, Clients
<1>3. QED
  BY <1>2, Zenon DEF ClientFit, Clients

LEMMA ClientChange ==
  ASSUME ClientsFit, NEW c \in Consumers, NEW r, ClientFit(r)
  PROVE  LET new == [client EXCEPT ![c] = r]
         IN new \in [Consumers -> Clients] /\ \A e \in Consumers : ClientFit(new[e])
BY ClientsFitIs, Zenon DEF ClientFit

LEMMA ClientStep ==
  ASSUME ClientsFit, NEW c \in Consumers, ConsumerCalls(c) \/ ConsumerDies(c)
  PROVE  ClientsFit'
<1>0. /\ client[c] \in Clients /\ client[c].acquired \subseteq client[c].slots
      /\ client[c].slots \in SUBSET (Ids \X Bufs) /\ client[c].acquired \in SUBSET (Ids \X Bufs)
      /\ client[c].id \in Ids /\ client[c].b \in Bufs
  BY Zenon DEF ClientsFit, Clients
<1>1. ASSUME NEW r, ClientFit(r), client' = [client EXCEPT ![c] = r] PROVE ClientsFit'
  BY <1>1, ClientChange, Zenon DEF ClientsFit, ClientFit
<1>2. ASSUME client' = client PROVE ClientsFit'
  BY <1>2, Zenon DEF ClientsFit
<1>3. ASSUME NEW id \in Ids, NEW b \in Bufs, ClientAcquires(c, id, b) PROVE ClientsFit'
  <2> DEFINE r == [client[c] EXCEPT !.pc = "request", !.id = id, !.b = b]
  <2>1. client' = client \/ client' = [client EXCEPT ![c] = r]
    BY <1>3, Zenon DEF ClientAcquires
  <2>2. ClientFit(r)
    BY <1>0, Zenon DEF ClientFit, Clients
  <2> HIDE DEF r
  <2>3. QED
    BY <1>1, <1>2, <2>1, <2>2, Zenon
<1>4. ASSUME NEW id \in Ids, NEW b \in Bufs, ClientReleases(c, id, b) PROVE ClientsFit'
  <2> DEFINE r == [client[c] EXCEPT !.acquired = client[c].acquired \ {<<id, b>>}]
  <2>1. client' = [client EXCEPT ![c] = r]
    BY <1>4, Zenon DEF ClientReleases
  <2>2. ClientFit(r)
    BY <1>0, Zenon DEF ClientFit, Clients
  <2> HIDE DEF r
  <2>3. QED
    BY <1>1, <2>1, <2>2, Zenon
<1>5. ASSUME NEW id \in Ids, NEW t \in Types, ClientFallsBack(c, id, t) PROVE ClientsFit'
  <2> DEFINE spare == {b \in BufsOf({t}) : <<id, b>> \in client[c].slots \ client[c].acquired}
             a == client[c].acquired \cup {<<id, Min(spare)>>}
             r == [client[c] EXCEPT !.acquired = a]
  <2>1. spare # {} /\ client' = [client EXCEPT ![c] = r]
    BY <1>5, Zenon DEF ClientFallsBack
  <2>2. spare \subseteq Nat
    BY BufsAreNat, Zenon DEF BufsOf
  <2>3. Min(spare) \in spare
    BY <2>1, <2>2, MinIs, Zenon
  <2>4. <<id, Min(spare)>> \in client[c].slots
    BY <2>3, Zenon
  <2>5. a \subseteq client[c].slots /\ a \in SUBSET (Ids \X Bufs)
    BY <1>0, <2>4, Zenon
  <2> HIDE DEF a
  <2>6. ClientFit(r)
    BY <1>0, <2>5, Zenon DEF ClientFit, Clients
  <2> HIDE DEF r
  <2>7. QED
    BY <1>1, <2>1, <2>6, Zenon
<1>6. ASSUME NEW id \in Ids, NEW t \in Types, ClientGivesBack(c, id, t) PROVE ClientsFit'
  <2>1. PICK k : client' = [client EXCEPT ![c] =
                    [slots |-> client[c].slots \ {k}, acquired |-> client[c].acquired \ {k},
                     pc |-> "disconnect", id |-> id, b |-> t * BufNum]]
    BY <1>6, Zenon DEF ClientGivesBack
  <2> DEFINE r == [slots |-> client[c].slots \ {k}, acquired |-> client[c].acquired \ {k},
                   pc |-> "disconnect", id |-> id, b |-> t * BufNum]
  <2>2. t * BufNum \in Bufs
    BY Ends, Zenon
  <2>3. ClientFit(r)
    BY <1>0, <2>2, Zenon DEF ClientFit, Clients
  <2> HIDE DEF r
  <2>4. QED
    BY <1>1, <2>1, <2>3, Zenon DEF r
<1>7. ASSUME NEW id \in Ids, NEW t \in Types, ClientLeaves(c, id, t) PROVE ClientsFit'
  <2> DEFINE s == client[c].slots \ Dropped(id, t)
             r == [Idle EXCEPT !.slots = s, !.acquired = client[c].acquired]
  <2>1. client' = [client EXCEPT ![c] = r] /\ client[c].acquired \cap Dropped(id, t) = {}
    BY <1>7, Zenon DEF ClientLeaves
  <2>2. s \in SUBSET (Ids \X Bufs) /\ client[c].acquired \subseteq s
    BY <1>0, <2>1, Zenon
  <2> HIDE DEF s
  <2>3. ClientFit(r)
    BY <1>0, <2>2, IdleFits, Zenon
  <2> HIDE DEF r
  <2>4. QED
    BY <1>1, <2>1, <2>3, Zenon
<1>8. CASE ClientRequests(c)
  <2> DEFINE k == <<client[c].id, client[c].b>>
             ok == client[c].id \in DOMAIN mPoolList
                   /\ \E b \in DOMAIN mPoolList[client[c].id].slot : TypeOf(b) = TypeOf(client[c].b)
             e == IF ok THEN {k} ELSE {}
             s == client[c].slots \cup e
             a == client[c].acquired \cup e
             r == [Idle EXCEPT !.slots = s, !.acquired = a]
  <2>1. client' = [client EXCEPT ![c] = r]
    BY <1>8, Zenon DEF ClientRequests
  <2>2. e \subseteq Ids \X Bufs
    BY <1>0
  <2> HIDE DEF e
  <2>3. s \in SUBSET (Ids \X Bufs) /\ a \in SUBSET (Ids \X Bufs) /\ a \subseteq s
    BY <1>0, <2>2, Zenon
  <2> HIDE DEF s, a
  <2>4. ClientFit(r)
    BY <2>3, IdleFits, Zenon
  <2> HIDE DEF r
  <2>5. QED
    BY <1>1, <2>1, <2>4, Zenon
<1>9. CASE ConsumerDies(c)
  <2>1. client' = [client EXCEPT ![c] = Idle]
    BY <1>9, Zenon DEF ConsumerDies
  <2>2. 1 \in Ids /\ 0 \in Bufs
    BY ConstantTypes, Ends
  <2>3. ClientFit(Idle)
    BY <2>2, Zenon DEF ClientFit, Idle, Clients
  <2>4. QED
    BY <1>1, <2>1, <2>3, Zenon
<1>10. QED
  BY <1>3, <1>4, <1>5, <1>6, <1>7, <1>8, <1>9, Zenon DEF ConsumerCalls

\* The index of an observer that walks the list stays in the list of MaxAlloc.
LEMMA WalkTypes ==
  ASSUME IInv, pobs \in [Producers -> ProducerObservers], NEW p \in Producers,
         ProducerDies(p) \/ ProducerObserver(p)
  PROVE  pobs' \in [Producers -> ProducerObservers]
<1>0. /\ pobs[p] \in ProducerObservers /\ pobs[p].todo \subseteq Ids
      /\ pobs[p].i \in 0..(MaxAlloc - 1) /\ DOMAIN mPoolList \subseteq Ids
  BY Zenon DEF ProducerObservers, IInv, Sound
<1>1. ASSUME NEW r \in ProducerObservers, pobs' = [pobs EXCEPT ![p] = r]
      PROVE  pobs' \in [Producers -> ProducerObservers]
  BY <1>1
<1>2. CASE ProducerDies(p)
  <2> DEFINE t == {id \in DOMAIN mPoolList : mPoolList[id].obs = p}
             r == [pobs[p] EXCEPT !.todo = t]
  <2>1. pobs' = [pobs EXCEPT ![p] = r]
    BY <1>2, Zenon DEF ProducerDies
  <2>2. t \in SUBSET Ids
    BY <1>0, Zenon
  <2> HIDE DEF t
  <2>3. r \in ProducerObservers
    BY <1>0, <2>2 DEF ProducerObservers
  <2> HIDE DEF r
  <2>4. QED
    BY <1>1, <2>1, <2>3, Zenon
<1>3. ASSUME NEW id \in Ids, WalkBegins(p, id)
      PROVE  pobs' \in [Producers -> ProducerObservers]
  <2> DEFINE n == Cardinality(DOMAIN mPoolList) - 1
             a == [pc |-> "compare", todo |-> pobs[p].todo \ {id}, i |-> n]
             b == [pobs[p] EXCEPT !.todo = pobs[p].todo \ {id}]
  <2>1. \/ id \in DOMAIN mPoolList /\ pobs' = [pobs EXCEPT ![p] = a]
        \/ pobs' = [pobs EXCEPT ![p] = b]
    BY <1>3, Zenon DEF WalkBegins
  <2>2. IsFiniteSet(1..MaxAlloc) /\ Cardinality(1..MaxAlloc) = MaxAlloc
    BY ConstantTypes, FS_Interval
  <2>3. IsFiniteSet(DOMAIN mPoolList) /\ Cardinality(DOMAIN mPoolList) <= MaxAlloc
    BY <1>0, <2>2, ConstantTypes, FS_Subset, Zenon
  <2>4. id \in DOMAIN mPoolList => Cardinality(DOMAIN mPoolList) \in Nat \ {0}
    BY <2>3, FS_CardinalityType, FS_EmptySet, Zenon
  <2>5. id \in DOMAIN mPoolList => n \in 0..(MaxAlloc - 1)
    BY <2>3, <2>4, ConstantTypes, SMTT(30)
  <2> HIDE DEF n
  <2>6. id \in DOMAIN mPoolList => a \in ProducerObservers
    BY <1>0, <2>5, Zenon DEF ProducerObservers
  <2>7. b \in ProducerObservers
    BY <1>0, Zenon DEF ProducerObservers
  <2> HIDE DEF a, b
  <2>8. QED
    BY <1>1, <2>1, <2>6, <2>7, Zenon
<1>4. CASE WalkCompares(p) \/ WalkRemoves(p)
  <2> DEFINE a == [pobs[p] EXCEPT !.pc = "next"]
             b == [pobs[p] EXCEPT !.pc = "compare", !.i = pobs[p].i - 1]
             e == [pobs[p] EXCEPT !.pc = "remove"]
  <2>1. WalkGoesOn(p) = IF pobs[p].i = 0 THEN [pobs EXCEPT ![p] = a] ELSE [pobs EXCEPT ![p] = b]
    BY Zenon DEF WalkGoesOn
  <2>2. pobs' = [pobs EXCEPT ![p] = e] \/ pobs' = WalkGoesOn(p)
    BY <1>4 DEF WalkCompares, WalkRemoves
  <2>3. a \in ProducerObservers /\ e \in ProducerObservers
    BY <1>0 DEF ProducerObservers
  <2>4. pobs[p].i # 0 => pobs[p].i - 1 \in 0..(MaxAlloc - 1)
    BY <1>0, ConstantTypes
  <2>5. pobs[p].i # 0 => b \in ProducerObservers
    BY <1>0, <2>4, Zenon DEF ProducerObservers
  <2> HIDE DEF a, b, e
  <2>6. QED
    BY <1>1, <2>1, <2>2, <2>3, <2>5, Zenon
<1>5. QED
  BY <1>2, <1>3, <1>4, Zenon DEF ProducerObserver

\* Every variable stays in its type: a queue has only buffers of its own item out,
\* a client has acquired only what is in its list, no observer goes beyond the slots
\* (GuiExtImpl.cpp:704, 712) and no walk beyond the list of ten (:175).
THEOREM TypeCorrect == Spec => []TypeOK
<1> DEFINE T == /\ Fits(mPoolList) /\ Within(cobs) /\ ClientsFit /\ mDisplayList \in SUBSET Types
                /\ pobs \in [Producers -> ProducerObservers] /\ calls \in Nat
<1>1. Init => T
  <2> SUFFICES ASSUME Init PROVE T
    BY Zenon
  <2>1. 1 \in Ids /\ 0 \in Bufs /\ 0 \in 0..(MaxAlloc - 1) /\ 0 \in 0..(NumTypes * BufNum)
    BY ConstantTypes, Ends, SMTT(30)
  <2>2. Idle \in Clients /\ Idle.acquired \subseteq Idle.slots
    BY <2>1, Zenon DEF Idle, Clients
  <2>3. ClientsFit
    BY <2>2, Zenon DEF Init, ClientsFit
  <2>4. [pc |-> "next", todo |-> {}, i |-> 0] \in ProducerObservers
    BY <2>1, Zenon DEF ProducerObservers
  <2>5. pobs \in [Producers -> ProducerObservers]
    BY <2>4, Zenon DEF Init
  <2>6. Fits(mPoolList) /\ Within(cobs)
    BY <2>1, Zenon DEF Init, Fits, Within, NoCleaning
  <2>7. QED
    BY <2>3, <2>5, <2>6, Zenon DEF Init
<1>2. IInv /\ T /\ [Next]_vars => T'
  <2> SUFFICES ASSUME IInv, T, [Next]_vars PROVE T'
    BY Zenon
  <2>1. ASSUME NEW c \in Consumers, ConsumerCalls(c) PROVE T'
    <3>1. Fits(mPoolList') /\ Within(cobs') /\ ClientsFit'
      BY <2>1, CallsFit, ClientStep, Zenon
    <3>2. UNCHANGED <<mDisplayList, pobs, calls>>
      BY <2>1, Zenon DEF ConsumerCalls, ClientAcquires, ClientReleases, ClientFallsBack,
         ClientGivesBack, ClientLeaves, ClientRequests
    <3>3. QED
      BY <3>1, <3>2, Zenon
  <2>2. ASSUME NEW c \in Consumers, ConsumerDies(c) PROVE T'
    <3>1. ClientsFit'
      BY <2>2, ClientStep, Zenon
    <3>2. QED
      BY <2>2, <3>1, Zenon DEF ConsumerDies
  <2>3. ASSUME NEW c \in Consumers, ConsumerObserver(c) PROVE T'
    <3>1. Fits(mPoolList') /\ Within(cobs')
      BY <2>3, ObserverFits, Zenon
    <3>2. UNCHANGED <<mDisplayList, client, pobs, calls>>
      BY <2>3, Zenon DEF ConsumerObserver, ObserverBegins, ObserverCompares,
         ObserverCancels,
         ObserverClears, ObserverSetsFlags, ObserverScans, ObserverMarks, ObserverRemoves
    <3>3. QED
      BY <3>1, <3>2, Zenon DEF ClientsFit
  <2>4. ASSUME NEW p \in Producers, ProducerCalls(p) PROVE T'
    <3>1. Fits(mPoolList') /\ Within(cobs')
      BY <2>4, ProducersFit, Zenon
    <3>2. UNCHANGED <<client, pobs>>
      BY <2>4, Zenon DEF ProducerCalls, alloc, free
    <3>3. calls' \in Nat
      <4>1. calls' = calls + 1 \/ calls' = calls
        BY <2>4, Zenon DEF ProducerCalls, alloc, free
      <4>2. QED
        BY <4>1
    <3>4. 0 \in Types
      BY ConstantTypes DEF Types
    <3>5. mDisplayList' \in SUBSET Types
      BY <2>4, <3>4, Zenon DEF ProducerCalls, alloc, free
    <3>6. QED
      BY <3>1, <3>2, <3>3, <3>5, Zenon DEF ClientsFit
  <2>5. ASSUME NEW p \in Producers, ProducerDies(p) PROVE T'
    <3>1. pobs' \in [Producers -> ProducerObservers]
      BY <2>5, WalkTypes, Zenon
    <3>2. QED
      BY <2>5, <3>1, Zenon DEF ProducerDies, ClientsFit
  <2>6. ASSUME NEW p \in Producers, ProducerObserver(p) PROVE T'
    <3>1. /\ Fits(mPoolList') /\ Within(cobs')
          /\ pobs' \in [Producers -> ProducerObservers]
      BY <2>6, ProducersFit, WalkTypes, Zenon
    <3>2. UNCHANGED <<mDisplayList, client, calls>>
      BY <2>6, Zenon DEF ProducerObserver, WalkBegins, WalkCompares, WalkRemoves
    <3>3. QED
      BY <3>1, <3>2, Zenon DEF ClientsFit
  <2>7. ASSUME NEW t \in Types, NEW enable \in BOOLEAN, configDisplay(t, enable) PROVE T'
    <3>1. mDisplayList' \in SUBSET Types /\ calls' \in Nat
      BY <2>7 DEF configDisplay
    <3>2. UNCHANGED <<mPoolList, client, cobs, pobs>>
      BY <2>7, Zenon DEF configDisplay
    <3>3. QED
      BY <3>1, <3>2, Zenon DEF ClientsFit
  <2>8. CASE UNCHANGED vars
    BY <2>8, Zenon DEF vars, ClientsFit
  <2>9. QED
    BY <2>1, <2>2, <2>3, <2>4, <2>5, <2>6, <2>7, <2>8, Zenon DEF Next
<1>3. IInv /\ T => TypeOK
  <2> SUFFICES ASSUME IInv, T PROVE TypeOK
    BY Zenon
  <2>1. cobs \in [Consumers -> ConsumerObservers]
    BY Zenon DEF IInv, Sound, Within, Watches, ConsumerObservers
  <2>2. QED
    BY <2>1, Zenon DEF TypeOK, IInv, Sound, Fits, Fit, ClientsFit
<1> HIDE DEF T
<1>4. QED
  BY <1>1, <1>2, <1>3, Invariance, PTL DEF Spec
-----------------------------------------------------------------------------
(* Why an unused item does not stay in the list. *)

\* An observer of a dead consumer that has found no token yet will remove the item.
Removing(id, co) ==
  \E d \in Consumers : co[d].id = id /\ ~co[d].found /\ co[d].pc \in {"scan", "mark", "remove"}

\* The walk of a dead producer's observer is about to remove the item.
WalkAt(p, id) == pobs[p].pc = "remove" /\ IdAt(pobs[p].i) = {id}

\* An observer has found a token only after it has set the flags.
FoundLate(co) ==
  \A d \in Consumers : co[d].pc \in {"compare", "cancel", "clear", "flag"} => ~co[d].found

\* An item without producer and without connection is about to be removed.
UnusedGoes ==
  \A id \in DOMAIN mPoolList : Unused(mPoolList[id]) =>
    mPoolList[id].raced \/ Removing(id, cobs) \/ \E p \in Producers : WalkAt(p, id)

Going == UnusedGoes /\ FoundLate(cobs)

\* A change of the list keeps that, if it holds of the new list; a walk that the
\* change disturbs leaves its mark on every item.
LEMMA UpdateGoing ==
  ASSUME NEW pool, NEW co, NEW self, Fits(pool), Update(pool, co, self), FoundLate(co),
         \A p \in Producers \ {self} : pobs'[p] = pobs[p],
         \A id \in DOMAIN pool : Unused(pool[id]) =>
           \/ pool[id].raced \/ Removing(id, co)
           \/ \E p \in Producers \ {self} : WalkAt(p, id)
           \/ \E p \in Producers : WalkAt(p, id)'
  PROVE  Going'
<1> DEFINE sh == /\ DOMAIN pool # DOMAIN mPoolList
                 /\ \E p \in Producers \ {self} : pobs[p].pc # "next"
           r(id) == pool[id].raced \/ sh
<1>1. /\ mPoolList' = [id \in DOMAIN pool |-> [pool[id] EXCEPT !.raced = r(id)]]
      /\ cobs' = [c \in Consumers |->
                   IF co[c].pc # "next" /\ co[c].id \notin DOMAIN pool THEN NoCleaning ELSE co[c]]
  BY Zenon DEF Update
<1>2. DOMAIN mPoolList' = DOMAIN pool
  BY <1>1, Zenon
<1>3. ASSUME NEW id \in DOMAIN pool
      PROVE  /\ mPoolList'[id].prod = pool[id].prod /\ mPoolList'[id].conn = pool[id].conn
             /\ mPoolList'[id].raced = r(id)
  <2> HIDE DEF r
  <2>1. pool[id] \in Items
    BY Zenon DEF Fits, Fit
  <2>2. mPoolList'[id] = [pool[id] EXCEPT !.raced = r(id)]
    BY <1>1, Zenon
  <2> QED
    BY <2>1, <2>2, ItemsAre, Zenon
<1>4. FoundLate(cobs')
  <2>1. NoCleaning.found = FALSE
    BY DEF NoCleaning
  <2>2. \A d \in Consumers : cobs'[d] = co[d] \/ cobs'[d] = NoCleaning
    BY <1>1, Zenon
  <2> QED
    BY <2>1, <2>2, Zenon DEF FoundLate
<1>5. \A id \in DOMAIN pool : Removing(id, co) => Removing(id, cobs')
  <2>1. \A d \in Consumers : co[d].id \in DOMAIN pool => cobs'[d] = co[d]
    BY <1>1, Zenon
  <2> QED
    BY <2>1, Zenon DEF Removing
<1>6. ASSUME NEW id \in DOMAIN pool, NEW p \in Producers \ {self}, WalkAt(p, id)
      PROVE  r(id) \/ WalkAt(p, id)'
  <2>1. pobs[p].pc = "remove" /\ pobs'[p] = pobs[p] /\ pobs[p].pc # "next"
    BY <1>6 DEF WalkAt
  <2>2. CASE DOMAIN pool = DOMAIN mPoolList
    <3>1. IdAt(pobs[p].i)' = IdAt(pobs[p].i)
      BY <1>2, <2>1, <2>2, Zenon DEF IdAt
    <3> QED
      BY <1>6, <2>1, <3>1, Zenon DEF WalkAt
  <2>3. CASE DOMAIN pool # DOMAIN mPoolList
    BY <2>1, <2>3, Zenon
  <2> QED
    BY <2>2, <2>3, Zenon
<1>7. UnusedGoes'
  <2> SUFFICES ASSUME NEW id \in DOMAIN pool, Unused(mPoolList'[id])
               PROVE  \/ mPoolList'[id].raced \/ Removing(id, cobs')
                      \/ \E p \in Producers : WalkAt(p, id)'
    BY <1>2, Zenon DEF UnusedGoes
  <2>1. Unused(pool[id])
    BY <1>3, Zenon DEF Unused
  <2> QED
    BY <2>1, <1>3, <1>5, <1>6, Zenon
<1> QED
  BY <1>4, <1>7, Zenon DEF Going
LEMMA AllProducers == Producers \ {None} = Producers
BY ConstantTypes, Zenon

LEMMA ItemFits == TypeOK => Fits(mPoolList)
BY Zenon DEF TypeOK, Fits, Fit

\* A step that changes one item, and observers of that item.
LEMMA ItemGoing ==
  ASSUME Fits(mPoolList), UnusedGoes, NEW id \in DOMAIN mPoolList, NEW item, Fit(item), NEW co,
         FoundLate(co), \A j \in DOMAIN mPoolList : j # id /\ Removing(j, cobs) => Removing(j, co),
         Unused(item) => item.raced \/ Removing(id, co) \/ \E p \in Producers : WalkAt(p, id),
         Update([mPoolList EXCEPT ![id] = item], co, None), pobs' = pobs
  PROVE  Going'
<1> DEFINE pool == [mPoolList EXCEPT ![id] = item]
<1>1. DOMAIN pool = DOMAIN mPoolList /\ pool[id] = item
  BY Zenon
<1>2. \A j \in DOMAIN pool : j # id => pool[j] = mPoolList[j]
  BY Zenon
<1>3. Fits(pool) /\ Update(pool, co, None)
  BY ListFits, Zenon
<1> HIDE DEF pool
<1>4. \A j \in DOMAIN pool : Unused(pool[j]) =>
        pool[j].raced \/ Removing(j, co) \/ \E p \in Producers \ {None} : WalkAt(p, j)
  BY <1>1, <1>2, AllProducers, Zenon DEF UnusedGoes
<1> QED
  BY <1>3, <1>4, UpdateGoing, Zenon

\* The same, with removePoolItem() at the end.
LEMMA RemoveGoing ==
  ASSUME Fits(mPoolList), UnusedGoes, NEW id \in DOMAIN mPoolList, NEW item, Fit(item), NEW co,
         FoundLate(co), \A j \in DOMAIN mPoolList : j # id /\ Removing(j, cobs) => Removing(j, co),
         Update(removePoolItemLocked([mPoolList EXCEPT ![id] = item], id), co, None), pobs' = pobs
  PROVE  Going'
<1> DEFINE pool == [mPoolList EXCEPT ![id] = item]
           rest == removePoolItemLocked(pool, id)
<1>1. DOMAIN pool = DOMAIN mPoolList /\ pool[id] = item
  BY Zenon
<1>2. \A j \in DOMAIN pool : j # id => pool[j] = mPoolList[j]
  BY Zenon
<1>3. Fits(pool) /\ Update(rest, co, None)
  BY ListFits, Zenon
<1> HIDE DEF pool
<1>4. Fits(rest)
  BY <1>3, ListFits, Zenon
<1>5. /\ \A j \in DOMAIN rest : j \in DOMAIN pool /\ rest[j] = pool[j]
      /\ id \in DOMAIN rest => ~Unused(rest[id])
  BY <1>1, Zenon DEF removePoolItemLocked
<1> HIDE DEF rest
<1>6. \A j \in DOMAIN rest : Unused(rest[j]) =>
        rest[j].raced \/ Removing(j, co) \/ \E p \in Producers \ {None} : WalkAt(p, j)
  BY <1>1, <1>2, <1>5, AllProducers, Zenon DEF UnusedGoes
<1> QED
  BY <1>3, <1>4, <1>6, UpdateGoing, Zenon

\* A step that leaves the list and the walks alone.
LEMMA WatchGoing ==
  ASSUME UnusedGoes, UNCHANGED <<mPoolList, pobs>>, FoundLate(cobs'),
         \A j \in DOMAIN mPoolList : Removing(j, cobs) => Removing(j, cobs')
  PROVE  Going'
<1>1. \A p, j : WalkAt(p, j) => WalkAt(p, j)'
  BY DEF WalkAt, IdAt
<1>2. UnusedGoes'
  BY <1>1, Zenon DEF UnusedGoes
<1> QED
  BY <1>2, Zenon DEF Going

\* What becomes of producer, connection and mark of an item.
LEMMA ItemChangesGoing ==
  ASSUME NEW item \in Items, NEW b
  PROVE  /\ \A o : LET new == [item EXCEPT !.out = o]
                   IN new.prod = item.prod /\ new.conn = item.conn /\ new.raced = item.raced
         /\ \A s : LET new == [item EXCEPT !.slot = s]
                   IN new.prod = item.prod /\ new.conn = item.conn /\ new.raced = item.raced
         /\ [item EXCEPT !.conn = TRUE].conn = TRUE
         /\ LET new == Released(item, b)
            IN new.prod = item.prod /\ new.conn = item.conn /\ new.raced = item.raced
         /\ \A c, r : Acquired(item, c, b, r).conn = TRUE
<1>2. ASSUME NEW o
      PROVE  LET new == [item EXCEPT !.out = o]
             IN new.prod = item.prod /\ new.conn = item.conn /\ new.raced = item.raced
  BY ItemsAre, Zenon
<1>3. ASSUME NEW s
      PROVE  LET new == [item EXCEPT !.slot = s]
             IN new.prod = item.prod /\ new.conn = item.conn /\ new.raced = item.raced
  BY ItemsAre, Zenon
<1>4. [item EXCEPT !.conn = TRUE].conn = TRUE
  BY ItemsAre, Zenon
<1>5. LET new == Released(item, b)
      IN new.prod = item.prod /\ new.conn = item.conn /\ new.raced = item.raced
  <2>1. \/ Released(item, b) = item
        \/ Released(item, b) = [item EXCEPT !.out = item.out \ {b},
                                            !.slot = [item.slot EXCEPT ![b] = None]]
    BY Zenon DEF Released
  <2>2. CASE Released(item, b) = item
    BY <2>2, Zenon
  <2>3. CASE Released(item, b) = [item EXCEPT !.out = item.out \ {b},
                                             !.slot = [item.slot EXCEPT ![b] = None]]
    BY <2>3, ItemsAre, Zenon
  <2> QED
    BY <2>1, <2>2, <2>3, Zenon
<1>6. ASSUME NEW c, NEW r PROVE Acquired(item, c, b, r).conn = TRUE
  <2>1. PICK o, s, u, q : Acquired(item, c, b, r)
          = [item EXCEPT !.out = o, !.slot = s, !.conn = TRUE, !.users = u, !.left = FALSE,
                         !.raced = q]
    BY Zenon DEF Acquired
  <2> QED
    BY <2>1, ItemsAre, Zenon
<1> QED
  BY <1>2, <1>3, <1>4, <1>5, <1>6, Zenon

LEMMA GoesFound ==
  ASSUME cobs \in [Consumers -> Watches], NEW d \in Consumers, NEW pc, NEW at
  PROVE  /\ Goes(d, pc, at)[d].pc = pc /\ Goes(d, pc, at)[d].found = cobs[d].found
         /\ Goes(d, pc, at)[d].id = cobs[d].id
         /\ \A e \in Consumers : e # d => Goes(d, pc, at)[e] = cobs[e]
<1>1. cobs[d] \in Watches
  OBVIOUS
<1>2. Goes(d, pc, at) = [cobs EXCEPT ![d] = [cobs[d] EXCEPT !.pc = pc, !.at = at]]
  BY Zenon DEF Goes
<1>3. LET new == [cobs[d] EXCEPT !.pc = pc, !.at = at]
      IN new.pc = pc /\ new.found = cobs[d].found /\ new.id = cobs[d].id
  BY <1>1 DEF Watches
<1> QED
  BY <1>2, <1>3, Zenon
-----------------------------------------------------------------------------
(* Calls and observers. *)
LEMMA CallsGoing ==
  ASSUME Fits(mPoolList), Going, NEW c \in Consumers, ConsumerCalls(c)
  PROVE  Going'
<1>1. /\ UnusedGoes /\ FoundLate(cobs)
      /\ \A j \in DOMAIN mPoolList : Fit(mPoolList[j]) /\ mPoolList[j] \in Items
  BY Zenon DEF Going, Fits, Fit
<1>2. pobs' = pobs
  BY Zenon DEF ConsumerCalls, ClientAcquires, ClientReleases, ClientFallsBack,
     ClientGivesBack, ClientLeaves, ClientRequests
<1>3. ASSUME UNCHANGED <<mPoolList, cobs>> PROVE Going'
  BY <1>1, <1>2, <1>3, WatchGoing, Zenon
<1>4. ASSUME NEW id \in Ids, NEW b \in Bufs, ClientAcquires(c, id, b) PROVE Going'
  <2> DEFINE item == Acquired(mPoolList[id], c, b, BeingCleaned(id, b))
  <2>1. id \in DOMAIN mPoolList /\ b \in DOMAIN mPoolList[id].slot
    BY <1>4, Zenon DEF ClientAcquires, Free
  <2>2. Update([mPoolList EXCEPT ![id] = item], cobs, None)
    BY <1>4, SMTT(30) DEF ClientAcquires
  <2>3. BeingCleaned(id, b) \in BOOLEAN
    BY Zenon DEF BeingCleaned
  <2>4. Fit(item) /\ item.conn = TRUE
    BY <1>1, <2>1, <2>3, AcquiredFit, ItemChangesGoing, Zenon
  <2> HIDE DEF item
  <2>5. ~Unused(item)
    BY <2>4, Zenon DEF Unused
  <2> QED
    BY <1>1, <1>2, <2>1, <2>2, <2>4, <2>5, ItemGoing, Zenon
<1>5. ASSUME NEW id \in Ids, NEW b, Update(ReleasedIn(mPoolList, id, b), cobs, None)
      PROVE  Going'
  <2>1. CASE id \in DOMAIN mPoolList
    <3> DEFINE item == Released(mPoolList[id], b)
    <3>1. Update([mPoolList EXCEPT ![id] = item], cobs, None)
      BY <1>5, <2>1, Zenon DEF ReleasedIn
    <3>2. /\ Fit(item) /\ item.prod = mPoolList[id].prod /\ item.conn = mPoolList[id].conn
          /\ item.raced = mPoolList[id].raced
      BY <1>1, <2>1, ReleasedFit, ItemChangesGoing, Zenon
    <3> HIDE DEF item
    <3>3. Unused(item) => item.raced \/ Removing(id, cobs) \/ \E p \in Producers : WalkAt(p, id)
      BY <1>1, <2>1, <3>2, Zenon DEF UnusedGoes, Unused
    <3> QED
      BY <1>1, <1>2, <2>1, <3>1, <3>2, <3>3, ItemGoing, Zenon
  <2>2. CASE id \notin DOMAIN mPoolList
    <3>1. Update(mPoolList, cobs, None)
      BY <1>5, <2>2, Zenon DEF ReleasedIn
    <3> QED
      BY <1>1, <1>2, <3>1, UpdateGoing, AllProducers, Zenon DEF UnusedGoes
  <2> QED
    BY <2>1, <2>2, Zenon
<1>6. ASSUME NEW id \in Ids, NEW t \in Types, ClientLeaves(c, id, t) PROVE Going'
  <2> DEFINE item == Disconnected(mPoolList[id], c, BeingMarked(id))
  <2>1. BeingMarked(id) \in BOOLEAN
    BY Zenon DEF BeingMarked
  <2>2. CASE id \in DOMAIN mPoolList
    <3>1. Update(removePoolItemLocked([mPoolList EXCEPT ![id] = item], id), cobs, None)
      BY <1>6, <2>2, Zenon DEF ClientLeaves
    <3>2. Fit(item)
      BY <1>1, <2>1, <2>2, FlagsFit, Zenon
    <3> HIDE DEF item
    <3> QED
      BY <1>1, <1>2, <2>2, <3>1, <3>2, RemoveGoing, Zenon
  <2>3. CASE id \notin DOMAIN mPoolList
    <3>1. Update(mPoolList, cobs, None)
      BY <1>6, <2>3, Zenon DEF ClientLeaves, removePoolItemLocked
    <3> QED
      BY <1>1, <1>2, <3>1, UpdateGoing, AllProducers, Zenon DEF UnusedGoes
  <2> QED
    BY <2>2, <2>3, Zenon
<1> QED
  BY <1>3, <1>4, <1>5, <1>6, Zenon DEF ConsumerCalls, ClientReleases, ClientGivesBack,
     ClientFallsBack, ClientRequests

LEMMA ObserverGoing ==
  ASSUME IInv, Fits(mPoolList), Going, NEW d \in Consumers, ConsumerObserver(d)
  PROVE  Going'
<1> DEFINE id == cobs[d].id
           busy == {"scan", "mark", "remove"}
<1>1. /\ UnusedGoes /\ FoundLate(cobs) /\ cobs \in [Consumers -> Watches]
      /\ \A j \in DOMAIN mPoolList : Fit(mPoolList[j]) /\ mPoolList[j] \in Items
  BY Zenon DEF Going, Fits, Fit, IInv, Sound
<1>2. pobs' = pobs
  BY Zenon DEF ConsumerObserver, ObserverBegins, ObserverCompares, ObserverCancels,
     ObserverClears, ObserverSetsFlags, ObserverScans, ObserverMarks, ObserverRemoves
<1>3. cobs[d].pc # "next" => id \in DOMAIN mPoolList
  BY AtWork, Zenon
<1>4. ASSUME NEW co, \A e \in Consumers : e # d => co[e] = cobs[e]
      PROVE  /\ \A j : j # id /\ Removing(j, cobs) => Removing(j, co)
             /\ \A j : cobs[d].pc \notin busy \/ cobs[d].found =>
                         (Removing(j, cobs) => Removing(j, co))
             /\ co[d].pc \in {"scan", "mark", "remove", "next"} \/ ~co[d].found => FoundLate(co)
  <2>1. \A pc \in {"scan", "mark", "remove", "next"} : pc \notin {"compare", "cancel", "clear", "flag"}
    OBVIOUS
  <2>2. \A j : j # id /\ Removing(j, cobs) => Removing(j, co)
    BY <1>4, Zenon DEF Removing
  <2>3. \A j : cobs[d].pc \notin busy \/ cobs[d].found => (Removing(j, cobs) => Removing(j, co))
    BY <1>4, Zenon DEF Removing
  <2>4. co[d].pc \in {"scan", "mark", "remove", "next"} \/ ~co[d].found => FoundLate(co)
    BY <1>1, <1>4, <2>1, Zenon DEF FoundLate
  <2> QED
    BY <2>2, <2>3, <2>4, Zenon
<1>5. /\ "next" \notin busy /\ "compare" \notin busy /\ "cancel" \notin busy
      /\ "clear" \notin busy /\ "flag" \notin busy
  OBVIOUS
<1>6. cobs[d].pc \in {"compare", "cancel", "clear", "flag"} => ~cobs[d].found
  BY <1>1, Zenon DEF FoundLate
<1>0. cobs \in [Consumers -> Watches]
  BY Zenon DEF IInv, Sound
<1>g. ASSUME NEW pc, NEW at, NEW co, co = Goes(d, pc, at)
      PROVE  /\ co[d].pc = pc /\ co[d].found = cobs[d].found /\ co[d].id = cobs[d].id
             /\ \A e \in Consumers : e # d => co[e] = cobs[e]
  BY <1>0, <1>g, GoesFound
<1>h. ASSUME NEW pc, NEW at, NEW co, co = Goes(d, pc, at),
             cobs[d].pc \in {"compare", "cancel", "clear", "flag"}
      PROVE  FoundLate(co) /\ \A k : Removing(k, cobs) => Removing(k, co)
  <2>1. cobs[d].pc \notin busy /\ ~cobs[d].found
    BY <1>5, <1>6, <1>h, Zenon
  <2>2. co[d].found = cobs[d].found /\ \A e \in Consumers : e # d => co[e] = cobs[e]
    BY <1>g, <1>h
  <2> QED
    BY <1>4, <2>1, <2>2, Zenon
<1> HIDE DEF busy
<1>7. ASSUME NEW j \in Ids, ObserverBegins(d, j) PROVE Going'
  <2> DEFINE w == [pc |-> "compare", id |-> j, at |-> 0, found |-> FALSE]
  <2>1. /\ cobs[d].pc = "next" /\ UNCHANGED mPoolList
        /\ cobs' = [cobs EXCEPT ![d] = w]
    BY <1>7, Zenon DEF ObserverBegins
  <2>2. w.found = FALSE
    BY Zenon
  <2> HIDE DEF w
  <2>3. cobs'[d] = w /\ \A e \in Consumers : e # d => cobs'[e] = cobs[e]
    BY <1>1, <2>1, Zenon
  <2>4. FoundLate(cobs') /\ \A k : Removing(k, cobs) => Removing(k, cobs')
    BY <1>4, <1>5, <2>1, <2>2, <2>3, Zenon
  <2> QED
    BY <1>1, <1>2, <2>1, <2>4, WatchGoing, Zenon
<1>8. CASE ObserverCompares(d)
  <2>1. PICK pc, at : cobs[d].pc = "compare" /\ UNCHANGED mPoolList /\ cobs' = Goes(d, pc, at)
    BY <1>8, Zenon DEF ObserverCompares
  <2>2. FoundLate(cobs') /\ \A k : Removing(k, cobs) => Removing(k, cobs')
    BY <1>h, <2>1
  <2> QED
    BY <1>1, <1>2, <2>1, <2>2, WatchGoing, Zenon
<1>9. ASSUME NEW item, Fit(item), item.prod = mPoolList[id].prod, item.conn = mPoolList[id].conn,
             item.raced = mPoolList[id].raced, id \in DOMAIN mPoolList, NEW co, FoundLate(co),
             \A k : Removing(k, cobs) => Removing(k, co),
             Update([mPoolList EXCEPT ![id] = item], co, None)
      PROVE  Going'
  <2>1. Unused(item) => item.raced \/ Removing(id, co) \/ \E p \in Producers : WalkAt(p, id)
    BY <1>1, <1>9, Zenon DEF UnusedGoes, Unused
  <2> HIDE DEF id
  <2> QED
    BY <1>1, <1>2, <1>9, <2>1, ItemGoing, Zenon
<1>10. CASE ObserverCancels(d)
  <2> DEFINE item == [mPoolList[id] EXCEPT !.out = mPoolList[id].out \ {cobs[d].at}]
             co == Goes(d, "clear", cobs[d].at)
  <2>1. cobs[d].pc = "cancel" /\ Update([mPoolList EXCEPT ![id] = item], co, None)
    BY <1>10, Zenon DEF ObserverCancels
  <2>2. id \in DOMAIN mPoolList
    BY <1>3, <2>1
  <2>3. /\ Fit(item) /\ item.prod = mPoolList[id].prod /\ item.conn = mPoolList[id].conn
        /\ item.raced = mPoolList[id].raced
    BY <1>1, <2>2, ItemChangesFit, ItemChangesGoing, ZenonT(30)
  <2>4. FoundLate(co) /\ \A k : Removing(k, cobs) => Removing(k, co)
    BY <1>h, <2>1
  <2> HIDE DEF item, co
  <2> QED
    BY <1>9, <2>1, <2>2, <2>3, <2>4, Zenon
<1>11. CASE ObserverClears(d)
  <2> DEFINE slots == [mPoolList[id].slot EXCEPT ![cobs[d].at] = None]
             item == [mPoolList[id] EXCEPT !.slot = slots]
             co == Goes(d, "compare", cobs[d].at + 1)
  <2>1. cobs[d].pc = "clear" /\ Update([mPoolList EXCEPT ![id] = item], co, None)
    BY <1>11, Zenon DEF ObserverClears
  <2>2. id \in DOMAIN mPoolList
    BY <1>3, <2>1
  <2>3. /\ Fit(item) /\ item.prod = mPoolList[id].prod /\ item.conn = mPoolList[id].conn
        /\ item.raced = mPoolList[id].raced
    BY <1>1, <2>2, ItemChangesFit, ItemChangesGoing, ZenonT(30)
  <2>4. FoundLate(co) /\ \A k : Removing(k, cobs) => Removing(k, co)
    BY <1>h, <2>1
  <2> HIDE DEF item, co
  <2> QED
    BY <1>9, <2>1, <2>2, <2>3, <2>4, Zenon
<1>12. CASE ObserverSetsFlags(d)
  <2> DEFINE item == FlagsSet(mPoolList[id], d, BeingMarked(id))
             co == Goes(d, "scan", 0)
  <2>1. cobs[d].pc = "flag" /\ Update([mPoolList EXCEPT ![id] = item], co, None)
    BY <1>12, Zenon DEF ObserverSetsFlags
  <2>2. id \in DOMAIN mPoolList
    BY <1>3, <2>1
  <2>3. BeingMarked(id) \in BOOLEAN
    BY Zenon DEF BeingMarked
  <2>4. Fit(item)
    BY <1>1, <2>2, <2>3, FlagsFit, Zenon
  <2> HIDE DEF item
  <2>5. FoundLate(co) /\ \A k : Removing(k, cobs) => Removing(k, co)
    BY <1>h, <2>1
  <2>6. Removing(id, co)
    <3>1. co[d].pc = "scan" /\ co[d].id = id /\ ~co[d].found
      BY <1>6, <1>g, <2>1
    <3> HIDE DEF co
    <3> QED
      BY <3>1, Zenon DEF Removing
  <2> HIDE DEF co, id
  <2> QED
    BY <1>1, <1>2, <2>1, <2>2, <2>4, <2>5, <2>6, ItemGoing, Zenon
<1>13. CASE ObserverScans(d)
  <2>1. /\ cobs[d].pc = "scan" /\ UNCHANGED mPoolList
        /\ \/ cobs[d].found /\ cobs' = [cobs EXCEPT ![d] = NoCleaning]
           \/ \E pc \in {"scan", "mark", "remove"} : \E at : cobs' = Goes(d, pc, at)
    BY <1>13, Zenon DEF ObserverScans
  <2>2. CASE cobs[d].found /\ cobs' = [cobs EXCEPT ![d] = NoCleaning]
    <3>1. NoCleaning.found = FALSE
      BY DEF NoCleaning
    <3>2. cobs'[d] = NoCleaning /\ \A e \in Consumers : e # d => cobs'[e] = cobs[e]
      BY <1>1, <2>2, Zenon
    <3>3. FoundLate(cobs') /\ \A k : Removing(k, cobs) => Removing(k, cobs')
      BY <1>4, <2>2, <3>1, <3>2, Zenon
    <3> QED
      BY <1>1, <1>2, <2>1, <3>3, WatchGoing, Zenon
  <2>3. ASSUME NEW pc \in {"scan", "mark", "remove"}, NEW at, cobs' = Goes(d, pc, at)
        PROVE  Going'
    <3>1. /\ cobs'[d].pc = pc /\ cobs'[d].found = cobs[d].found /\ cobs'[d].id = cobs[d].id
          /\ \A e \in Consumers : e # d => cobs'[e] = cobs[e]
      BY <1>g, <2>3
    <3>2. FoundLate(cobs')
      BY <1>4, <3>1, Zenon
    <3>3. \A k : Removing(k, cobs) => Removing(k, cobs')
      BY <3>1, Zenon DEF Removing
    <3> QED
      BY <1>1, <1>2, <2>1, <3>2, <3>3, WatchGoing, Zenon
  <2> QED
    BY <2>1, <2>2, <2>3, Zenon
<1>14. CASE ObserverMarks(d)
  <2> DEFINE item == [mPoolList[id] EXCEPT !.conn = TRUE]
             gone == Goes(d, "scan", cobs[d].at + 1)
             co == [gone EXCEPT ![d].found = TRUE]
  <2>1. cobs[d].pc = "mark" /\ Update([mPoolList EXCEPT ![id] = item], co, None)
    BY <1>14, Zenon DEF ObserverMarks
  <2>2. id \in DOMAIN mPoolList
    BY <1>3, <2>1
  <2>3. Fit(item) /\ item.conn = TRUE
    BY <1>1, <2>2, ItemChangesFit, ItemChangesGoing, ZenonT(30)
  <2> HIDE DEF item
  <2>4. ~Unused(item)
    BY <2>3, Zenon DEF Unused
  <2>5. cobs[d].at + 1 \in Nat /\ "scan" \in Pcs
    BY <2>1, AtWork DEF Pcs
  <2>6. /\ gone \in [Consumers -> Watches] /\ gone[d].pc = "scan"
        /\ \A e \in Consumers : e # d => gone[e] = cobs[e]
    BY <1>0, <2>5, GoesIs
  <2> HIDE DEF gone
  <2>7. co[d].pc = "scan" /\ \A e \in Consumers : e # d => co[e] = cobs[e]
    BY <2>6 DEF Watches
  <2> HIDE DEF co
  <2>8. FoundLate(co) /\ \A j \in DOMAIN mPoolList : j # id /\ Removing(j, cobs) => Removing(j, co)
    BY <1>4, <2>7, Zenon
  <2> HIDE DEF id
  <2> QED
    BY <1>1, <1>2, <2>1, <2>2, <2>3, <2>4, <2>8, ItemGoing, Zenon
<1>15. CASE ObserverRemoves(d)
  <2> DEFINE co == [cobs EXCEPT ![d] = NoCleaning]
             item == mPoolList[id]
  <2>1. cobs[d].pc = "remove" /\ Update(removePoolItemLocked(mPoolList, id), co, None)
    BY <1>15, Zenon DEF ObserverRemoves
  <2>2. id \in DOMAIN mPoolList
    BY <1>3, <2>1
  <2>3. mPoolList = [mPoolList EXCEPT ![id] = item]
    BY Zenon DEF IInv, Sound
  <2>4. NoCleaning.found = FALSE
    BY DEF NoCleaning
  <2>5. co[d] = NoCleaning /\ \A e \in Consumers : e # d => co[e] = cobs[e]
    BY <1>1, Zenon
  <2> HIDE DEF co
  <2>6. FoundLate(co) /\ \A j \in DOMAIN mPoolList : j # id /\ Removing(j, cobs) => Removing(j, co)
    BY <1>4, <2>4, <2>5, Zenon
  <2>7. Fit(item)
    BY <1>1, <2>2, Zenon
  <2> HIDE DEF id, item
  <2>8. Update(removePoolItemLocked([mPoolList EXCEPT ![id] = item], id), co, None)
    BY <2>1, <2>3, Zenon
  <2> QED
    BY <1>1, <1>2, <2>2, <2>6, <2>7, <2>8, RemoveGoing, Zenon
<1> QED
  BY <1>7, <1>8, <1>10, <1>11, <1>12, <1>13, <1>14, <1>15, Zenon DEF ConsumerObserver
\* The index of a walk names at most one item of the list.
LEMMA OneAtIndex ==
  ASSUME DOMAIN mPoolList \subseteq Ids, NEW i, NEW j \in IdAt(i), NEW k \in IdAt(i)
  PROVE  j = k
<1> DEFINE D == DOMAIN mPoolList
           below(x) == {y \in D : y < x}
<1>1. IsFiniteSet(D) /\ D \subseteq Nat
  <2>1. IsFiniteSet(1..MaxAlloc)
    BY ConstantTypes, FS_Interval
  <2>2. IsFiniteSet(D)
    BY <2>1, ConstantTypes, FS_Subset, Zenon
  <2> QED
    BY <2>2, ConstantTypes
<1>2. j \in D /\ k \in D /\ Cardinality(below(j)) = i /\ Cardinality(below(k)) = i
  BY Zenon DEF IdAt
<1> HIDE DEF D
<1>3. ASSUME NEW x \in D, NEW y \in D, Cardinality(below(x)) = Cardinality(below(y))
      PROVE  ~(x < y)
  <2>1. SUFFICES ASSUME x < y PROVE FALSE
    OBVIOUS
  <2>2. below(x) \subseteq below(y) /\ x \in below(y) /\ x \notin below(x)
    <3>1. ~(x < x) /\ \A z \in D : z < x => z < y
      BY <1>1, <2>1
    <3> QED
      BY <2>1, <3>1, Zenon
  <2>3. IsFiniteSet(below(y))
    BY <1>1, FS_Subset, Zenon
  <2> HIDE DEF below
  <2> QED
    BY <1>3, <2>2, <2>3, FS_Subset, Zenon
<1>4. ~(j < k) /\ ~(k < j)
  BY <1>2, <1>3, Zenon
<1> QED
  BY <1>1, <1>2, <1>4

LEMMA ProducersGoing ==
  ASSUME IInv, TypeOK, Going, NEW p \in Producers, ProducerCalls(p)
  PROVE  Going'
<1>1. /\ UnusedGoes /\ FoundLate(cobs) /\ Fits(mPoolList)
      /\ \A j \in DOMAIN mPoolList : Fit(mPoolList[j])
  BY ItemFits, Zenon DEF Going, Fits
<1>2. pobs' = pobs
  BY Zenon DEF ProducerCalls, alloc, free
<1>3. ASSUME NEW hwc \in BOOLEAN, alloc(p, hwc) PROVE Going'
  <2> DEFINE displays == IF DOMAIN mPoolList = {} THEN mDisplayList \cup {0} ELSE mDisplayList
             ts == IF hwc THEN displays ELSE {}
             item == [prod |-> p, obs |-> p, hwc |-> hwc, slot |-> [b \in BufsOf(ts) |-> None],
                      out |-> {}, conn |-> FALSE, users |-> {}, left |-> FALSE, raced |-> FALSE]
             pool == [id \in DOMAIN mPoolList \cup {getPoolId} |->
                        IF id = getPoolId THEN item ELSE mPoolList[id]]
  <2>1. Update(pool, cobs, None)
    BY <1>3, Zenon DEF alloc
  <2>2. Fit(item)
    BY AllocatedFits, Zenon
  <2>3. item.prod = p /\ p # None
    BY ConstantTypes, Zenon
  <2> HIDE DEF item
  <2>4. ~Unused(item)
    BY <2>3, Zenon DEF Unused
  <2>5. Fits(pool)
    BY <1>1, <2>2, Zenon DEF Fits
  <2>6. \A j \in DOMAIN pool : Unused(pool[j]) =>
          pool[j].raced \/ Removing(j, cobs) \/ \E q \in Producers \ {None} : WalkAt(q, j)
    BY <1>1, <2>4, AllProducers, Zenon DEF UnusedGoes
  <2> HIDE DEF pool
  <2> QED
    BY <1>1, <1>2, <2>1, <2>5, <2>6, UpdateGoing, Zenon
<1>4. ASSUME NEW id \in Ids, free(p, id) PROVE Going'
  <2> DEFINE item == [mPoolList[id] EXCEPT !.prod = None]
  <2>1. /\ id \in DOMAIN mPoolList
        /\ Update(removePoolItemLocked([mPoolList EXCEPT ![id] = item], id), cobs, None)
    BY <1>4, Zenon DEF free
  <2>2. Fit(item)
    BY <1>1, <2>1, ItemChangesFit, Zenon
  <2> HIDE DEF item
  <2> QED
    BY <1>1, <1>2, <2>1, <2>2, RemoveGoing, Zenon
<1> QED
  BY <1>3, <1>4, Zenon DEF ProducerCalls

LEMMA WalksGoing ==
  ASSUME IInv, TypeOK, Going, NEW p \in Producers, ProducerObserver(p) \/ ProducerDies(p)
  PROVE  Going'
<1>1. /\ UnusedGoes /\ FoundLate(cobs) /\ Fits(mPoolList)
      /\ \A j \in DOMAIN mPoolList : Fit(mPoolList[j])
  BY ItemFits, Zenon DEF Going, Fits
<1>2. pobs \in [Producers -> ProducerObservers] /\ DOMAIN mPoolList \subseteq Ids
  BY Zenon DEF TypeOK
<1>3. \A q \in Producers \ {p} : pobs'[q] = pobs[q]
  BY <1>2, Zenon DEF ProducerObserver, ProducerDies, WalkBegins, WalkCompares, WalkRemoves,
     WalkGoesOn
<1>4. ASSUME UNCHANGED <<mPoolList, cobs>>, pobs[p].pc = "remove" => pobs'[p].pc = "remove",
             pobs[p].pc = "remove" => pobs'[p].i = pobs[p].i
      PROVE  Going'
  <2>1. \A q \in Producers : \A j : WalkAt(q, j) => WalkAt(q, j)'
    BY <1>3, <1>4 DEF WalkAt, IdAt
  <2>2. UnusedGoes' /\ FoundLate(cobs')
    BY <1>1, <1>4, <2>1, Zenon DEF UnusedGoes
  <2> QED
    BY <2>2, Zenon DEF Going
<1>5. CASE ProducerDies(p)
  <2>1. UNCHANGED <<mPoolList, cobs>>
    BY <1>5, Zenon DEF ProducerDies
  <2>2. PICK t : pobs' = [pobs EXCEPT ![p].todo = t]
    BY <1>5, Zenon DEF ProducerDies
  <2>3. pobs'[p].pc = pobs[p].pc /\ pobs'[p].i = pobs[p].i
    BY <1>2, <2>2 DEF ProducerObservers
  <2> QED
    BY <1>4, <2>1, <2>3, Zenon
<1>6. ASSUME NEW id \in Ids, WalkBegins(p, id) PROVE Going'
  <2>1. UNCHANGED <<mPoolList, cobs>> /\ pobs[p].pc = "next"
    BY <1>6, Zenon DEF WalkBegins
  <2>2. pobs[p].pc # "remove"
    BY <2>1
  <2> QED
    BY <1>4, <2>1, <2>2, Zenon
<1>7. CASE WalkCompares(p)
  <2> DEFINE mine == {id \in IdAt(pobs[p].i) : mPoolList[id].prod = p}
             item(id) == IF id \in mine THEN [mPoolList[id] EXCEPT !.prod = None] ELSE mPoolList[id]
             pool == [id \in DOMAIN mPoolList |-> item(id)]
  <2>1. /\ pobs[p].pc = "compare" /\ Update(pool, cobs, p)
        /\ mine # {} => pobs' = [pobs EXCEPT ![p].pc = "remove"]
    BY <1>7, Zenon DEF WalkCompares
  <2>2. \A id \in DOMAIN mPoolList : Fit(item(id))
    BY <1>1, ItemChangesFit, Zenon
  <2>3. \A id \in DOMAIN mPoolList : id \notin mine => item(id) = mPoolList[id]
    BY Zenon
  <2>4. \A id \in mine : IdAt(pobs[p].i) = {id}
    <3>1. \A j, k \in IdAt(pobs[p].i) : j = k
      BY <1>2, OneAtIndex
    <3> QED
      BY <3>1, Zenon
  <2>5. DOMAIN mPoolList' = DOMAIN mPoolList
    <3>1. DOMAIN pool = DOMAIN mPoolList
      BY Zenon
    <3> HIDE DEF pool
    <3> QED
      BY <2>1, <3>1, UpdateDomain, Zenon
  <2> HIDE DEF item
  <2>6. Fits(pool)
    BY <2>2, Zenon DEF Fits
  <2>7. ASSUME NEW id \in mine PROVE WalkAt(p, id)'
    <3>1. pobs' = [pobs EXCEPT ![p].pc = "remove"]
      BY <2>1, <2>7, Zenon
    <3>2. pobs'[p].pc = "remove" /\ pobs'[p].i = pobs[p].i
      BY <1>2, <3>1 DEF ProducerObservers
    <3>3. IdAt(pobs[p].i)' = IdAt(pobs[p].i)
      BY <2>5, <3>2, Zenon DEF IdAt
    <3> QED
      BY <2>4, <2>7, <3>2, <3>3, Zenon DEF WalkAt
  <2>8. \A id : ~WalkAt(p, id)
    BY <2>1 DEF WalkAt
  <2> HIDE DEF mine
  <2>9. \A j \in DOMAIN pool : Unused(pool[j]) =>
          \/ pool[j].raced \/ Removing(j, cobs)
          \/ \E q \in Producers \ {p} : WalkAt(q, j)
          \/ \E q \in Producers : WalkAt(q, j)'
    <3> SUFFICES ASSUME NEW j \in DOMAIN mPoolList, Unused(item(j))
                 PROVE  \/ item(j).raced \/ Removing(j, cobs)
                        \/ \E q \in Producers \ {p} : WalkAt(q, j)
                        \/ \E q \in Producers : WalkAt(q, j)'
      BY Zenon
    <3>1. CASE j \in mine
      BY <2>7, <3>1, Zenon
    <3>2. CASE j \notin mine
      BY <1>1, <2>3, <2>8, <3>2, Zenon DEF UnusedGoes
    <3> QED
      BY <3>1, <3>2, Zenon
  <2> HIDE DEF pool
  <2> QED
    BY <1>1, <1>3, <2>1, <2>6, <2>9, UpdateGoing, Zenon
<1>8. CASE WalkRemoves(p)
  <2> DEFINE S == IdAt(pobs[p].i)
             pool == IF S = {} THEN mPoolList ELSE removePoolItemLocked(mPoolList, Min(S))
  <2>1. Update(pool, cobs, p)
    BY <1>8, Zenon DEF WalkRemoves
  <2>2. Fits(pool)
    BY <1>1, ListFits, Zenon
  <2>3. \A j \in DOMAIN pool : j \in DOMAIN mPoolList /\ pool[j] = mPoolList[j]
    BY Zenon DEF removePoolItemLocked
  <2>4. ASSUME NEW j \in DOMAIN pool, WalkAt(p, j) PROVE ~Unused(pool[j])
    <3>1. S = {j} /\ S # {}
      BY <2>4, Zenon DEF WalkAt
    <3>2. j \in Nat /\ S \in SUBSET Nat
      BY <1>2, <2>3, <3>1, ConstantTypes
    <3>3. Min(S) = j
      BY <3>1, <3>2, MinIs, Zenon
    <3>4. pool = removePoolItemLocked(mPoolList, j)
      BY <3>1, <3>3, Zenon
    <3> HIDE DEF pool
    <3>5. SUFFICES ASSUME Unused(mPoolList[j]) PROVE FALSE
      BY <2>3, Zenon
    <3>6. pool = [k \in DOMAIN mPoolList \ {j} |-> mPoolList[k]]
      BY <2>3, <3>4, <3>5, Zenon DEF removePoolItemLocked
    <3>7. j \notin DOMAIN pool
      BY <3>6, Zenon
    <3> QED
      BY <3>7, Zenon
  <2> HIDE DEF pool
  <2>5. \A j \in DOMAIN pool : Unused(pool[j]) =>
          pool[j].raced \/ Removing(j, cobs) \/ \E q \in Producers \ {p} : WalkAt(q, j)
    BY <1>1, <2>3, <2>4, Zenon DEF UnusedGoes
  <2> QED
    BY <1>1, <1>3, <2>1, <2>2, <2>5, UpdateGoing, Zenon
<1> QED
  BY <1>5, <1>6, <1>7, <1>8, Zenon DEF ProducerObserver

\* An item that nobody uses (no producer, flag of its usage set: removePoolItemLocked(),
\* GuiExtImpl.cpp:390) is at every moment about to be removed, by the observer of a dead
\* consumer that has found no other token (:712, 725) or by the walk of a dead producer's
\* observer (:175), unless a call came into the middle of an observer's work: no interleaving
\* of calls and deaths leaves it in the list of ten with nobody to remove it.
THEOREM UnusedGoesHolds == Spec => []UnusedGoes
<1>1. Init => Going
  <2>1. SUFFICES ASSUME Init PROVE Going
    BY Zenon
  <2>2. DOMAIN mPoolList = {} /\ \A d \in Consumers : cobs[d] = NoCleaning
    BY <2>1, Zenon DEF Init
  <2>3. NoCleaning.found = FALSE
    BY DEF NoCleaning
  <2> QED
    BY <2>2, <2>3, Zenon DEF Going, UnusedGoes, FoundLate
<1>2. IInv /\ TypeOK /\ Going /\ [Next]_vars => Going'
  <2>1. SUFFICES ASSUME IInv, TypeOK, Going, [Next]_vars PROVE Going'
    BY Zenon
  <2>2. Fits(mPoolList) /\ UnusedGoes /\ FoundLate(cobs)
    BY <2>1, ItemFits, Zenon DEF Going
  <2>3. ASSUME UNCHANGED <<mPoolList, pobs, cobs>> PROVE Going'
    BY <2>2, <2>3, WatchGoing, Zenon
  <2>4. ASSUME NEW c \in Consumers, ConsumerDies(c) PROVE Going'
    BY <2>3, <2>4, Zenon DEF ConsumerDies
  <2>5. ASSUME NEW t \in Types, NEW enable \in BOOLEAN, configDisplay(t, enable) PROVE Going'
    BY <2>3, <2>5, Zenon DEF configDisplay
  <2>6. CASE UNCHANGED vars
    BY <2>3, <2>6, Zenon DEF vars
  <2> QED
    BY <2>1, <2>2, <2>4, <2>5, <2>6, CallsGoing, ObserverGoing, ProducersGoing, WalksGoing, Zenon
       DEF Next
<1>3. Going => UnusedGoes
  BY Zenon DEF Going
<1> QED
  BY <1>1, <1>2, <1>3, Invariance, TypeCorrect, PTL DEF Spec
=============================================================================
