------------------------- MODULE InputReaderProofs -------------------------
(***************************************************************************)
(* The circular input reader implements a queue, for every capacity and    *)
(* every set of events.                                                    *)
(***************************************************************************)
EXTENDS InputReader, TLAPS

IInv == TypeOK /\ HeadFollowsEvents

LEMMA StoredType ==
  ASSUME NEW k \in 1..N, NEW s \in [1..k -> Events], TypeOK, NEW h \in 0..N
  PROVE  Stored(h, s) \in [0..(2 * N - 1) -> Events]
<1>1. Len(s) = k
  BY ReaderConstants
<1>2. ASSUME NEW i \in 0..(2 * N - 1)
      PROVE (IF h <= i /\ i < h + k THEN s[i - h + 1] ELSE mBuffer[i]) \in Events
  <2>1. CASE h <= i /\ i < h + k
    <3>1. i - h + 1 \in 1..k
      BY <2>1, ReaderConstants
    <3> QED BY <2>1, <3>1
  <2>2. CASE ~(h <= i /\ i < h + k)
    BY <2>2 DEF TypeOK
  <2> QED BY <2>1, <2>2
<1> QED BY <1>1, <1>2 DEF Stored

LEMMA WrappedType ==
  ASSUME NEW b \in [0..(2 * N - 1) -> Events], NEW h \in 0..(2 * N)
  PROVE  WrappedToFront(b, h) \in [0..(2 * N - 1) -> Events]
<1>1. ASSUME NEW i \in 0..(2 * N - 1) PROVE (IF i < h - N THEN b[N + i] ELSE b[i]) \in Events
  <2>1. CASE i < h - N
    <3>1. N + i \in 0..(2 * N - 1)
      BY <2>1, ReaderConstants
    <3> QED BY <2>1, <3>1
  <2>2. CASE ~(i < h - N)
    BY <2>2
  <2> QED BY <2>1, <2>2
<1> QED BY <1>1 DEF WrappedToFront

LEMMA WrappedAt ==
  ASSUME NEW b, NEW h, NEW i \in 0..(2 * N - 1)
  PROVE  WrappedToFront(b, h)[i] = IF i < h - N THEN b[N + i] ELSE b[i]
BY Zenon DEF WrappedToFront

LEMMA FillKeepsIInv ==
  ASSUME NEW k \in 1..N, NEW s \in [1..k -> Events], IInv, fill(s)
  PROVE  IInv'
<1> USE ReaderConstants DEF IInv, TypeOK, HeadFollowsEvents
<1>1. Len(s) = k /\ k <= mFreeSpace
  BY DEF fill
<1>2. CASE Wraps(mHead + k)
  <2>1. mBuffer' \in [0..(2 * N - 1) -> Events]
    <3>1. mHead + k \in 0..(2 * N)
      BY <1>1
    <3> QED BY <1>1, <1>2, <3>1, StoredType, WrappedType DEF fill
  <2>2. mHead' = mHead + k - N /\ mFreeSpace' = mFreeSpace - k /\ mCurr' = mCurr
    BY <1>1, <1>2 DEF fill
  <2> QED BY <1>1, <1>2, <2>1, <2>2 DEF Wraps
<1>3. CASE ~Wraps(mHead + k)
  <2>1. mBuffer' \in [0..(2 * N - 1) -> Events]
    BY <1>1, <1>3, StoredType DEF fill
  <2>2. mHead' = mHead + k /\ mFreeSpace' = mFreeSpace - k /\ mCurr' = mCurr
    BY <1>1, <1>3 DEF fill
  <2> QED BY <1>1, <1>3, <2>1, <2>2 DEF Wraps
<1> QED BY <1>2, <1>3

\* The invariant of the circular reader: its indices stay in the array, and
\* mHead lies behind the newest event.
THEOREM IndicesFit == Spec => []IInv
<1> USE ReaderConstants
<1>1. Init => IInv
  BY DEF Init, IInv, TypeOK, HeadFollowsEvents
<1>2. IInv /\ [Next]_vars => IInv'
  <2> SUFFICES ASSUME IInv, [Next]_vars PROVE IInv'
    OBVIOUS
  <2>1. ASSUME NEW k \in 1..N, NEW s \in [1..k -> Events], fill(s) PROVE IInv'
    BY <2>1, FillKeepsIInv
  <2>2. CASE next
    BY <2>2 DEF next, Advance, IInv, TypeOK, HeadFollowsEvents
  <2>3. CASE UNCHANGED vars
    BY <2>3 DEF vars, IInv, TypeOK, HeadFollowsEvents
  <2> QED BY <2>1, <2>2, <2>3 DEF Next
<1> QED BY <1>1, <1>2, PTL DEF Spec

\* Type correctness of the circular reader (InputEventReader.cpp).
THEOREM TypeCorrect == Spec => []TypeOK
<1>1. IInv => TypeOK
  BY DEF IInv
<1> QED BY <1>1, IndicesFit, PTL

\* The place of mHead (InputEventReader.cpp:83).
THEOREM HeadFollowsEventsHolds == Spec => []HeadFollowsEvents
<1>1. IInv => HeadFollowsEvents
  BY DEF IInv
<1> QED BY <1>1, IndicesFit, PTL

-----------------------------------------------------------------------------
\* What fill() does to one place of the array.
LEMMA FillAt ==
  ASSUME NEW k \in 1..N, NEW s \in [1..k -> Events], IInv, fill(s),
         NEW i \in 0..(N - mFreeSpace + k - 1)
  PROVE  mBuffer'[At(i)] = IF i < N - mFreeSpace THEN mBuffer[At(i)]
                           ELSE s[i - (N - mFreeSpace) + 1]
<1> USE ReaderConstants DEF IInv, TypeOK, HeadFollowsEvents
<1>1. Len(s) = k /\ k <= mFreeSpace
  BY DEF fill
<1>2. At(i) \in 0..(N - 1) /\ (At(i) = mCurr + i \/ At(i) = mCurr + i - N)
      /\ (At(i) = mCurr + i => mCurr + i < N) /\ (At(i) # mCurr + i => mCurr + i >= N)
  BY <1>1 DEF At
<1>3. \/ mHead = mCurr + (N - mFreeSpace)
      \/ mHead = mCurr + (N - mFreeSpace) - N
      \/ mHead = mCurr + (N - mFreeSpace) + N
  OBVIOUS
<1>4. \A j \in 0..(2 * N - 1) : Stored(mHead, s)[j] =
         IF mHead <= j /\ j < mHead + k THEN s[j - mHead + 1] ELSE mBuffer[j]
  BY <1>1 DEF Stored
<1> DEFINE a == At(i)
<1> HIDE DEF a, IInv, HeadFollowsEvents
<1>5. a \in 0..(2 * N - 1)
  BY <1>2 DEF a
<1>6. CASE Wraps(mHead + k)
  <2>1. mBuffer'[a] = IF a < (mHead + k) - N THEN Stored(mHead, s)[N + a]
                                             ELSE Stored(mHead, s)[a]
    <3>1. mBuffer' = WrappedToFront(Stored(mHead, s), mHead + k)
      BY <1>1, <1>6 DEF fill
    <3> DEFINE st == Stored(mHead, s)
               h == mHead + k
    <3>2. WrappedToFront(st, h)[a] = IF a < h - N THEN st[N + a] ELSE st[a]
      <4> HIDE DEF st, h
      <4> QED BY <1>5, WrappedAt
    <3> QED BY <3>1, <3>2, Zenon
  <2>2. CASE a < (mHead + k) - N
    <3> DEFINE b == N + a
    <3>1. b \in 0..(2 * N - 1) /\ mHead <= b /\ b < mHead + k
      BY <1>1, <1>2, <2>2 DEF a, IInv
    <3>2. i >= N - mFreeSpace /\ b - mHead + 1 = i - (N - mFreeSpace) + 1
      BY <1>1, <1>2, <1>3, <1>6, <2>2, SMTT(30) DEF a, Wraps, IInv
    <3>3. mBuffer'[a] = Stored(mHead, s)[b]
      BY <2>1, <2>2
    <3>4. ~(i < N - mFreeSpace)
      BY <3>2 DEF IInv
    <3> HIDE DEF b
    <3>5. Stored(mHead, s)[b] = s[b - mHead + 1]
      BY <1>4, <3>1
    <3> QED BY <3>2, <3>3, <3>4, <3>5 DEF a
  <2>3. CASE ~(a < (mHead + k) - N)
    <3>1. a < mHead + k
      BY <1>1, <1>2, <1>6 DEF a, Wraps, IInv
    <3>2. mBuffer'[a] = IF mHead <= a THEN s[a - mHead + 1] ELSE mBuffer[a]
      BY <1>4, <1>5, <2>1, <2>3, <3>1
    <3>3. (mHead <= a) <=> (i >= N - mFreeSpace)
      BY <1>1, <1>2, <1>3, <1>6, <2>3, SMTT(30) DEF a, Wraps, IInv
    <3>4. mHead <= a => a - mHead + 1 = i - (N - mFreeSpace) + 1
      BY <1>1, <1>2, <1>3, <1>6, <2>3, SMTT(30) DEF a, Wraps, IInv
    <3> QED BY <3>2, <3>3, <3>4 DEF a, IInv
  <2> QED BY <2>2, <2>3
<1>7. CASE ~Wraps(mHead + k)
  <2>1. mBuffer'[a] = IF mHead <= a /\ a < mHead + k THEN s[a - mHead + 1] ELSE mBuffer[a]
    <3>1. mBuffer' = Stored(mHead, s)
      BY <1>1, <1>7 DEF fill
    <3> QED BY <1>4, <1>5, <3>1
  <2>2. (mHead <= a /\ a < mHead + k) <=> (i >= N - mFreeSpace)
    BY <1>1, <1>2, <1>3, <1>7, SMTT(30) DEF a, Wraps, IInv
  <2>3. (mHead <= a /\ a < mHead + k) => a - mHead + 1 = i - (N - mFreeSpace) + 1
    BY <1>1, <1>2, <1>3, <1>7, SMTT(30) DEF a, Wraps, IInv
  <2> QED BY <2>1, <2>2, <2>3 DEF a, IInv
<1> QED BY <1>6, <1>7

LEMMA SequenceIsFunction ==
  ASSUME NEW q \in Seq(Events)
  PROVE  q = [i \in 1..Len(q) |-> q[i]]
OBVIOUS

LEMMA FillIsPut ==
  ASSUME NEW k \in 1..N, NEW s \in [1..k -> Events], IInv, fill(s)
  PROVE  Queue!Put(s)
<1> USE ReaderConstants DEF IInv, TypeOK
<1> DEFINE m == N - mFreeSpace
<1>1. Len(s) = k /\ k <= mFreeSpace /\ mFreeSpace' = mFreeSpace - k /\ mCurr' = mCurr
  BY DEF fill
<1>2. \A i \in 0..(m - 1) : At(i) \in 0..(N - 1)
  BY DEF At
<1>3. Contents \in Seq(Events) /\ Len(Contents) = m
  BY <1>2 DEF Contents
<1>4. s \in Seq(Events)
  BY <1>1
<1>5. \A i \in 0..(m + k - 1) : At(i)' = At(i)
  BY <1>1 DEF At
<1>6. Contents' = [i \in 1..(m + k) |-> mBuffer'[At(i - 1)]]
  BY <1>1, <1>5 DEF Contents
<1>7. Contents' = Contents \o s
  <2>1. \A i \in 1..(m + k) : mBuffer'[At(i - 1)] = IF i <= m THEN Contents[i] ELSE s[i - m]
    BY FillAt DEF Contents
  <2> HIDE DEF m
  <2>2. m \in Nat /\ k \in Nat
    BY <1>3
  <2>3. Contents \o s \in Seq(Events) /\ Len(Contents \o s) = m + k
    BY <1>1, <1>3, <1>4, SMTT(30)
  <2>4. \A i \in 1..(m + k) : (Contents \o s)[i] = IF i <= m THEN Contents[i] ELSE s[i - m]
    BY <1>1, <1>3, <1>4, <2>2, SMTT(30)
  <2>5. Contents \o s = [i \in 1..(m + k) |-> (Contents \o s)[i]]
    BY <2>3, SequenceIsFunction, Zenon
  <2> QED BY <1>6, <2>1, <2>4, <2>5, Zenon
<1> QED BY <1>1, <1>3, <1>7 DEF Queue!Put

LEMMA NextIsGet ==
  ASSUME IInv, next
  PROVE  Queue!Get
<1> USE ReaderConstants DEF IInv, TypeOK
<1> DEFINE m == N - mFreeSpace
<1>1. m \in 1..N /\ mFreeSpace' = mFreeSpace + 1 /\ mBuffer' = mBuffer
  BY DEF next
<1>2. \A i \in 0..(m - 1) : At(i) \in 0..(N - 1)
  BY DEF At
<1>3. Contents \in Seq(Events) /\ Len(Contents) = m /\ Contents # <<>>
  BY <1>1, <1>2 DEF Contents
<1>4. \A i \in 0..(m - 2) : At(i)' = At(i + 1)
  BY <1>1 DEF At, next, Advance
<1>5. Contents' = [i \in 1..(m - 1) |-> mBuffer[At(i)]]
  <2>1. Contents' = [i \in 1..(m - 1) |-> mBuffer[At(i - 1)']]
    BY <1>1 DEF Contents
  <2>2. \A i \in 1..(m - 1) : At(i - 1)' = At(i)
    BY <1>1, <1>4
  <2> QED BY <2>1, <2>2
<1>6. Tail(Contents) = [i \in 1..(m - 1) |-> mBuffer[At(i)]]
  BY <1>1, <1>2, <1>3, SMTT(30) DEF Contents
<1> QED BY <1>3, <1>5, <1>6 DEF Queue!Get

\* The reader implements the queue: events come out once and in order, and none
\* is overwritten, for every capacity.
THEOREM Refinement == Spec => ReaderIsQueue
<1> USE ReaderConstants
<1>1. Init => Queue!Init
  BY DEF Init, Queue!Init, Contents
<1>2. IInv /\ [Next]_vars => [Queue!Next]_Contents
  <2> SUFFICES ASSUME IInv, [Next]_vars PROVE [Queue!Next]_Contents
    OBVIOUS
  <2>1. ASSUME NEW k \in 1..N, NEW s \in [1..k -> Events], fill(s) PROVE Queue!Next
    BY <2>1, FillIsPut DEF Queue!Next
  <2>2. CASE next
    BY <2>2, NextIsGet DEF Queue!Next
  <2>3. CASE UNCHANGED vars
    BY <2>3 DEF vars, Contents, At
  <2> QED BY <2>1, <2>2, <2>3 DEF Next
<1> QED BY <1>1, <1>2, IndicesFit, PTL DEF Spec, ReaderIsQueue, Queue!Spec
=============================================================================
