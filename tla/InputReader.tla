---------------------------- MODULE InputReader ----------------------------
(***************************************************************************)
(* InputEventCircularReader (InputEventReader.cpp): the buffer between an  *)
(* input device and a sensor driver.  It holds N events in an array of 2N, *)
(* so that one read() can run past the end; what lies behind the end is    *)
(* copied to the front afterwards.                                         *)
(***************************************************************************)
EXTENDS Integers, Sequences

CONSTANTS
  Events,   \* what the device reports
  N         \* numEvents: capacity in events

ASSUME ReaderConstants == N \in Nat \ {0}

VARIABLES
  mBuffer,      \* the array of 2N events, indexed from 0
  mHead,        \* index behind the newest event
  mCurr,        \* index of the oldest event
  mFreeSpace    \* places left

vars == <<mBuffer, mHead, mCurr, mFreeSpace>>

TypeOK ==
  /\ mBuffer \in [0..(2 * N - 1) -> Events]
  /\ mHead \in 0..N /\ mCurr \in 0..(N - 1) /\ mFreeSpace \in 0..N

\* The array is not initialised.
Init ==
  /\ mBuffer \in [0..(2 * N - 1) -> Events]
  /\ mHead = 0 /\ mCurr = 0 /\ mFreeSpace = N

-----------------------------------------------------------------------------
\* read() puts s at index h; what lies behind the end is copied to the front.
Stored(h, s) == [i \in 0..(2 * N - 1) |->
                   IF h <= i /\ i < h + Len(s) THEN s[i - h + 1] ELSE mBuffer[i]]
WrappedToFront_TooFar(b, h) == [i \in 0..(2 * N - 1) |-> IF i <= h - N THEN b[N + i] ELSE b[i]]
WrappedToFront(b, h) == [i \in 0..(2 * N - 1) |-> IF i < h - N THEN b[N + i] ELSE b[i]]

Wraps(h) == h > N

\* fill(): reads up to mFreeSpace events.
fill(s) ==
  /\ mFreeSpace > 0 /\ Len(s) <= mFreeSpace
  /\ mFreeSpace' = mFreeSpace - Len(s)
  /\ IF Wraps(mHead + Len(s))
     THEN /\ mBuffer' = WrappedToFront(Stored(mHead, s), mHead + Len(s))
          /\ mHead' = mHead + Len(s) - N
     ELSE /\ mBuffer' = Stored(mHead, s)
          /\ mHead' = mHead + Len(s)
  /\ UNCHANGED mCurr

\* next(), called after readEvent() has said that there is an event.
Advance == IF mCurr + 1 >= N THEN 0 ELSE mCurr + 1
next ==
  /\ N - mFreeSpace # 0
  /\ mFreeSpace' = mFreeSpace + 1
  /\ mCurr' = Advance
  /\ UNCHANGED <<mBuffer, mHead>>

\* One read() returns at most what the array has room for.
Next == (\E k \in 1..N : \E s \in [1..k -> Events] : fill(s)) \/ next

Spec == Init /\ [][Next]_vars

-----------------------------------------------------------------------------
\* The index at distance i behind the oldest event.
At(i) == IF mCurr + i < N THEN mCurr + i ELSE mCurr + i - N

\* The reader is a queue: the events from mCurr on, as many as are not free.
Contents == [i \in 1..(N - mFreeSpace) |-> mBuffer[At(i - 1)]]

Queue == INSTANCE EventQueue WITH queue <- Contents

\* Events come out once, in the order in which the device reported them, and
\* none is overwritten before it has been taken, wherever the buffer wraps
\* (InputEventReader.cpp:83).
ReaderIsQueue == Queue!Spec

\* mHead lies behind the newest event, where the end of the array and its front
\* are the same place (InputEventReader.cpp:83 wraps behind the end, not at it).
HeadFollowsEvents ==
  mHead - (mCurr + (N - mFreeSpace)) \in {0, -N, N}
=============================================================================
