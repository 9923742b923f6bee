----------------------------- MODULE EventQueue -----------------------------
(***************************************************************************)
(* What a sensor driver of the sensors HAL expects of its input reader: a  *)
(* queue of at most N events that come out in the order in which they came *)
(* in.                                                                     *)
(***************************************************************************)
EXTENDS Integers, Sequences

CONSTANTS Events, N

VARIABLE queue

Init == queue = <<>>

Put(s) == Len(queue) + Len(s) <= N /\ queue' = queue \o s
Get == queue # <<>> /\ queue' = Tail(queue)

Next == (\E k \in 1..N : \E s \in [1..k -> Events] : Put(s)) \/ Get

Spec == Init /\ [][Next]_queue
=============================================================================
