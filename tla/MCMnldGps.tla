----------------------------- MODULE MCMnldGps -----------------------------
(* Instances of MnldGps for TLC. *)
EXTENDS MnldGps

MCOneBit == {"eph"}
MCOneNamed == {{"eph"}}
MCTwoBits == {"eph", "time"}
MCTwoNamed == {{"eph"}, {"time"}}
=============================================================================
