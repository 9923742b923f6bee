------------------------------- MODULE MCEpo -------------------------------
(* Instances of Epo for TLC. *)
EXTENDS Epo
=============================================================================
