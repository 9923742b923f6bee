------------------------------ MODULE MCGpsHal ------------------------------
(* Instances of GpsHal for TLC: sockets that fill up within one burst of    *)
(* requests, and the deaths each run allows.                                *)
EXTENDS GpsHal

MCHalCap == 3
MCThreeDeaths == 3
MCOneDeath == 1
=============================================================================
