--------------------------- MODULE MCSensorsPoll ---------------------------
(* Instances of SensorsPoll for TLC. *)
EXTENDS SensorsPoll
=============================================================================
