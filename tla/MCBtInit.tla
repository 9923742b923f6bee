------------------------------ MODULE MCBtInit ------------------------------
(* Instances of BtInit for TLC. *)
EXTENDS BtInit

\* A chip with an empty postload script (the one of this build), one with a command
\* in it, and one that neither switch knows.
MCChips == {"6735", "6630", "unknown"}
MCPre == [c \in {"6735", "6630"} |-> <<"get", "set", "reset", "end">>]
MCPost == [c \in {"6735", "6630"} |-> IF c = "6630" THEN <<"pcm", "end">> ELSE <<"end">>]
=============================================================================
