--------------------------- MODULE MCGuiExtPool ---------------------------
(* Instances of GuiExtPool for TLC. *)
EXTENDS GuiExtPool
=============================================================================
