--------------------------- MODULE MCAdvicePanel ---------------------------
(* Small instances of AdvicePanel for TLC. *)
EXTENDS AdvicePanel
=============================================================================
