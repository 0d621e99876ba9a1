--------------------------- MODULE MCWindowLayout ---------------------------
(***************************************************************************)
(* Instance of WindowLayout: a narrow window and a wide one, panels of a   *)
(* few units.                                                              *)
(***************************************************************************)
EXTENDS WindowLayout

MCWidths == {5, 7}
MCPointers == {0, 1, 4}
=============================================================================
