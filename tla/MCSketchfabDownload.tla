------------------------ MODULE MCSketchfabDownload ------------------------
(* Small instances of SketchfabDownload for TLC. *)
EXTENDS SketchfabDownload

CONSTANTS house, chair

BothModels == {house, chair}
=============================================================================
