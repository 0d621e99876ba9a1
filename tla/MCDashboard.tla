---------------------------- MODULE MCDashboard ----------------------------
(* Small instances of Dashboard for TLC. *)
EXTENDS Dashboard

CONSTANTS mesh, stage, orig
=============================================================================
