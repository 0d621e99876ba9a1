----------------------------- MODULE MCLauncher -----------------------------
(* Small instances of Launcher for TLC. *)
EXTENDS Launcher

CONSTANTS first, second

OneLauncher == {first}
TwoLaunchers == {first, second}
=============================================================================
