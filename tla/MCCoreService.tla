--------------------------- MODULE MCCoreService ---------------------------
(* Small instances of CoreService for TLC. *)
EXTENDS CoreService, TLC

CONSTANTS c1, c2, d1, d2, k1, k2, m1, m2, l1, a, b

TwoCalls == {c1, c2}
OneLocate == {l1}
NoCalls == {}
OneCall == {c1}
TwoDirs == {d1, d2}
OneDir == {d1}
TwoKeys == {k1, k2}
OneKey == {k1}
TwoModels == {m1, m2}
OneModel == {m1}
OneName == {a}
TwoNames == {a, b}
=============================================================================
