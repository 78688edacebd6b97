----------------------------- MODULE MCWinPages -----------------------------
(* An instance of WinPages for TLC: five units of two pages each and two    *)
(* functions, the lower of which reaches only some pages.                   *)
EXTENDS WinPages

TwoFuncs == {0, 1}
SomeNear == {<<p, f>> \in Pages \X TwoFuncs : f = 0 => p \in {<<2, 1>>, <<2, 2>>, <<3, 1>>}}
=============================================================================
