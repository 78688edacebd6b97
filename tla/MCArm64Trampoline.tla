------------------------- MODULE MCArm64Trampoline -------------------------
(* Instances of Arm64Trampoline for TLC: two of the seven registers.        *)
EXTENDS Arm64Trampoline

TwoRegs == {9, 10}
AnyRegs == SUBSET TwoRegs
NoRegs  == {{}}
MoveRefs == {1, 7}
ScanRefs == {0, 1, 2}

\* The function is in page 9 of 4 instructions each, and adrp reaches 8 pages
\* back and 7 on.  Pages 0, 17 and 25 are out of reach, the last by all 21 bits
\* of the field, which are 4 here.
NearAndFar == {4 * n : n \in {0, 1, 5, 8, 9, 10, 13, 16, 17, 25}}
=============================================================================
