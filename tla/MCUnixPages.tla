---------------------------- MODULE MCUnixPages ----------------------------
(* Instances of UnixPages for TLC: pages of 2 bytes and a jump range of 7.  *)
EXTENDS UnixPages

FixedPages == {5}
\* Every way the rest of memory can be in use.
AllLayouts == SUBSET (PageNos \ FixedPages)
=============================================================================
