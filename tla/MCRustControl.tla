--------------------------- MODULE MCRustControl ---------------------------
(* Instances of RustControl for TLC. *)
EXTENDS RustControl

CONSTANTS a, b, h1, h2

TwoThreads == {a, b}
OneThread  == {a}
TwoHandles == {h1, h2}
=============================================================================
