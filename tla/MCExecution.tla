---------------------------- MODULE MCExecution ----------------------------
(* Instances of Execution for TLC. *)
EXTENDS Execution, TLC

CONSTANTS h1, h2, t1, t2, p1, p2, a

OneThread  == {a}
TwoHandles == {h1, h2}
TwoTargets == {t1, t2}
TwoPages   == {p1, p2}

\* h1 has prehooks; h2 has none, and only its hook of t1 is within reach.
OnlyH1     == {h1}
H2OnT1     == {<<h2, t1>>}

\* Every page serves both targets.
NearAll == Pages \X Targets

\* Pages of memory of 8 bytes and patches of 3: both targets are in page 0.
Addresses == (t1 :> 1) @@ (t2 :> 4)
=============================================================================
