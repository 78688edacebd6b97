----------------------------- MODULE MCFunchook -----------------------------
(* Instances of Funchook for TLC. *)
EXTENDS Funchook, TLC

CONSTANTS h1, h2, t1, t2, p1, p2

\* Two handles that may hook the same targets, and pages for two of them.
TwoHandles == {h1, h2}
TwoTargets == {t1, t2}
TwoPages   == {p1, p2}

\* Every page can serve every target but one: p2 is too far from t1.
NearBut == (Pages \X Targets) \ {<<p2, t1>>}
NearAll == Pages \X Targets

\* Pages of memory of 8 bytes and patches of 3: t1 ends with page 1, and t2
\* begins in page 0 and ends in page 1.
Addresses  == (t1 :> 13) @@ (t2 :> 6)

=============================================================================
