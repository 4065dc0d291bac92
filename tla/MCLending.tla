----------------------------- MODULE MCLending -----------------------------
(* Micro-lending for TLC: callers on one event loop or on two.               *)
EXTENDS Lending, TLC

CONSTANTS c1, c2, l1, l2

OneLoop == [c \in {c1, c2} |-> l1]
TwoLoops == (c1 :> l1) @@ (c2 :> l2)

\* Below zero, at the threshold, and past the end.
MCReport == {-1, 3, 5}

\* Below zero, inside a ceiling of two, and above every ceiling.
MCSpend == {-1, 1, 5}
============================================================================
