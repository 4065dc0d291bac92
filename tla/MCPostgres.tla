----------------------------- MODULE MCPostgres -----------------------------
(* Two callers that share one session, each in a worker of its own or both   *)
(* in one.                                                                   *)
EXTENDS PostgresTreasury, TLC

CONSTANTS w1, w2, c1, c2

Apart == (c1 :> w1) @@ (c2 :> w2)
Together == [c \in {c1, c2} |-> w1]

\* Below zero, inside a ceiling, above every ceiling.
MCSpend == {-1, 1, 5}
=============================================================================
