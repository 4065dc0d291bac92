---------------------------- MODULE MCPgBootstrap ----------------------------
(* Two workers whose budgets differ, one of them with two callers on a       *)
(* single connection, and a third one that only reads, as the process of     *)
(* scenario A that resumes after a crash.                                    *)
EXTENDS PgBootstrap, TLC

CONSTANTS w1, w2, w3, c1, c2, c3, c4

MCWorkerOf == (c1 :> w1) @@ (c2 :> w1) @@ (c3 :> w2) @@ (c4 :> w3)
MCCreateTables == (w1 :> TRUE) @@ (w2 :> TRUE) @@ (w3 :> FALSE)
MCBudget == (w1 :> 2) @@ (w2 :> 5) @@ (w3 :> NoBudget)
=============================================================================
