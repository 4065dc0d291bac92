------------------------------ MODULE MCPgGuard ------------------------------
(* Two guarded calls for TLC, a node and a plain one, in two workers.        *)
EXTENDS PgGuard, TLC

CONSTANTS w1, w2, c1, c2

Apart == (c1 :> w1) @@ (c2 :> w2)
NodeAndPlain == (c1 :> "node") @@ (c2 :> "plain")

Prices == [small |-> Price(1, 2, NoModel)]

Reporting(places) == [usage |-> places, model |-> NoModel, opaque |-> FALSE]

NoUsage == Reporting(EmptyDict)

\* Costs of one and of four, and a result that has none.
One == Reporting("token_usage" :> [prompt_tokens |-> 1])
Four == Reporting("attribute" :> [input_tokens |-> 2, output_tokens |-> 1])
ObjectEntry == [NoUsage EXCEPT !.opaque = TRUE]

Results == {One, Four, ObjectEntry}
=============================================================================
