---------------------------- MODULE MCLedgerGuard ----------------------------
(* Two guarded calls for TLC on two event loops: a node and a plain one, or  *)
(* two nodes.                                                                *)
EXTENDS LedgerGuard, TLC

CONSTANTS c1, c2, l1, l2

TwoLoops == (c1 :> l1) @@ (c2 :> l2)
NodeAndPlain == (c1 :> "node") @@ (c2 :> "plain")
Nodes == [c \in {c1, c2} |-> "node"]

Prices == [small |-> Price(1, 2, NoModel), large |-> Price(2, 4, "small")]

Reporting(places) == [usage |-> places, model |-> NoModel, opaque |-> FALSE]

NoUsage == Reporting(EmptyDict)

\* An OpenAI message whose token_usage is empty and whose usage_metadata is
\* not: one token in and none out.
Message == Reporting(("token_usage" :> EmptyDict) @@
                     ("usage_metadata" :> [input_tokens |-> 1,
                                           output_tokens |-> 0]))

\* The response of a provider in its own names: four.
Native == Reporting("attribute" :> [input_tokens |-> 2, output_tokens |-> 1])

\* A node's state that names a dearer model than was asked for: four again.
StateEntry ==
  [usage |-> "entry" :> [prompt_tokens |-> 0, completion_tokens |-> 1,
                         model |-> "large"],
   model |-> "small", opaque |-> FALSE]

\* A model without a price, and a state whose usage is an object.
UnlistedModel == [usage |-> "usage" :> [prompt_tokens |-> 1], model |-> "other",
                  opaque |-> FALSE]
ObjectEntry == [NoUsage EXCEPT !.opaque = TRUE]

Results == {NoUsage, Message, Native, StateEntry, UnlistedModel, ObjectEntry}
=============================================================================
