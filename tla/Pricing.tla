------------------------------- MODULE Pricing -------------------------------
(* The pricing table of pricing.py: what a token costs and which model a     *)
(* model is degraded to.  Prices are in cents per million tokens, so that    *)
(* every price of the default table is a whole number.                       *)
EXTENDS Integers

\* degrade_to = None: the cheapest model of its family.
NoModel == "none"

Price(input, output, target) ==
  [input |-> input, output |-> output, degradeTo |-> target]

\* PricingTable._load_defaults
DefaultTable ==
  [m \in {"claude-opus-4", "claude-3-5-sonnet", "claude-3-5-haiku",
          "gpt-4o", "gpt-4o-mini"} |->
     CASE m = "claude-opus-4"     -> Price(1500, 7500, "claude-3-5-sonnet")
       [] m = "claude-3-5-sonnet" -> Price(300, 1500, "claude-3-5-haiku")
       [] m = "claude-3-5-haiku"  -> Price(80, 400, NoModel)
       [] m = "gpt-4o"            -> Price(250, 1000, "gpt-4o-mini")
       [] m = "gpt-4o-mini"       -> Price(15, 60, NoModel)]

\* ModelPrice.cost_of
CostOf(price, input, output) == price.input * input + price.output * output

\* p is the cheaper price, whatever the tokens are spent on.
Cheaper(p, q) == p.input < q.input /\ p.output < q.output

\* A table as ModelPrice describes it: degrading leads to a listed model, and
\* to a cheaper one.
WellOrdered(table) ==
  \A m \in DOMAIN table :
    LET target == table[m].degradeTo IN
    target # NoModel =>
      target \in DOMAIN table /\ Cheaper(table[target], table[m])
=============================================================================
