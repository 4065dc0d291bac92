-------------------------------- MODULE Usage --------------------------------
(* What a run cost: usage.py.  The result of a wrapped function reports the  *)
(* tokens it used in one of several places, under one of two namings.        *)
(*                                                                           *)
(* A usage dict is a function on the keys it has; a token key whose value is *)
(* None reads like one that is missing.  A result is                         *)
(*   usage  - its usage dicts, by the place they are found in;               *)
(*   model  - the model it names beside them, or NoModel;                    *)
(*   opaque - its "usage" entry is an object that has no get method.         *)
EXTENDS Pricing, Money

CONSTANT Table   \* the pricing table

\* The order in which extract_usage looks: the two keys of response_metadata,
\* then usage_metadata, the "usage" entry of a dict, the usage attribute.
Places == <<"token_usage", "usage", "usage_metadata", "entry", "attribute">>

EmptyDict == << >>

\* Mutant: an empty token_usage is taken as it is.
FoundEmpty(r, place) == place \in DOMAIN r.usage

\* Only token_usage is tested for truth, all others for None.
Found(r, place) ==
  /\ place \in DOMAIN r.usage
  /\ place = "token_usage" => r.usage[place] # EmptyDict

HasUsage(r) == \E place \in DOMAIN r.usage : Found(r, place)

\* The usage dict is the first one found.
FirstFound(r, i) ==
  Found(r, Places[i]) /\ \A j \in DOMAIN Places : Found(r, Places[j]) => i <= j

UsageDict(r) == r.usage[Places[CHOOSE i \in DOMAIN Places : FirstFound(r, i)]]

\* The count under OpenAI's name for it, or else under Anthropic's.
Tokens(dict, key, native) ==
  CASE key \in DOMAIN dict -> dict[key]
    [] key \notin DOMAIN dict /\ native \in DOMAIN dict -> dict[native]
    [] OTHER -> 0

\* The model in the usage dict, even if it is None, or else the one beside it.
UsageModel(r, fallback) ==
  LET dict == UsageDict(r)
      named == IF "model" \in DOMAIN dict THEN dict["model"] ELSE r.model
  IN IF named = NoModel THEN fallback ELSE named

\* An entry that is an object is asked for its keys all the same, unless one of
\* the three places before it has a dict.
Readable(r) == r.opaque => \E i \in 1 .. 3 : Found(r, Places[i])

\* settle_cost finds a price, or needs none.
Priced(r, fallback) == HasUsage(r) => UsageModel(r, fallback) \in DOMAIN Table

CostOfDict(dict, model) ==
  CostOf(Table[model], Tokens(dict, "prompt_tokens", "input_tokens"),
                       Tokens(dict, "completion_tokens", "output_tokens"))

\* settle_cost: a result without usage costs nothing.
SettleCost(r, fallback) ==
  IF HasUsage(r) THEN CostOfDict(UsageDict(r), UsageModel(r, fallback)) ELSE 0

CharsPerToken == 4

\* estimate_preflight_cost of a prompt of so many characters.
EstimatePreflightCost(chars, model, expectedOutput) ==
  CostOf(Table[model], Larger(1, chars \div CharsPerToken), expectedOutput)
-----------------------------------------------------------------------------
(* The same without an order of places and names: what each place says the   *)
(* run cost, for the results whose places and names do not contradict each   *)
(* other.                                                                    *)
TokenKey == {"prompt_tokens", "completion_tokens",
             "input_tokens", "output_tokens"}

Rate(price, key) ==
  IF key \in {"prompt_tokens", "input_tokens"} THEN price.input ELSE price.output

Reports(r) ==
  {place \in DOMAIN r.usage :
     \E key \in TokenKey \cap DOMAIN r.usage[place] : r.usage[place][key] > 0}

ReportedCost(r, place, model) ==
  LET dict == r.usage[place] IN
  SumOver([key \in TokenKey \cap DOMAIN dict |->
             Rate(Table[model], key) * dict[key]],
          TokenKey \cap DOMAIN dict)

\* A usage dict that reports no tokens hides the places after it, unless it is
\* an empty token_usage.
HidesUsage(r) ==
  Reports(r) # {} /\ \E place \in DOMAIN r.usage \ Reports(r) :
                       place = "token_usage" => r.usage[place] # EmptyDict

\* A dict with both names of a count, of which only the first is read.
NamesTwice(r) ==
  \E place \in DOMAIN r.usage :
    \/ {"prompt_tokens", "input_tokens"} \subseteq DOMAIN r.usage[place]
    \/ {"completion_tokens", "output_tokens"} \subseteq DOMAIN r.usage[place]
=============================================================================
