------------------------------- MODULE Wrapper -------------------------------
(* What the wrappers of integrations/ share whatever treasury they use: how  *)
(* they are configured, what the function they wrap may do, and how they     *)
(* classify an error.                                                        *)
EXTENDS Usage

CONSTANTS
  HasReallocator,   \* a reallocator is given and auto_request_extension is set
  MaxUsdCeiling,    \* max_usd_ceiling
  Multiplier,       \* extension_multiplier, in hundredths
  ExpectedOutput,   \* expected_output_tokens
  Requested,        \* models asked for
  Prompt,           \* lengths of prompts
  Result,           \* what the wrapped function returns
  Overrun,          \* attempted_usd - ceiling_usd of an AllocationExceededError
  Failure           \* what the wrapped function raises

Exceeded == "AllocationExceededError"
LoanDenied == "CreditExtensionDeniedError"
Unpriced == "UnknownModelPricingError"
Unreadable == "AttributeError"
OtherError == "OtherError"

ASSUME WrapperAssumption ==
  /\ HasReallocator \in BOOLEAN
  /\ MaxUsdCeiling \in Nat /\ Multiplier \in Nat /\ ExpectedOutput \in Nat
  /\ Prompt \subseteq Nat /\ Overrun \subseteq Nat
  /\ Failure \subseteq {Exceeded, LoanDenied, OtherError}

\* _acquire: the ceiling is never below the preflight estimate.
Ceiling(chars, model) ==
  Larger(MaxUsdCeiling, EstimatePreflightCost(chars, model, ExpectedOutput))

\* A price is looked up for the preflight estimate, before there is a token.
Listed(model) == model \in DOMAIN Table

\* What extract_usage or settle_cost raises.
CostError(r) == IF Readable(r) THEN Unpriced ELSE Unreadable

HasCost(r, model) == Readable(r) /\ Priced(r, model)

\* Prices and token counts are not negative.
ASSUME UsageAssumption ==
  /\ \A m \in DOMAIN Table : Table[m].input \in Nat /\ Table[m].output \in Nat
  /\ \A r \in Result :
       \A place \in DOMAIN r.usage :
         /\ \E i \in DOMAIN Places : place = Places[i]
         /\ \A key \in TokenKey \cap DOMAIN r.usage[place] :
              r.usage[place][key] \in Nat

\* The loan asked for a cost above the ceiling; what is below a unit of money
\* is dropped.
ExtensionFor(shortfall) == shortfall + (shortfall * Multiplier) \div 100

\* A node that ran over its budget is rescued; no other wrapper does that.
Rescuable(kind, e) == kind = "node" /\ e = Exceeded /\ HasReallocator

\* _handle_failure settles a node at its ceiling after a budget error; every
\* other failure is settled at nothing.
CostsCeiling(kind, e) == kind = "node" /\ e \in {Exceeded, LoanDenied}
=============================================================================
