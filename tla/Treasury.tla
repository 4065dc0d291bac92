------------------------------ MODULE Treasury ------------------------------
(* The in-memory ledger of one session: class Treasury of core/treasury.py.  *)
(*                                                                           *)
(* Every public method takes self._lock for its whole body and awaits        *)
(* nothing inside it, so each method is one action.  A method's early        *)
(* returns are disjuncts: a denied allocation writes an audit entry before   *)
(* it raises, an unknown or settled token raises and changes nothing         *)
(* (ReleaseError, ExtensionError name the exception).                        *)
(*                                                                           *)
(* Token ids are the values of _token_counter; an agent, a model name, a     *)
(* timestamp and a uuid tell no two behaviours apart and are left out.       *)
EXTENDS Money, Sequences

CONSTANTS
  TotalBudget,   \* total_session_budget_usd
  Amount,        \* amounts a caller asks for: max_usd, extra_usd
  Spend,         \* spends a caller reports: may be negative, may exceed a ceiling
  MaxEvents      \* bound on the length of the audit trail of the open system

ASSUME TreasuryAssumption ==
  /\ TotalBudget \in Nat
  /\ Amount \subseteq Nat
  /\ Spend \subseteq Int
  /\ MaxEvents \in Nat

VARIABLES
  committed,      \* _committed_usd
  settledSpent,   \* _settled_spent_usd
  token,          \* every AllocationToken object, by the count in its id
  active,         \* keys of _active_tokens
  settled,        \* keys of _settled_tokens
  ledger          \* _ledger

accounts == <<committed, settledSpent, token, active, settled>>
treasuryVars == <<committed, settledSpent, token, active, settled, ledger>>

AllocationToken == [initial : Nat, ceiling : Nat, spent : Nat,
                    extensions : Nat, status : {"active", "settled"}]

\* The token_id of an entry that belongs to no token (None in the code).
NoToken == 0

Granted  == "allocation_granted"
Denied   == "allocation_denied"
Released == "allocation_released"
Extended == "credit_extension_granted"
Refused  == "credit_extension_denied"

LedgerEventType == {Granted, Denied, Released, Extended, Refused}

LedgerEntry == [event : LedgerEventType, token : Nat,
                amount : Nat, yielded : Nat, available : Int]

Available == TotalBudget - committed - settledSpent

\* AllocationToken.would_exceed
WouldExceed(t, total) == total > token[t].ceiling

\* Mutant: the entry carries the balance from before the operation.
RecordStale(event, t, amount, yielded) ==
  ledger' = Append(ledger, [event |-> event, token |-> t, amount |-> amount,
                            yielded |-> yielded, available |-> Available])

\* Must run with the account variables already primed: the entry carries the
\* balance after the operation.
Record(event, t, amount, yielded) ==
  ledger' = Append(ledger, [event |-> event, token |-> t, amount |-> amount,
                            yielded |-> yielded, available |-> Available'])

Init ==
  /\ committed = 0
  /\ settledSpent = 0
  /\ token = << >>
  /\ active = {}
  /\ settled = {}
  /\ ledger = << >>
-----------------------------------------------------------------------------
\* Mutant: the request is not compared with what is left.
CanAllocateAny(x) == Available > 0

CanAllocate(x) == Available > 0 /\ x <= Available

AllocateGranted(x) ==
  LET t == Len(token) + 1 IN
  /\ CanAllocate(x)
  /\ token' = Append(token, [initial |-> x, ceiling |-> x, spent |-> 0,
                             extensions |-> 0, status |-> "active"])
  /\ active' = active \cup {t}
  /\ committed' = committed + x
  /\ UNCHANGED <<settledSpent, settled>>
  /\ Record(Granted, t, x, 0)

\* SessionBudgetExhaustedError on an empty pool, InsufficientTreasuryFundsError
\* on one that is too small: both leave the same trace.
AllocateDenied(x) ==
  /\ ~CanAllocate(x)
  /\ UNCHANGED accounts
  /\ Record(Denied, NoToken, x, 0)

\* Mutant: overshoot is booked in full.
ClampedBelow(t, s) == Larger(s, 0)

\* Mutant: a negative spend is booked as reported.
ClampedAbove(t, s) == Smaller(s, token[t].ceiling)

\* What a release books: never below zero, never above the ceiling.
Clamped(t, s) == Smaller(Larger(s, 0), token[t].ceiling)

\* Mutant: the released token is left among the active ones.
ReleaseKeepsToken(t, s) ==
  LET spend == Clamped(t, s) IN
  /\ t \in active
  /\ token' = [token EXCEPT ![t].spent = spend, ![t].status = "settled"]
  /\ committed' = committed - token[t].ceiling
  /\ settledSpent' = settledSpent + spend
  /\ settled' = settled \cup {t}
  /\ UNCHANGED active
  /\ Record(Released, t, spend, token[t].ceiling - spend)

\* Mutant: the commitment withdrawn is the one first granted, loans forgotten.
ReleaseForgetsLoan(t, s) ==
  LET spend == Clamped(t, s) IN
  /\ t \in active
  /\ token' = [token EXCEPT ![t].spent = spend, ![t].status = "settled"]
  /\ committed' = committed - token[t].initial
  /\ settledSpent' = settledSpent + spend
  /\ active' = active \ {t}
  /\ settled' = settled \cup {t}
  /\ Record(Released, t, spend, token[t].ceiling - spend)

Release(t, s) ==
  LET spend == Clamped(t, s) IN
  /\ t \in active
  /\ token' = [token EXCEPT ![t].spent = spend, ![t].status = "settled"]
  /\ committed' = committed - token[t].ceiling
  /\ settledSpent' = settledSpent + spend
  /\ active' = active \ {t}
  /\ settled' = settled \cup {t}
  /\ Record(Released, t, spend, token[t].ceiling - spend)

ReleaseError(t) == IF t \in settled THEN "AllocationAlreadySettledError"
                                    ELSE "UnknownAllocationTokenError"

\* Mutant: the token is looked up among the settled ones too, as get_token does.
GrantExtensionAny(t, x) ==
  /\ token' = [token EXCEPT ![t].ceiling = @ + x, ![t].extensions = @ + x]
  /\ committed' = committed + x
  /\ UNCHANGED <<settledSpent, active, settled>>
  /\ Record(Extended, t, x, 0)

\* Mutant: the audit entry carries the total lent so far, not this loan.
GrantExtensionLogsTotal(t, x) ==
  /\ t \in active
  /\ token' = [token EXCEPT ![t].ceiling = @ + x, ![t].extensions = @ + x]
  /\ committed' = committed + x
  /\ UNCHANGED <<settledSpent, active, settled>>
  /\ Record(Extended, t, token[t].extensions + x, 0)

\* The pool is not consulted here: the Reallocator is to have done it.
GrantExtension(t, x) ==
  /\ t \in active
  /\ token' = [token EXCEPT ![t].ceiling = @ + x, ![t].extensions = @ + x]
  /\ committed' = committed + x
  /\ UNCHANGED <<settledSpent, active, settled>>
  /\ Record(Extended, t, x, 0)

\* A settled token is reported as unknown, whatever its history.
ExtensionError(t) == "UnknownAllocationTokenError"

\* The token id is logged as given; it is not looked up.
RecordExtensionDenial(t, x) ==
  /\ UNCHANGED accounts
  /\ Record(Refused, t, x, 0)

\* One call of the treasury with amounts from A and reported spends from S.
Operation(A, S) ==
  \/ \E x \in A : AllocateGranted(x)
  \/ \E x \in A : AllocateDenied(x)
  \/ \E t \in DOMAIN token, s \in S : Release(t, s)
  \/ \E t \in DOMAIN token, x \in A : GrantExtension(t, x)
  \/ \E t \in DOMAIN token, x \in A : RecordExtensionDenial(t, x)

Next == Len(ledger) < MaxEvents /\ Operation(Amount, Spend)

Spec == Init /\ [][Next]_treasuryVars
-----------------------------------------------------------------------------
(* The type of every variable, and the shape the two dictionaries have: a    *)
(* token object is in exactly one of them and its status says in which.      *)
TypeOK ==
  /\ committed \in Int
  /\ settledSpent \in Int
  /\ token \in Seq(AllocationToken)
  /\ ledger \in Seq(LedgerEntry)
  /\ active \cup settled = DOMAIN token
  /\ active \cap settled = {}

Ceilings == [t \in DOMAIN token |-> token[t].ceiling]
Spends == [t \in DOMAIN token |-> token[t].spent]
Extensions == [t \in DOMAIN token |-> token[t].extensions]
Lent == SumOver(Extensions, DOMAIN token)

(* The two counters equal the sums their declarations promise, after any     *)
(* number of grants, extensions, over- and under-spent releases: no money is *)
(* lost from the pool and none is made up.                                   *)
Conservation ==
  /\ committed = SumOver(Ceilings, active)
  /\ settledSpent = SumOver(Spends, settled)

(* No token ever costs the session more than its own ceiling, and the        *)
(* ceiling is what was first granted plus what was lent.                     *)
TokenBooks ==
  \A t \in DOMAIN token :
    /\ token[t].spent <= token[t].ceiling
    /\ token[t].ceiling = token[t].initial + token[t].extensions
    /\ token[t].status = IF t \in active THEN "active" ELSE "settled"

(* Allocations and releases alone never overdraw the session: whatever the   *)
(* pool is short of was lent through extensions, the one operation that does *)
(* not look at the pool.                                                     *)
OverdraftIsLent == Available + Lent >= 0

\* What an audit entry says it did to the available balance.
Effect(e) ==
  CASE e.event \in {Granted, Extended} -> -e.amount
    [] e.event = Released -> e.yielded
    [] OTHER -> 0

BalanceAfter(i) == IF i = 0 THEN TotalBudget ELSE ledger[i].available

(* The audit trail can be replayed: every entry's balance follows from the   *)
(* one before it and its own amounts, and the last one is the balance now.   *)
AuditTrailReplays ==
  /\ \A i \in DOMAIN ledger :
       ledger[i].available = BalanceAfter(i - 1) + Effect(ledger[i])
  /\ Available = BalanceAfter(Len(ledger))

EntriesOf(t, events) ==
  {i \in DOMAIN ledger : ledger[i].token = t /\ ledger[i].event \in events}

(* The audit trail alone explains every token: its ceiling is the sum of its *)
(* grant and extension entries, it has one release entry exactly when it is  *)
(* settled, that entry splits the ceiling into spend and yield, and nothing  *)
(* moved the token after it.                                                 *)
AuditTrailExplainsTokens ==
  \A t \in DOMAIN token :
    LET grants   == EntriesOf(t, {Granted, Extended})
        releases == EntriesOf(t, {Released})
    IN /\ token[t].ceiling
            = SumOver([i \in DOMAIN ledger |-> ledger[i].amount], grants)
       /\ Cardinality(releases) = IF t \in settled THEN 1 ELSE 0
       /\ \A i \in releases :
            /\ ledger[i].amount = token[t].spent
            /\ ledger[i].yielded = token[t].ceiling - token[t].spent
            /\ \A j \in grants : j < i

(* A settled token is final: no later call changes its spend, its ceiling or *)
(* its place, and no audit entry is ever rewritten.                          *)
HistoryIsFinal ==
  [][/\ \A t \in settled : t \in settled' /\ token'[t] = token[t]
     /\ SubSeq(ledger', 1, Len(ledger)) = ledger]_treasuryVars

\* The claims of the abstract clearinghouse are the tokens.
Claims == [t \in DOMAIN token |-> [ceiling |-> token[t].ceiling,
                                   spent   |-> token[t].spent,
                                   open    |-> t \in active]]

CH == INSTANCE Clearinghouse WITH Pool <- TotalBudget, claim <- Claims

(* The counters and the two dictionaries implement the clearinghouse: every  *)
(* operation is one step of it, taken on money that was really free.         *)
ImplementsClearinghouse == CH!Spec
=============================================================================
