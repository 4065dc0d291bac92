----------------------------- MODULE LedgerGuard -----------------------------
(* The wrappers that meter an agent's work: LedgerGuardMiddleware of         *)
(* integrations/langgraph.py ("node"), LedgerGuardedRunnable and             *)
(* LedgerGuardedCrewTask of langchain_runnable.py and crewai.py ("plain").   *)
(*                                                                           *)
(* A caller of Lending is here one guarded call: it allocates a token, runs  *)
(* the wrapped function, and settles, borrowing if the cost is above the     *)
(* ceiling.  A node is also rescued once: a loan and a second run when the   *)
(* function itself reports that it is over budget.  Only the function        *)
(* suspends; from its return to the release a call keeps its event loop.     *)
(* What the wrappers compute without the treasury is in Wrapper and Usage.   *)
EXTENDS Lending, Wrapper

CONSTANT Kind   \* which wrapper each call goes through

ASSUME GuardAssumption == Kind \in [Caller -> {"node", "plain"}]

VARIABLE call   \* the local state of each guarded call

guardVars == <<lendingVars, call>>

NoResult == [usage |-> EmptyDict, model |-> NoModel, opaque |-> FALSE]

Place == {"idle", "running", "rescue", "topup", "release", "ended"}

Raised == {"none", "DeniedAllocation", "UnknownAllocationTokenError",
           "AllocationAlreadySettledError"}
            \cup {Exceeded, LoanDenied, Unpriced, Unreadable, OtherError}

\* What the function returned is kept for BilledAsReported.
CallState == [pc : Place, tok : Nat, model : Requested \cup {NoModel},
              runs : 0 .. 2, result : Result \cup {NoResult}, bill : Nat,
              error : Raised]

GuardInit ==
  /\ LendingInit
  /\ call = [c \in Caller |-> [pc |-> "idle", tok |-> NoToken,
                               model |-> NoModel, runs |-> 0,
                               result |-> NoResult, bill |-> 0,
                               error |-> "none"]]

\* The wrapper of these calls is executing, so their loops run nothing else.
OnLoop == {c \in Caller : call[c].pc \in {"rescue", "topup", "release"}}

HasLoop(c) == \A d \in OnLoop : d = c \/ LoopOf[d] # LoopOf[c]

Goto(c, place) == call' = [call EXCEPT ![c].pc = place]

End(c, error) == call' = [call EXCEPT ![c].pc = "ended", ![c].error = error]

\* Settle the token at this spend and leave with this error.
Bill(c, spend, error) ==
  call' = [call EXCEPT ![c].pc = "release", ![c].bill = spend,
                       ![c].error = error]

CurrentCeiling(c) == token[call[c].tok].ceiling
-----------------------------------------------------------------------------
\* _acquire_token: without a price for the model no token is taken.
Acquire(c) ==
  /\ call[c].pc = "idle"
  /\ \E m \in Requested :
       \/ /\ ~Listed(m)
          /\ End(c, Unpriced)
          /\ UNCHANGED treasuryVars
       \/ /\ Listed(m)
          /\ \E chars \in Prompt :
               \/ /\ AllocateGranted(Ceiling(chars, m))
                  /\ call' = [call EXCEPT ![c].pc = "running", ![c].runs = 1,
                                          ![c].model = m,
                                          ![c].tok = Len(token) + 1]
               \/ /\ AllocateDenied(Ceiling(chars, m))
                  /\ End(c, "DeniedAllocation")
  /\ UNCHANGED <<progress, lend>>

\* The cost of what the function returns.
Cost(c, r) == SettleCost(r, call[c].model)

Overspends(c, r) == WouldExceed(call[c].tok, Cost(c, r)) /\ HasReallocator

Loan(c, r) == ExtensionFor(Cost(c, r) - CurrentCeiling(c))

\* The cost is known; what remains is to pay it, at this place.
Due(c, r, place) ==
  call' = [call EXCEPT ![c].pc = place, ![c].result = r, ![c].bill = Cost(c, r)]

\* Mutant: the wrapper raises the ceiling itself, past the reallocator.
ReturnsUnasked(c) ==
  /\ call[c].pc = "running"
  /\ \E r \in Result :
       /\ HasCost(r, call[c].model)
       /\ Due(c, r, "release")
       /\ IF Overspends(c, r) THEN GrantExtension(call[c].tok, Loan(c, r))
                              ELSE UNCHANGED treasuryVars
  /\ UNCHANGED <<progress, lend>>

\* Mutant: the loan is asked for and not awaited.
ReturnsUnawaited(c) ==
  /\ call[c].pc = "running"
  /\ \E r \in Result :
       /\ HasCost(r, call[c].model)
       /\ Due(c, r, "release")
       /\ IF Overspends(c, r) THEN Ask(c, call[c].tok, Loan(c, r), TRUE)
                              ELSE UNCHANGED lendingVars

\* The function returns; _settle compares the cost with the ceiling and asks
\* for a loan if it is above.
Returns(c) ==
  /\ call[c].pc = "running"
  /\ \E r \in Result :
       /\ HasCost(r, call[c].model)
       /\ \/ /\ Overspends(c, r)
             /\ Ask(c, call[c].tok, Loan(c, r), TRUE)
             /\ Due(c, r, "topup")
          \/ /\ ~Overspends(c, r)
             /\ Due(c, r, "release")
             /\ UNCHANGED lendingVars

\* The cost cannot be told: the exception leaves the wrapper with the token
\* still active.
ReturnsUncosted(c) ==
  /\ call[c].pc = "running"
  /\ \E r \in Result : ~HasCost(r, call[c].model) /\ End(c, CostError(r))
  /\ UNCHANGED lendingVars

FailureSpend(c, e) == IF CostsCeiling(Kind[c], e) THEN CurrentCeiling(c) ELSE 0

\* Mutant: the token of a failed run is not released.
FailsUnsettled(c) ==
  /\ call[c].pc = "running"
  /\ \E e \in Failure : End(c, e)
  /\ UNCHANGED lendingVars

\* Mutant: every run is rescued, not only the first.
FailsForever(c) ==
  /\ call[c].pc = "running"
  /\ \E e \in Failure :
       \/ /\ Rescuable(Kind[c], e)
          /\ \E x \in Overrun : Ask(c, call[c].tok, x, TRUE)
          /\ Goto(c, "rescue")
       \/ /\ ~Rescuable(Kind[c], e)
          /\ Bill(c, FailureSpend(c, e), e)
          /\ UNCHANGED lendingVars

\* The function raises on its first run.
Fails(c) ==
  /\ call[c].pc = "running" /\ call[c].runs = 1
  /\ \E e \in Failure :
       \/ /\ Rescuable(Kind[c], e)
          /\ \E x \in Overrun : Ask(c, call[c].tok, x, TRUE)
          /\ Goto(c, "rescue")
       \/ /\ ~Rescuable(Kind[c], e)
          /\ Bill(c, FailureSpend(c, e), e)
          /\ UNCHANGED lendingVars

\* The second run is outside every handler: what it raises leaves the wrapper
\* at once.
FailsAgain(c) ==
  /\ call[c].pc = "running" /\ call[c].runs = 2
  /\ \E e \in Failure : End(c, e)
  /\ UNCHANGED lendingVars

\* How the rescue of a node goes on once its loan is decided.
Rescued(c, outcome) ==
  CASE outcome = "granted" ->
         call' = [call EXCEPT ![c].pc = "running", ![c].runs = 2]
    [] outcome = LoanDenied -> Bill(c, CurrentCeiling(c), LoanDenied)
    [] OTHER -> End(c, outcome)

\* Mutant: a denied top-up is swallowed and the call returns as if paid.
ToppedUpAnyway(c, outcome) ==
  CASE outcome \in {"granted", LoanDenied} -> Goto(c, "release")
    [] OTHER -> End(c, outcome)

\* How a settlement goes on once its loan is decided.
ToppedUp(c, outcome) ==
  CASE outcome = "granted" -> Goto(c, "release")
    [] outcome = LoanDenied -> Bill(c, CurrentCeiling(c), Exceeded)
    [] OTHER -> End(c, outcome)

\* Mutant: nothing follows a denied loan.
BorrowOnlyFunds(c) ==
  /\ call[c].pc \in {"rescue", "topup"}
  /\ \/ ReadAvailable(c) /\ UNCHANGED call
     \/ /\ Fund(c)
        /\ IF call[c].pc = "rescue" THEN Rescued(c, lend'[c].outcome)
                                    ELSE ToppedUp(c, lend'[c].outcome)

\* request_credit_extension runs to its end on the call's loop.
Borrow(c) ==
  /\ call[c].pc \in {"rescue", "topup"}
  /\ \/ ReadAvailable(c) /\ UNCHANGED call
     \/ /\ Refuse(c) \/ Fund(c)
        /\ IF call[c].pc = "rescue" THEN Rescued(c, lend'[c].outcome)
                                    ELSE ToppedUp(c, lend'[c].outcome)

\* release_allocation, then the result is returned or the error raised again.
Settle(c) ==
  /\ call[c].pc = "release"
  /\ \/ /\ Release(call[c].tok, call[c].bill)
        /\ End(c, call[c].error)
     \/ /\ call[c].tok \notin active
        /\ End(c, ReleaseError(call[c].tok))
        /\ UNCHANGED treasuryVars
  /\ UNCHANGED <<progress, lend>>

GuardStep(c) ==
  /\ HasLoop(c)
  /\ \/ Acquire(c)
     \/ Returns(c) \/ ReturnsUncosted(c) \/ Fails(c) \/ FailsAgain(c)
     \/ Borrow(c) \/ Settle(c)

GuardNext == \E c \in Caller : GuardStep(c)

GuardSpec == GuardInit /\ [][GuardNext]_guardVars

\* A call that got its token is run to its end, by its loop and by a wrapped
\* function that returns or raises.
GuardFairSpec ==
  GuardSpec /\ \A c \in Caller :
                 WF_guardVars(call[c].pc # "idle" /\ GuardStep(c))
-----------------------------------------------------------------------------
(* The type of a guarded call; the calls that are borrowing are exactly      *)
(* those in flight in the Reallocator.                                       *)
GuardTypeOK ==
  /\ LendingTypeOK
  /\ call \in [Caller -> CallState]
  /\ InFlight = {c \in Caller : call[c].pc \in {"rescue", "topup"}}

HasToken(c) == call[c].tok # NoToken
Ended(c) == call[c].pc = "ended"

(* Every call has a token of its own, and a token stays active only while    *)
(* its call goes on, unless the second run or the cost of a result raised:   *)
(* those two paths, and no other, leave money committed for the rest of a    *)
(* session.                                                                  *)
OnlyRetriesLeak ==
  \A c \in Caller :
    HasToken(c) =>
      /\ \A d \in Caller \ {c} : call[d].tok # call[c].tok
      /\ call[c].tok \in active =>
           \/ ~Ended(c)
           \/ call[c].error \in {Unpriced, Unreadable}
           \/ call[c].runs = 2 /\ call[c].error \in Failure

(* A result is returned only after it was paid for: exactly, when the call   *)
(* may borrow, and never beyond its ceiling otherwise.  A call that raised   *)
(* was charged all it was lent if its result was too dear or a node met a    *)
(* budget error, and nothing otherwise.                                      *)
BilledExactly ==
  \A c \in Caller :
    Ended(c) /\ call[c].tok \in settled =>
      LET t == token[call[c].tok] IN
      IF call[c].error = "none"
      THEN t.spent = IF HasReallocator THEN call[c].bill
                                       ELSE Smaller(call[c].bill, t.ceiling)
      ELSE t.spent = IF \/ call[c].result # NoResult
                        \/ CostsCeiling(Kind[c], call[c].error)
                     THEN t.ceiling ELSE 0

(* A call borrows at most twice, once to be rescued and once to settle, so a *)
(* node that keeps failing cannot drain the pool.                            *)
LoansPerCall ==
  \A c \in Caller :
    HasToken(c) =>
      LET loans == Cardinality(EntriesOf(call[c].tok, {Extended}))
          settlement == IF call[c].pc \in {"running", "rescue"} THEN 0 ELSE 1
      IN loans <= (call[c].runs - 1) + settlement

(* The guarded calls use the treasury only as the Reallocator's callers may: *)
(* all that holds of lending holds of them.                                  *)
ImplementsLending == LendingSpec

(* A call that got its token ends, whatever its function does.               *)
EveryCallEnds == \A c \in Caller : call[c].pc = "running" ~> Ended(c)

(* What langgraph.py documents: a mid-run failure still settles the token.   *)
FailuresAreSettled ==
  \A c \in Caller :
    Ended(c) /\ HasToken(c) /\ call[c].error \in {Exceeded, LoanDenied, OtherError}
      => call[c].tok \in settled

(* A call that returns its result was billed what that result reports: the   *)
(* tokens of a place that reports any, wherever and under whichever names,   *)
(* at their price, and nothing only if no place does.                        *)
BilledAsReported ==
  \A c \in Caller :
    LET r == call[c].result IN
    /\ Ended(c) /\ call[c].tok \in settled /\ call[c].error = "none"
    /\ ~HidesUsage(r) /\ ~NamesTwice(r)
    => IF Reports(r) = {} THEN call[c].bill = 0
       ELSE \E place \in Reports(r) :
              call[c].bill
                = ReportedCost(r, place, UsageModel(r, call[c].model))
=============================================================================
