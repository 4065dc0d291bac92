------------------------------- MODULE PgGuard -------------------------------
(* The wrappers of LedgerGuard over the treasury of PostgresTreasury.  Each  *)
(* treasury call is now a transaction that others interleave with and that   *)
(* may fail, and the token a wrapper holds is a copy: grant_extension        *)
(* answers with a new token, which the wrappers drop, so that the ceiling    *)
(* they compare and settle with stays the one they were first granted.       *)
EXTENDS PostgresTreasury, Wrapper

CONSTANT Kind   \* which wrapper each call goes through

ASSUME PgGuardAssumption == Kind \in [Caller -> {"node", "plain"}]

VARIABLE call   \* the local state of each guarded call

pgGuardVars == <<pgVars, call>>

DatabaseError == "DatabaseError"   \* asyncpg's, when a connection fails
Crashed == "Crashed"               \* the end of a call whose process died

NoToken == 0

CallState ==
  [pc : {"idle", "acquire", "running", "rescue", "topup", "release", "ended"},
   tok : Nat, model : Requested \cup {NoModel}, ceiling : Nat, runs : 0 .. 2,
   bill : Nat,
   error : {"none", "DeniedAllocation", Exceeded, LoanDenied, Unpriced,
            Unreadable, OtherError, DatabaseError, Crashed}]

PgGuardInit ==
  /\ PgInit
  /\ call = [c \in Caller |-> [pc |-> "idle", tok |-> NoToken,
                               model |-> NoModel, ceiling |-> 0, runs |-> 0,
                               bill |-> 0, error |-> "none"]]

Goto(c, place) == call' = [call EXCEPT ![c].pc = place]

End(c, error) == call' = [call EXCEPT ![c].pc = "ended", ![c].error = error]

\* Settle the token at this spend and leave with this error.
Bill(c, spend, error) ==
  call' = [call EXCEPT ![c].pc = "release", ![c].bill = spend,
                       ![c].error = error]
-----------------------------------------------------------------------------
\* _acquire, up to the commit of its transaction.
Acquire(c) ==
  /\ call[c].pc = "idle"
  /\ \E m \in Requested :
       \/ ~Listed(m) /\ End(c, Unpriced) /\ UNCHANGED pgVars
       \/ /\ Listed(m)
          /\ \E chars \in Prompt :
               LET ceiling == Ceiling(chars, m) IN
               /\ Allocate(c, ceiling) \/ AllocateDenied(c, ceiling)
               /\ call' = [call EXCEPT ![c].pc = "acquire", ![c].model = m,
                                       ![c].ceiling = ceiling]

Cost(c, r) == SettleCost(r, call[c].model)

\* The token is the wrapper's copy.
Overspends(c, r) == Cost(c, r) > call[c].ceiling /\ HasReallocator

\* Mutant: an approved loan is not waited for.
ReturnsUnawaited(c) ==
  /\ call[c].pc = "running"
  /\ \E r \in Result :
       /\ HasCost(r, call[c].model)
       /\ Bill(c, Cost(c, r), "none")
       /\ UNCHANGED pgVars

\* Mutant: the balance is not looked at before the extension.
ReturnsUnasked(c) ==
  /\ call[c].pc = "running"
  /\ \E r \in Result :
       /\ HasCost(r, call[c].model) /\ Overspends(c, r)
       /\ call' = [call EXCEPT ![c].pc = "topup", ![c].bill = Cost(c, r)]
       /\ tx' = [tx EXCEPT ![c].at = "approved", ![c].tok = call[c].tok,
                           ![c].amount = ExtensionFor(Cost(c, r) - call[c].ceiling)]
  /\ UNCHANGED <<db, lock, cache, denial>>

\* What a call asks for to pay for this result.
AskFor(c, r) == Ask(c, call[c].tok, ExtensionFor(Cost(c, r) - call[c].ceiling))

TopUp(c, r) ==
  /\ AskFor(c, r) /\ tx'[c].at = "approved"
  /\ call' = [call EXCEPT ![c].pc = "topup", ![c].bill = Cost(c, r)]

Refused(c, r) ==
  /\ AskFor(c, r) /\ tx'[c].at # "approved"
  /\ Bill(c, call[c].ceiling, Exceeded)

\* The function returns and _settle asks for what its cost is above the copy.
Returns(c) ==
  /\ call[c].pc = "running"
  /\ \E r \in Result :
       /\ HasCost(r, call[c].model)
       /\ \/ Overspends(c, r) /\ (TopUp(c, r) \/ Refused(c, r))
          \/ /\ ~Overspends(c, r)
             /\ Bill(c, Cost(c, r), "none")
             /\ UNCHANGED pgVars

ReturnsUncosted(c) ==
  /\ call[c].pc = "running"
  /\ \E r \in Result : ~HasCost(r, call[c].model) /\ End(c, CostError(r))
  /\ UNCHANGED pgVars

FailureSpend(c, e) == IF CostsCeiling(Kind[c], e) THEN call[c].ceiling ELSE 0

\* The function raises on its first run.
Fails(c) ==
  /\ call[c].pc = "running" /\ call[c].runs = 1
  /\ \E e \in Failure :
       \/ /\ Rescuable(Kind[c], e)
          /\ \E x \in Overrun : Ask(c, call[c].tok, x)
          /\ IF tx'[c].at = "approved" THEN Goto(c, "rescue")
             ELSE Bill(c, call[c].ceiling, LoanDenied)
       \/ /\ ~Rescuable(Kind[c], e)
          /\ Bill(c, FailureSpend(c, e), e)
          /\ UNCHANGED pgVars

\* The second run is outside every handler.
FailsAgain(c) ==
  /\ call[c].pc = "running" /\ call[c].runs = 2
  /\ \E e \in Failure : End(c, e)
  /\ UNCHANGED pgVars

\* The transactions of grant_extension and release_allocation, up to their
\* commit.
Begin(c) ==
  /\ \/ call[c].pc \in {"rescue", "topup"} /\ Extend(c)
     \/ call[c].pc = "release" /\ Settle(c, call[c].tok, call[c].bill)
  /\ UNCHANGED call

\* How a call goes on once its transaction is known to be committed.
Replied(c) ==
  CASE call[c].pc = "acquire" ->
         call' = [call EXCEPT ![c].pc = "running", ![c].runs = 1,
                              ![c].tok = tx[c].tok]
    [] call[c].pc = "rescue" ->
         call' = [call EXCEPT ![c].pc = "running", ![c].runs = 2]
    [] call[c].pc = "topup" -> Goto(c, "release")
    [] OTHER -> Goto(c, "ended")

\* Mutant: an allocation whose reply was lost is asked for again.
AnswerRetried(c) ==
  \/ Commit(c) /\ Replied(c)
  \/ Commit(c) /\ Faults /\ Goto(c, "idle")
  \/ Rollback(c) /\ End(c, DatabaseError)
  \/ RaiseDenied(c) /\ End(c, "DeniedAllocation")

\* Mutant: a denied allocation is not answered.
AnswerUndenied(c) ==
  \/ Commit(c) /\ Replied(c)
  \/ Commit(c) /\ Faults /\ End(c, DatabaseError)
  \/ Rollback(c) /\ End(c, DatabaseError)

\* A commit whose reply is lost raises like one that failed.  No wrapper
\* handles that error.
Answer(c) ==
  \/ Commit(c) /\ Replied(c)
  \/ Commit(c) /\ Faults /\ End(c, DatabaseError)
  \/ Rollback(c) /\ End(c, DatabaseError)
  \/ RaiseDenied(c) /\ End(c, "DeniedAllocation")

\* The background denial log outlives the call that caused it.
Log(c) == (ReadForLog(c) \/ LogDenial(c)) /\ UNCHANGED call

Started(c) == call[c].pc \notin {"idle", "ended"}

\* Mutant: the calls of a dead process go on in the new one.
CrashCallsResumed(w) == Crash(w) /\ UNCHANGED call

CrashCalls(w) ==
  /\ Crash(w)
  /\ call' = [c \in Caller |->
                IF WorkerOf[c] = w /\ Started(c)
                THEN [call[c] EXCEPT !.pc = "ended", !.error = Crashed]
                ELSE call[c]]

RunEnds(c) == Returns(c) \/ ReturnsUncosted(c) \/ Fails(c) \/ FailsAgain(c)

PgGuardNext ==
  \/ \E c \in Caller :
       Acquire(c) \/ RunEnds(c) \/ Begin(c) \/ Answer(c) \/ Log(c)
  \/ \E w \in Worker : CrashCalls(w)

PgGuardSpec == PgGuardInit /\ [][PgGuardNext]_pgGuardVars

\* A transaction whose process lives goes on, and the server ends one whose
\* connection is gone.  The row lock is granted in the order it was asked for.
\* The wrapped function returns or raises.
PgGuardFairSpec ==
  /\ PgGuardSpec
  /\ \A c \in Caller : /\ WF_pgGuardVars(RunEnds(c))
                       /\ SF_pgGuardVars(Begin(c))
                       /\ WF_pgGuardVars(Answer(c))
-----------------------------------------------------------------------------
(* The type of a guarded call; the place a call has in its wrapper says what *)
(* its transaction can be.                                                   *)
PgGuardTypeOK ==
  /\ PgTypeOK
  /\ call \in [Caller -> CallState]
  /\ \A c \in Caller :
       tx[c].at \in CASE call[c].pc = "acquire" -> {"staged", "denied"}
                      [] call[c].pc \in {"rescue", "topup"} -> {"approved", "staged"}
                      [] call[c].pc = "release" -> {"idle", "staged"}
                      [] OTHER -> {"idle"}

HasToken(c) == call[c].tok # NoToken
Ended(c) == call[c].pc = "ended"
Faulted(c) == call[c].error \in {DatabaseError, Crashed}

(* Money stays committed for the rest of a session only through a call that  *)
(* met a fault, whose result had no cost, or whose second run raised.  An    *)
(* allocation that no call knows of is one whose reply was lost: at most one *)
(* for each call that faulted before it had a token.                         *)
OnlyFaultsLeak ==
  /\ \A c \in Caller :
       HasToken(c) /\ Ended(c) /\ row[call[c].tok].status = "active" =>
         \/ Faulted(c)
         \/ call[c].error \in {Unpriced, Unreadable}
         \/ call[c].runs = 2 /\ call[c].error \in Failure
  /\ Cardinality(DOMAIN row \ {call[c].tok : c \in Caller})
       <= Cardinality({c \in Caller : Faulted(c) /\ ~HasToken(c)})

(* A call whose settlement was answered was charged its bill, however often  *)
(* it borrowed; one that raised was charged its ceiling after a node's       *)
(* budget error and nothing after any other.  What a node is charged that    *)
(* was rescued and then refused is left open: see RefusedOnlyAboveCeiling.   *)
PgBilledExactly ==
  \A c \in Caller :
    Ended(c) /\ HasToken(c) /\ row[call[c].tok].status = "settled" =>
      LET t == row[call[c].tok] IN
      CASE Faulted(c) -> t.spent = Smaller(call[c].bill, t.ceiling)
        [] call[c].error = "none" ->
             t.spent = IF HasReallocator THEN call[c].bill
                                         ELSE Smaller(call[c].bill, t.ceiling)
        [] CostsCeiling(Kind[c], call[c].error) ->
             t.ceiling = t.initial => t.spent = t.ceiling
        [] ~CostsCeiling(Kind[c], call[c].error) /\ call[c].error = Exceeded ->
             t.spent \in {0, t.initial}
        [] OTHER -> t.spent = 0

(* What exceptions.py documents of AllocationExceededError: the spend would  *)
(* exceed the ceiling that is active, and no extension could be secured.     *)
RefusedOnlyAboveCeiling ==
  [][\A c \in Caller, r \in Result :
       call[c].pc = "running" /\ HasCost(r, call[c].model) /\ Refused(c, r)
         => Cost(c, r) > row[call[c].tok].ceiling]_pgGuardVars

(* The guarded calls use the database only as the callers of                 *)
(* PostgresTreasury may, so all that was checked of it holds of them.        *)
ImplementsPgTreasury == PgSpec

(* A call that has asked for its token ends: no interleaving of workers, and *)
(* no fault, leaves one waiting for the session row.                         *)
PgCallsEnd == \A c \in Caller : Started(c) ~> Ended(c)
=============================================================================
