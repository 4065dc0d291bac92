------------------------------- MODULE Lending -------------------------------
(* Micro-lending: class Reallocator of core/reallocator.py over one treasury *)
(* shared by callers that run on event loops.                                *)
(*                                                                           *)
(* request_credit_extension reads the available balance, then asks the       *)
(* treasury for the extension: two lock acquisitions, not one.  Nothing      *)
(* between them suspends, so callers of one event loop cannot come between;  *)
(* callers on other loops (crewai's run() starts one per thread) can.  A     *)
(* caller inside the method therefore keeps its loop, and only its loop.     *)
(*                                                                           *)
(* report_progress is no coroutine and takes no lock: any thread may report  *)
(* for any agent at any moment, also while a request of that agent is under  *)
(* way, and may lower what the request has read.                             *)
EXTENDS Treasury

CONSTANTS
  Caller,        \* the agents using the treasury
  Loop,          \* the event loops, one per thread
  LoopOf,        \* the loop each caller runs on
  Report,        \* the progress values that are reported, in quarters
  MinProgress    \* min_progress_for_extension, in quarters

ASSUME LendingAssumption ==
  /\ LoopOf \in [Caller -> Loop]
  /\ Report \subseteq Int
  /\ MinProgress \in Int
  /\ IsFiniteSet(Loop) /\ Loop # {}
  /\ \E x \in Amount : \A y \in Amount : y <= x

VARIABLES
  progress,   \* ProgressHook._progress, by agent; 0 when there is no hook yet
  lend        \* where each caller stands in request_credit_extension

lendingVars == <<treasuryVars, progress, lend>>

Full == 4   \* progress 1.0

Stage == {"idle", "read", "refuse", "approved"}
Outcome == {"none", "granted", "CreditExtensionDeniedError",
            "UnknownAllocationTokenError"}

\* The progress a request has read is its local variable.
Request == [at : Stage, tok : Nat, extra : Nat, force : BOOLEAN,
            seen : 0 .. Full, outcome : Outcome]

NoRequest == [at |-> "idle", tok |-> NoToken, extra |-> 0, force |-> FALSE,
              seen |-> 0, outcome |-> "none"]

LendingInit ==
  /\ Init
  /\ progress = [c \in Caller |-> 0]
  /\ lend = [c \in Caller |-> NoRequest]

InFlight == {c \in Caller : lend[c].at # "idle"}

\* Mutant: the method suspends between its steps and others run on its loop.
LoopShared(c) == TRUE

\* No other caller of c's loop is inside the method.
LoopFree(c) == \A d \in InFlight : d = c \/ LoopOf[d] # LoopOf[c]
-----------------------------------------------------------------------------
\* Mutant: a report is stored as it comes.
ReportRaw(a, p) ==
  /\ progress' = [progress EXCEPT ![a] = p]
  /\ UNCHANGED <<treasuryVars, lend>>

\* report_progress for agent a through its ProgressHook, from any thread.
ReportProgress(a, p) ==
  /\ progress' = [progress EXCEPT ![a] = Larger(0, Smaller(Full, p))]
  /\ UNCHANGED <<treasuryVars, lend>>

\* Mutant: the progress threshold is not looked at.
AskUngated(c, t, x, force) ==
  /\ lend[c].at = "idle"
  /\ lend' = [lend EXCEPT ![c] =
       [at |-> "read", tok |-> t, extra |-> x, force |-> force,
        seen |-> progress[c], outcome |-> "none"]]
  /\ UNCHANGED <<treasuryVars, progress>>

\* request_credit_extension up to the read of the balance: the progress gate
\* is passed by an override or by an agent that is far enough now.
Ask(c, t, x, force) ==
  /\ lend[c].at = "idle"
  /\ lend' = [lend EXCEPT ![c] =
       [at |-> IF force \/ progress[c] >= MinProgress THEN "read" ELSE "refuse",
        tok |-> t, extra |-> x, force |-> force,
        seen |-> progress[c], outcome |-> "none"]]
  /\ UNCHANGED <<treasuryVars, progress>>

\* Mutant: a pool that is not empty is enough.
FitsAny(x) == Available > 0

Fits(x) == x <= Available

\* Mutant: a loan of everything that is left is refused.
ReadAvailableStrict(c) ==
  /\ lend[c].at = "read"
  /\ lend' = [lend EXCEPT ![c].at =
                IF lend[c].extra < Available THEN "approved" ELSE "refuse"]
  /\ UNCHANGED <<treasuryVars, progress>>

\* The read of treasury.available_usd and the comparison with it.
ReadAvailable(c) ==
  /\ lend[c].at = "read"
  /\ lend' = [lend EXCEPT ![c].at =
                IF Fits(lend[c].extra) THEN "approved" ELSE "refuse"]
  /\ UNCHANGED <<treasuryVars, progress>>

\* The denial is put on the audit trail before it is raised.
Refuse(c) ==
  /\ lend[c].at = "refuse"
  /\ RecordExtensionDenial(lend[c].tok, lend[c].extra)
  /\ lend' = [lend EXCEPT ![c].at = "idle",
                          ![c].outcome = "CreditExtensionDeniedError"]
  /\ UNCHANGED progress

\* Mutant: the exception of a token settled meanwhile leads nowhere.
FundActive(c) ==
  /\ lend[c].at = "approved"
  /\ GrantExtension(lend[c].tok, lend[c].extra)
  /\ lend' = [lend EXCEPT ![c].at = "idle", ![c].outcome = "granted"]
  /\ UNCHANGED progress

\* The extension itself: the token may have been settled since.
Fund(c) ==
  /\ lend[c].at = "approved"
  /\ \/ /\ GrantExtension(lend[c].tok, lend[c].extra)
        /\ lend' = [lend EXCEPT ![c].at = "idle", ![c].outcome = "granted"]
     \/ /\ lend[c].tok \notin active
        /\ lend' = [lend EXCEPT ![c].at = "idle",
                                ![c].outcome = ExtensionError(lend[c].tok)]
        /\ UNCHANGED treasuryVars
  /\ UNCHANGED progress

\* Any other use of the treasury: allocations, and give_back, which is a
\* release; every caller may hold a reference to every token.
UseTreasury(A, S) ==
  /\ \/ \E x \in A : AllocateGranted(x) \/ AllocateDenied(x)
     \/ \E t \in DOMAIN token, s \in S : Release(t, s)
  /\ UNCHANGED <<progress, lend>>

\* One step of caller c with amounts from A and spends from S.
CallerStep(c, A, S) ==
  /\ LoopFree(c)
  /\ \/ ReadAvailable(c)
     \/ Refuse(c)
     \/ Fund(c)
     \/ /\ c \notin InFlight
        /\ \/ UseTreasury(A, S)
           \/ \E t \in DOMAIN token, x \in A, force \in BOOLEAN :
                Ask(c, t, x, force)

LendingNext ==
  \/ \E c \in Caller : CallerStep(c, Amount, Spend)
  \/ \E a \in Caller, p \in Report : ReportProgress(a, p)

LendingSpec == LendingInit /\ [][LendingNext]_lendingVars

\* Every request in flight still has room for its audit entry.
Room == Len(ledger) + Cardinality(InFlight) < MaxEvents

\* For model checking: as many requests as the audit trail has room for.
LendingBoundedNext ==
  \/ \E c \in Caller :
       /\ c \in InFlight \/ Room
       /\ CallerStep(c, Amount, Spend)
  \/ \E a \in Caller, p \in Report : ReportProgress(a, p)

LendingBoundedSpec == LendingInit /\ [][LendingBoundedNext]_lendingVars
-----------------------------------------------------------------------------
(* The type of what the Reallocator adds to the treasury.                    *)
LendingTypeOK ==
  /\ TypeOK
  /\ progress \in [Caller -> 0 .. Full]
  /\ lend \in [Caller -> Request]

(* With one event loop the check and the grant cannot be separated, and the  *)
(* session is never committed beyond its budget.                             *)
NeverOversubscribed == Available >= 0

\* What the gate of request r saw: an override or an agent far enough.
Earned(r) == r.force \/ r.seen >= MinProgress

(* A loan that raises a ceiling is the loan of one approved request for that *)
(* token, and that request was forced or found its agent far enough when it  *)
(* asked.  It need not be any more: the gate is not looked at again, and a   *)
(* report from another thread may have lowered the progress meanwhile.       *)
LoansAreEarned ==
  [][\A t \in active :
       token'[t].extensions > token[t].extensions =>
         \E c \in Caller :
           /\ lend[c].tok = t /\ lend[c].at = "approved" /\ Earned(lend[c])
           /\ token'[t].extensions = token[t].extensions + lend[c].extra
           /\ lend'[c].at = "idle"]_lendingVars

(* A refusal on the audit trail is true when it is written: its request did  *)
(* not find its agent far enough, or the pool still cannot cover the loan.   *)
RefusalsAreTrue ==
  [][\A c \in Caller :
       lend'[c].outcome = "CreditExtensionDeniedError"
         /\ lend[c].outcome # "CreditExtensionDeniedError"
       => ~Earned(lend[c]) \/ ~Fits(lend[c].extra)]_lendingVars

(* The claims implement a clearinghouse in which every raise, too, is        *)
(* covered by free money.                                                    *)
ImplementsSolvent == CH!SolventSpec

\* The largest loan a caller can ask for.
LargestLoan == CHOOSE x \in Amount : \A y \in Amount : y <= x

Deficit == (Cardinality(Loop) - 1) * LargestLoan

(* With several loops the session can be oversubscribed, but by no more than *)
(* one loan for every other loop: each loop has at most one approval that    *)
(* the balance no longer shows.                                              *)
OverdraftBounded == Available >= -Deficit

Approved == {c \in Caller : lend[c].at = "approved"}
Promised == SumOver([c \in Caller |-> lend[c].extra], Approved)

(* The same with what has been approved and not booked yet counted in.       *)
PromisesBounded == Available - Promised >= -Deficit

(* The callers inside the method are on different loops, and each asks for a *)
(* loan on a token that exists.                                              *)
InFlightOK ==
  /\ \A c, d \in InFlight : LoopOf[c] = LoopOf[d] => c = d
  /\ \A c \in InFlight : lend[c].tok \in DOMAIN token /\ lend[c].extra \in Amount

(* Every request that was started is decided: the method has no way to get   *)
(* stuck, whatever the other callers do.                                     *)
EveryRequestDecided ==
  \A c \in Caller : c \in InFlight ~> c \notin InFlight

\* A caller inside the method runs on: its loop has nothing else to run.
LendingFairSpec ==
  /\ LendingBoundedSpec
  /\ \A c \in Caller :
       WF_lendingVars(ReadAvailable(c) \/ Refuse(c) \/ Fund(c))

(* What request_credit_extension documents: an extension is granted only if  *)
(* the treasury has enough uncommitted funds to cover it.                    *)
LoansAreCovered ==
  [][\A t \in active :
       token'[t].extensions > token[t].extensions => Available' >= 0]_lendingVars
=============================================================================
