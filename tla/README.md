# AgentLedger Treasury in TLA+

AgentLedger Treasury is a clearinghouse for the token budget of a multi-agent
session. Agents draw allocations from a shared pool, give back what they do not
spend, borrow through an intermediary when they are short, and are moved to
cheaper models when the session burns money faster than it progresses. This
directory models that system in TLA+, model-checks it with TLC and proves its
main properties with TLAPS. Source paths below are relative to
`src/agentledger_treasury/`.

## 1. The system

| Component | State | Operations that change it |
|---|---|---|
| `core/treasury.py` `Treasury` | budget; running totals `_committed_usd` and `_settled_spent_usd`; token objects in two dictionaries (active, settled); append-only audit trail `_ledger` | `request_allocation`, `release_allocation`, `grant_extension`, `record_extension_denial` |
| `core/reallocator.py` `Reallocator` | a progress hook per agent | `report_progress`, `give_back`, `request_credit_extension` |
| `core/degrader.py` `DegradationEngine`, `BudgetVelocityTracker` | completed steps; forced model per agent; events | `record_step_completed`, `resolve_model`, `rewrite_runtime_config` |
| `pricing.py` `PricingTable` | model -> price, degrade target | `register` |
| `usage.py` | none | where a result reports its tokens, cost of a run, preflight estimate |
| `integrations/langgraph.py` `LedgerGuardMiddleware` | the local variables of a guarded call | `wrap`: acquire, run, rescue and retry once, settle |
| `integrations/langchain_runnable.py`, `integrations/crewai.py` | the same | `ainvoke`, `arun`: acquire, run, settle |
| `backends/postgres.py` `PostgresTreasury` | tables `sessions`, `allocations`, `ledger_entries`; a cached copy of the session row in each instance | the treasury's operations as transactions; `refresh`, `snapshot`; a background denial log; creation of the schema and of the session row |

**How they interact.** A guard asks the engine for a model, allocates a token
from the treasury, awaits the wrapped function, and settles; if the cost is
above the ceiling it asks the reallocator for a loan first. The reallocator
reads the treasury's available balance and calls its `grant_extension`; the
engine reads its two ratios. Everything else is shared state: all agents of a
session use one treasury, and with the PostgreSQL backend all workers use one
session row.

**What is hard about it.**

- *Concurrency.* Each method of the in-memory treasury holds one re-entrant
  lock and awaits nothing, so it is atomic, between threads too. The
  reallocator's check and grant are two lock acquisitions: callers of one event
  loop cannot come between them, callers on other loops can (`crewai.py:123`
  and `langchain_runnable.py:132` start a loop per thread). The engine has no
  lock at all. PostgreSQL transactions of several workers interleave, and their
  cached copies go stale. Before its first transaction a worker waits for up to
  five things in turn: its instance's lock, a connection, the advisory lock, a
  connection again, the session row.
- *Partial failure.* A wrapped function may raise anywhere, a loan may be
  denied after the work is done, a price may be missing when the bill comes, a
  commit may fail or succeed without its reply arriving, a process may die.
- *Bookkeeping over long sequences.* The running totals are updated
  incrementally and never recomputed; a ceiling changes between the grant and
  the release.

**What makes each part correct.**

- Treasury: the totals are exact, no token costs more than its ceiling, a
  settled token is final, the audit trail replays and explains every token, and
  nothing but a loan overdraws the pool.
- Reallocator: a loan goes to a request that had earned or forced it, on money
  that is there; refusals are justified; every request is decided.
- Engine: an agent is only ever moved to a cheaper model, no move goes
  unreported, and none happens in a session that was never short.
- Guards: a call always ends, is billed what it cost, borrows a bounded number
  of times, and its token is settled.
- PostgreSQL: the same books as the treasury's, for any number of workers,
  across failed commits and crashes; one session row however many workers
  start it; no wait that never ends.

`PROJECT.json` lists the hazards of the code line by line with the properties
that cover them, or the reason none does yet.

## 2. The modules

```
Money            amounts and their sums
Clearinghouse    the promise: claims on a pool (abstract specification)
Treasury         core/treasury.py                 implements Clearinghouse
  Lending        core/reallocator.py              implements the solvent
                                                  Clearinghouse on one loop
    LedgerGuard  integrations/*.py                implements Lending
  Degradation    core/degrader.py, with Pricing
PostgresTreasury backends/postgres.py             implements Clearinghouse
  PgGuard        integrations/*.py over it        implements PostgresTreasury
PgBootstrap      backends/postgres.py, first calls of a session
Pricing, Usage   pricing.py, usage.py
Wrapper          what LedgerGuard and PgGuard share of integrations/*.py
MC*              constants for TLC
*Proofs          theorems
```

**Money.** The code uses `Decimal` and never rounds in the ledger, so an amount
is a whole number of the smallest unit in use. `SumOver(f, S)` counts the coins
of a purse instead of recursing, which makes its laws provable.

**Clearinghouse.** A sequence of claims, each with a ceiling, a spend and
whether it is open. There are no totals: `Free` is computed from the claims.
`Spec` lets a raise (a loan) ignore the pool, as the treasury does;
`SolventSpec` does not, as the reallocator means to.

**Treasury.** One action per method, early returns as disjuncts. `committed`,
`settledSpent`, `active`, `settled`, `ledger` are the attributes of the same
names; `token` holds the token objects by the count in their ids, and the two
dictionaries are sets of keys. `Record` writes the audit entry with the balance
after the operation, hence from primed variables. The denied allocation writes
its entry and changes nothing else; a release or extension of a token that is
not active raises and changes nothing. Agents, model names, timestamps and uuids
distinguish no behaviours and are left out.

**Lending.** Extends Treasury with callers, their event loops, progress hooks
and the place each caller has in `request_credit_extension`: `Ask` (the progress
gate), `ReadAvailable` (the check), then `Refuse` (the denial is logged) or
`Fund` (the extension, which fails if the token was settled meanwhile).
`report_progress` takes any agent's id, has no lock and is called from any thread:
`ReportProgress` is enabled at every moment for every agent, up or down, between the
gate and the grant of that agent's request too. What the gate read stays in the
request (`seen`), as it does in the method's local variable.
`LoopFree` is the asyncio rule: while a caller is between two steps of the
method, nothing else runs on its loop. `LendingSpec` has no bound;
`LendingBoundedSpec` is the one TLC explores, in which a request begins only if
the audit trail has `Room` for what it will write. PostgresTreasury has the same
pair, `PgSpec` and `PgBoundedSpec`.

**LedgerGuard.** Extends Lending; a caller is one guarded call. `Kind` tells a
LangGraph node from the plain wrappers, which are not rescued and settle a
failure at zero. The wrapped function is external: it returns any result of
`Result`, or raises anything of `Failure` on either run. `Returns` is the first
half of `_settle`, `Fails` the except clauses with `_handle_failure`, `Borrow`
the reallocator's steps taken for the call, `Settle` the release.

**Usage, Wrapper.** A result of the wrapped function is the set of places in
which it reports its tokens, each with a usage dict, and the model it names.
`FirstFound`, `UsageDict`, `Tokens` and `UsageModel` choose among them in the order
`extract_usage` does, `SettleCost` prices the choice, and `Readable` and `Priced`
say when it raises instead. `Reports` and `ReportedCost`, at the end of Usage, are
the reference: what each place says, without an order. `HidesUsage` and
`NamesTwice` are the results on which the order matters to the bill. Wrapper adds what the
wrappers compute from it alone (the ceiling to ask for, the loan for a
shortfall) and how they classify an error.

**Degradation.** Extends Treasury, whose operations go on around the engine.
The engine has no lock, so every read or write of something shared is a step:
`ReadRemaining` and `ReadUtilization` (the two ratios), `Compare` (the completed
steps), `Look` (the forced model and its degrade target), and the two steps of `Swap`,
which append the event and then force the model. `on_degrade` is called last and
reads nothing of the engine afterwards; that it raises is one of the outcomes of
`Swap`, and what it calls is what any thread may call. `RecordStepCompleted` is two
steps, a read and a write, so that a step completed in between is lost. A thread
resolves for any agent of `AgentsOf`, and several threads may resolve for one agent.
**Pricing** has the default table (in cents per million tokens) and `cost_of`.

**PostgresTreasury.** A module of its own, because its state is the tables and
the workers' memory. `tx` is the call a coroutine has in flight; a transaction
locks the session row, stages its writes, updates its worker's cached copy (the
code does that before the commit) and commits, or is rolled back. A denied
allocation stages its audit row and is rolled back by its own exception. `Ask`
is the reallocator's check, on the cached copy, and `Extend` the transaction
that follows; the progress gate before it is left out, since the wrappers pass
`force`. The insert of a denial's audit row refers to the session row, so `LogDenial`
waits while that row is locked. All workers are configured with the session's budget,
restarted ones too. `Fetch` and `Store` are a refresh, and the first statement of a
snapshot, which goes on with two counts (`Count`, `CountRest`) in statements of
their own. PostgreSQL itself is external: a row lock held to the end of the
transaction, atomic commits, reads of committed rows.

**PgGuard.** Extends PostgresTreasury: the guarded calls of LedgerGuard when the
treasury is the database. What was one step is now a request (`Acquire`, `Begin`)
and its `Answer`, between which other workers commit; the answer can be an error
although the commit took place. `call[c].ceiling` is the ceiling on the token the
wrapper holds. `grant_extension` answers with a new token, which the wrappers
drop, so this copy is never raised: `Returns` compares the cost with it, and goes on
to `TopUp` or `Refused`. A crash ends the calls of the process.

**PgBootstrap.** What precedes PostgresTreasury: `_ensure_ready` and
`_session_state`, for callers that make a bounded number of attempts, as the
workers of `demo/scenario_a_distributed.py` do, among them one that only takes a
snapshot. The lock of each instance, its connection pool, the advisory lock, the
tables and the session row are state; each wait is an action with its guard
(`LockReady`, `Connect`, `Advise`, `LockRow`, `InsertRow`). `CREATE TABLE IF NOT
EXISTS` is a look followed by a creation that fails if others were faster. An
inserted row stays private until its transaction commits, and others' inserts
wait for it.

## 3. What TLC checks

| Run | Bounds | Shows |
|---|---|---|
| `lending_one_loop` | 2 callers, 1 loop, budget 3, amounts 1-2, 4 audited calls, progress reported below zero, at the threshold and past the end, at any time | on one event loop the session is never oversubscribed, loans are earned, refusals are true; implements the solvent clearinghouse |
| `lending_two_loops` | 2 callers, 2 loops, budget 3, amounts 1-2, spends -1, 1, 5, 5 audited calls | the treasury's counters, dictionaries and audit trail agree and implement Clearinghouse; what has been promised exceeds the balance by at most one loan for the other loop; every request is decided |
| `guard_nodes` | a node and a plain call on two loops | calls end, are billed what their results report, or their ceiling if they are refused, borrow at most twice; tokens leak on two paths only; implements Lending |
| `degradation` | 2 threads, an agent that both resolve for and one with a thread of its own, 3 requested models, one of them unlisted, 3 swaps | no swap goes unreported or happens in a session that was never low; the agent with its own thread only gets cheaper models |
| `pg_faults` | 2 workers, budget 3, amount 2, 4 audit rows, failing commits and crashes | tables stay consistent, replay, and implement Clearinghouse; a snapshot misses no token |
| `pg_guard` | a node and a plain call in two workers, budget 6, costs 1 and 4, lost replies, failing commits and crashes | calls end, are billed their cost when they return, and leak money only through a fault or the paths of `guard_nodes`; implements PostgresTreasury |
| `pg_bootstrap` | 4 callers in 3 workers with budgets 2, 5 and none, one connection each, one attempt per caller, crashes | the tables are created once, one budget wins, grants fit it, and no caller waits for ever |
| `lending_race` | 2 loops | **violated**: two loans approved on one balance |
| `guard_retry` | 2 nodes | **violated**: a node that raises on its retry keeps its token active |
| `pg_stale` | 2 workers, no faults | **violated**: a loan granted from a stale cached copy oversubscribes the session |
| `pg_denials` | 2 workers, no faults | **violated**: the audit row of a denied allocation is rolled back |
| `pg_refused` | as `pg_guard`, budget 4, no faults | **violated**: a node whose ceiling covers its cost, after a rescue, is refused |

The five violated properties state what the code's own documentation says; the
findings in `PROJECT.json` quote it. Smaller disagreements, seen while modelling
and visible in the modules, have no run:

- `grant_extension` on a settled token raises `UnknownAllocationTokenError`
  (`core/treasury.py:287-289`); `exceptions.py:42-43` documents
  `AllocationAlreadySettledError` for it.
- The comment at `core/degrader.py:139-142` says that a forced agent keeps the
  model it was forced to, "rather than re-resolving" and emitting "duplicate
  events". The code takes that model as the one to degrade: each call in a critical
  window moves the agent one tier further, with an event each time, until the
  floor. No property here asserts it; `ForcedOnlyCheapens` and `SwapsAreReported`
  hold of either reading.
- A request for a model that is already cheapest can be answered with a dearer
  one, when the agent was forced to one (`core/degrader.py:143`), although the
  docstring at `:133-134` says it is returned unchanged.

**Why the bounds suffice.** Two tokens are enough for every relation between
tokens (partition, sums, one settled while the other is open), and five audited
calls let both be granted, one lent to, and both settled, or denials come in between.
Spends below zero, inside and above every ceiling reach both sides of the clamp.
Budget 3 with requests of 1 and 2 reaches a pool at zero, at exactly the request
and, with loans, below zero. Two callers on one loop and two on two loops are the
smallest instances of the two cases of `LoopFree`; how the bounds grow with more
callers and loops is proved, not checked. In `guard_nodes`, estimates on
both sides of `max_usd_ceiling`, costs on both sides of the ceiling, and a pool
that covers some of the loans reach every branch; its results use every place
of `extract_usage`'s order that can hide another, both namings, a named model that is
dearer, one without a price, and an unreadable object. In `pg_guard` the costs 1
and 4 lie below every ceiling and above it, also after one rescue, and a budget of
6 covers both allocations and one loan. In `pg_bootstrap` two callers share a pool of
one connection, so that the holder of the instance's lock and another caller
compete for it; the requests of 2 and 3 fit one budget together, one budget
alone, or none. In `pg_refused` a budget of 4
is used up by one allocation of 2 and its rescue by 2. In `degradation` an
allocation of 4 out of 5, or two of 2, leave exactly the threshold of 20 percent,
and one of 2 a session that burns too fast without being low; three swaps
take the agent with its own thread down to the floor of its family, or let the
threads of the shared one overtake each other. `MaxEvents`, `MaxEntries`, `MaxSteps`, `MaxSwaps` and `Attempts`
bound the open systems (`MaxEvents` and `MaxEntries` only the bounded
specifications of Lending and PostgresTreasury, and Treasury and Degradation); the
guard runs need no bound, as their calls are finite, and are checked against
the unbounded `LendingSpec` and `PgSpec`. In PostgresTreasury a caller has at most
one call and one pending denial log at a time. Deadlock is not checked: each
model stops when its bound is used up or all its calls have ended. That nobody
waits for ever before that is what `PgCallsEnd` and `EveryAttemptAnswered` say.

**Fairness.** `LendingFairSpec`: a caller inside `request_credit_extension` goes
on; its loop has nothing else to run, and nothing it does waits. `GuardFairSpec`:
the same for a guarded call once it holds a token; this includes that the wrapped
function returns or raises, since the code has no timeout of its own.
`PgGuardFairSpec`: the wrapped function returns or raises; a transaction that holds
the row lock ends, since the server ends one whose connection is gone; and a
caller that waits for the lock gets it if it is free again and again (strong
fairness, as PostgreSQL queues waiters). `BootFairSpec`: the same for the five
waits, since the asyncio lock, the pool and the database's locks all keep
queues. Faults are never fair: no property relies on one happening.

## 4. What is proved

For every budget, amounts, spends and bound (`TreasuryAssumption`), every
number of callers and loops (`LendingAssumption`), guarded calls
(`WrapperAssumption`), prices and token counts that are not negative
(`UsageAssumption`), workers (`PostgresAssumption`), and of processes, pools and budgets
(`BootstrapAssumption`, with finitely many callers):

- `TreasuryProofs`: `TypeCorrect`, `MoneyConserved`, `TokensWithinCeiling`,
  `OnlyLoansOverdraw`, `TrailReplays`, `TrailExplains`, `TreasuryImplements`,
  `SettledIsFinal`.
  `TypeOK` (the two dictionaries partition the tokens) with `Conservation`
  is inductive; each operation changes each sum at one key, and the lemmas of
  `MoneyProofs` (`SumAdd`, `SumRemove`, `SumUpdate`) say by how much. One
  effect lemma per operation (`GrantedEffect`, `ReleaseEffect`,
  `ExtensionEffect`, `DenialEffect`) is what the later proofs use. `TrailExplains`
  follows the sets of grant and release entries of one token: an entry joins only
  the sets of the token it names (`EntriesAfter`), and no entry names a token that
  does not exist yet (`EntriesKnown`), so a new token starts unmentioned. The refinement
  adds that the abstract `Free` is the concrete `Available`, which is
  conservation again.
- `LendingProofs`: `LendingTypeCorrect`, `OneRequestPerLoop`,
  `PromisesAreBounded`, `OverdraftIsBounded`, `OneLoopIsSolvent`,
  `LendingConserves`, `LoansEarned`, `RefusalsTrue`,
  `OneLoopImplementsSolvent`. The bound on the balance alone is not inductive:
  an approval does not change the balance, and the grant that follows does not
  look at it. The invariant therefore counts what has been promised: `Available
  - Promised >= -Deficit`, with `Deficit` one largest loan for each loop but
  one. It holds because the approvals in flight are on different loops
  (`InFlightOK`), so that whoever reads the balance can be misled by at most
  one approval for each *other* loop. With one loop the deficit is zero and the
  session stays solvent. What a request decided is followed the same way. That
  the gate was passed (`GatePassed`) is said of what the request read then
  (`Earned`), since a report from another thread can lower the progress at any
  time after; `LoansEarned` therefore holds on any number of loops and with any
  reports, and says besides that a loan is booked once and for the amount
  approved. It does not say that the agent is still far enough when the loan is
  booked, which is not so. The comparison with the balance (`DecisionHolds`) stays true only on one
  loop, where no other caller is inside the method; a denial is then true when
  it is written, and every booked loan is covered, so the Reallocator
  implements the solvent clearinghouse.
- `GuardProofs`: `GuardTypeCorrect`, `LeaksAreExplained`, `BillsAreExact`,
  `BillsAreReported`, `LoansAreBounded`, `GuardRefinesLending`,
  `GuardedLoopIsSolvent`, `GuardedOverdraftIsBounded`, for any number of calls,
  loops and models, and any results and
  exceptions of the wrapped functions. The invariants are not inductive. `CallOK` says
  what a call may rely on at each place of the wrapper: its token is active while
  it works, the loan it waits for covers its bill, a bill about to be paid fits the
  ceiling. That others leave this alone rests on `OwnTokens` (calls share no
  token) and on every step touching only its own call's token (`SoundCall`, the
  summary each action is shown to satisfy). For the loans, `LoanInv` also says
  that a node is rescued from its first run only, so that the entries on its token
  never outrun its runs.
  For the charges, `ChargeOK` follows from which place a call was sent to its
  settlement with which error, and that its token then takes the whole bill
  (`SettledAsBilled`). For the reports, `BillsReported` keeps the bill tied to the returned result from
  `_settle` to the end, and lemmas about `extract_usage` do the rest: the dict that
  is read is one of those found (`DictIsFound`), a count under one name makes one
  summand of the cost or none (`OneName`, `OneCount`), so what is charged is what
  that place reports (`ChargedAsReported`). Two kinds of results have to be left
  out: a dict of zero counts hides the places after it as an empty one does
  (`HidesUsage`), and of two names of a count in one dict only the first is read
  (`NamesTwice`).
  The refinement of Lending shows each step of a wrapper to be one or none of the
  Reallocator's callers. It rests on two facts: a call that is not borrowing has no
  request, and a loop that runs no other wrapper runs no other request
  (`OutsideReallocator`). `CallersMayAsk` says that Lending's
  callers, whose `Amount` and `Spend` are constants, may ask for what the wrappers
  ask for; `Amount` has a largest element, so prompts and costs are bounded here,
  by any bound. What is proved of lending then holds of guarded calls: on one loop they
  are solvent, on several they overdraw by at most one loan for each loop but one.
- `DegradationProofs`: `DegradationTypeCorrect`, `SwapsReported`,
  `ForcedModelsOnlyCheapen`, `SwapsFollowShortage`, `DefaultTableIsOrdered`,
  `CheaperCostsLess`, for any threads and any agents they resolve for.
  `SwapsReported` needs what holds between the two writes of a swap: the event of the
  model about to be forced is in the list (`PendingReported`), and the list only
  grows (`EventsAppended`). For `ForcedModelsOnlyCheapen` a thread about
  to force a model still holds the degrade target of what its agent is on
  (`TargetsAreCurrent`), although it looked it up two steps earlier. That is so
  for an agent that no other thread resolves for (`Exclusive`), and the property
  speaks of no others: of two threads on one agent the later write wins, and it can be
  the dearer model. The theorem also needs `WellOrdered(Table)`, which the default
  table satisfies and `register` does not enforce. `SwapsFollowShortage` needs
  neither: whoever is about to act on a low balance saw one that is on the audit
  trail (`LowSeen`, `LowIsShort`), and the trail is append-only and replays.
- `PostgresProofs`: `PgTypeCorrect`, `PgMoneyConserved`, `PgAuditTrailReplays`,
  `PgImplements`, `SnapshotIsComplete`. The counters of the session row are not inductive by
  themselves: a commit replaces the row by what the transaction computed some
  steps earlier. The invariant says that whoever holds the lock has staged one
  grant, settlement or loan *of the rows as they still are*
  (`StagedFromCurrent`), which holds because there is one holder (`OneHolder`).
  A commit is then one step of the clearinghouse and everything else a stutter.
  The same invariant carries the audit trail: the one row a commit adds continues
  from the balance of the session row it was computed from, which is the balance the
  last booked row left. Rows of refused loans are written without the lock; they
  are passed over by `Precedes`, so they cannot break the chain wherever they land.
  The snapshot's theorem needs only that a token once settled stays settled:
  each token that was there at the first statement is in one of the two counts.
- `PgGuardProofs`: `PgGuardTypeCorrect`, `PgLeaksAreExplained`,
  `PgBillsAreExact`, `PgGuardRefines`, `PgGuardImplements`, with any faults. `CallOK` follows a call
  as in GuardProofs, but its row changes only when its transaction commits, steps
  after it was computed. `StagedOK` therefore says what the staged rows are: the
  table with this call's grant, loan or settlement made. It stays true because the
  lock keeps others from committing meanwhile (`CommitEffect`, from `PgInv` of
  PostgresProofs), and calls own their rows (`OwnTokens`). A commit then moves
  `CallOK` on whether its reply arrives or not. For the leaks, a row joins the
  `Orphans` only together with a call that joins the `Lost`, so there are never
  more of them (for finitely many callers). `PgGuardRefines` shows every
  step of a wrapper, and of a worker that dies, to be a step of PostgresTreasury
  (`AsCaller`). The one thing the wrappers do not check is that a caller has at
  most one denial log under way; it holds because a refused call borrows no more
  (`RefusedOnce`). `PgGuardImplements` then carries the database's theorems over:
  the balance, the audit trail and the clearinghouse. The wrappers' amounts are not bounded by
  `Amount` and `Spend`, which say what the open system of PostgresTreasury asks for;
  the theorems assume that these leave nothing out (`AnyAmount`).
- `PgBootstrapProofs`: `BootTypeCorrect`, `BootFailuresExplained`, `BootGrantsFit`.
  `HoldersMatch` ties every lock and connection to the place its holder is at in
  `_ensure_ready` or `_session_state`. It follows that only one attempt is
  between its look for the tables and their creation, so the look is still true
  (`SchemaSound`), and that the row a grant was computed from is the row it is
  committed to (`GrantsSound`). `SoundStep` names what a step of any kind must do
  to keep the three together; each action is shown to be one.

**Only model-checked**: the liveness properties `EveryRequestDecided`,
`EveryCallEnds`, `PgCallsEnd` and `EveryAttemptAnswered`. They need fairness, which
is stated with `ENABLED`, and that is outside what TLAPS proves here. Every other
property of a passing run is stated by a theorem. `OneRequestPerLoop`
and `OverdraftIsBounded` are proved and have no run of their own. Hypotheses of
theorems beyond the assumptions on constants are
`WellOrdered(Table)`, `CallersMayAsk` and `AnyAmount`, a single loop, and
finitely many callers where cardinalities are compared.

## 5. What is not modelled

- `PricingTable.register`: the table is a constant, arbitrary in the theorems.
- The read-only queries `get_token` and `ledger_history` of the PostgreSQL backend,
  and clock skew between workers, which orders the latter.
- A refresh of the cached copy by the wrappers: none of them calls `refresh`.
- A restarted worker that is configured without a budget, whose copy then says
  that nothing is free (`demo/scenario_a_distributed.py` has one; it borrows nothing).
- What `ForcedOnlyCheapens` says of an agent that several threads resolve for: there
  it is false.
- Negative amounts in requests: the code does not validate them and says nothing
  of what they mean.
- Whose `AllocationExceededError` a node lets through when it calls another
  guarded function: the wrapped function is external and may raise either.
- What a result should cost whose places or names contradict each other: a dict
  that reports no tokens and hides a later place that does (`HidesUsage`), or one
  with both names of a count (`NamesTwice`). They are modelled, but
  `BilledAsReported` leaves them out, as the code does not say what they should
  cost.
- Exceptions' messages, package exports. Of the demos, the workers of scenario A
  are the callers of PgBootstrap; scenarios B and C, the example and the tests
  are sequential scripts over the modelled calls, with no state of their own.

## 6. Plan

Done, in order of importance: Money, Clearinghouse, Treasury, Lending,
LedgerGuard with Usage and Wrapper, PostgresTreasury, Pricing, Degradation,
PgGuard and PgBootstrap, with the runs of section 3 and the theorems of section
4. Left: `PricingTable.register` as an action, a bound on how far a worker's
cached copy can be off, and shorter forms of the larger modules.
