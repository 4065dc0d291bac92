----------------------------- MODULE PgBootstrap -----------------------------
(* The first calls of workers on one session: _ensure_ready and              *)
(* _session_state of backends/postgres.py, with the locks and connections    *)
(* they wait for.  PostgresTreasury starts where this module ends: with      *)
(* tables and a session row that exist.                                      *)
(*                                                                           *)
(* A caller makes attempts as the workers of demo/scenario_a_distributed.py  *)
(* do: it allocates and takes a denial as an answer, or it takes a snapshot. *)
(* An attempt waits, in turn, for the lock of its instance, for a connection *)
(* of its pool, for the advisory lock, for a connection again and for the    *)
(* session row.  Only what these waits protect is modelled of the database:  *)
(* whether the tables exist, and the session row.                            *)
EXTENDS Money

CONSTANTS
  Worker,        \* the worker processes, each with one PostgresTreasury
  Caller,        \* their coroutines
  WorkerOf,      \* the process of each
  Reader,        \* the callers that take snapshots; all others allocate
  PoolSize,      \* max_size of each worker's connection pool
  CreateTables,  \* create_tables, by worker
  Budget,        \* total_session_budget_usd, by worker, or NoBudget
  Amount,        \* amounts asked for
  Attempts,      \* attempts of each caller
  Faults         \* whether connections fail and processes crash

NoBudget == -1   \* total_session_budget_usd=None
Nobody == "nobody"

ASSUME BootstrapAssumption ==
  /\ WorkerOf \in [Caller -> Worker]
  /\ IsFiniteSet(Caller) /\ Nobody \notin Caller
  /\ Reader \subseteq Caller
  /\ PoolSize \in Nat \ {0} /\ Attempts \in Nat
  /\ CreateTables \in [Worker -> BOOLEAN]
  /\ Budget \in [Worker -> Nat \cup {NoBudget}]
  /\ Amount \subseteq Nat
  /\ Faults \in BOOLEAN

VARIABLES
  ready,       \* _ready of each worker's instance
  readyLock,   \* who holds _ready_lock
  connected,   \* the callers that hold a connection of their pool
  advisory,    \* who holds the advisory lock
  tables,      \* whether the tables exist
  session,     \* the sessions row
  rowLock,     \* who holds the lock on it, or has inserted it uncommitted
  attempt      \* the attempt each caller is at

bootVars == <<ready, readyLock, connected, advisory, tables, session, rowLock,
              attempt>>

NoSession == [exists |-> FALSE, budget |-> 0, committed |-> 0]

\* Where an attempt stands: what it has seen of the tables, what its
\* transaction is about to commit, how the last one ended, and what all of
\* them were granted.
NewAttempt == [pc |-> "idle", left |-> Attempts, seen |-> FALSE,
               view |-> NoSession, outcome |-> "none", granted |-> 0]

BootInit ==
  /\ ready = [w \in Worker |-> FALSE]
  /\ readyLock = [w \in Worker |-> Nobody]
  /\ connected = {}
  /\ advisory = Nobody
  /\ tables = FALSE
  /\ session = NoSession
  /\ rowLock = Nobody
  /\ attempt = [c \in Caller |-> NewAttempt]

At(c, place) == attempt[c].pc = place
Goto(c, place) == attempt' = [attempt EXCEPT ![c].pc = place]

PoolHasRoom(c) ==
  Cardinality({d \in connected : WorkerOf[d] = WorkerOf[c]}) < PoolSize

\* The attempt is over: whatever it holds is given back.
Finish(c, outcome, granted) ==
  /\ attempt' = [attempt EXCEPT ![c] =
       [NewAttempt EXCEPT !.left = attempt[c].left, !.outcome = outcome,
                          !.granted = attempt[c].granted + granted]]
  /\ connected' = connected \ {c}
  /\ readyLock' = [w \in Worker |->
                     IF readyLock[w] = c THEN Nobody ELSE readyLock[w]]
  /\ advisory' = IF advisory = c THEN Nobody ELSE advisory
  /\ rowLock' = IF rowLock = c THEN Nobody ELSE rowLock
-----------------------------------------------------------------------------
\* Mutant: the connection is taken before the tables are looked after.
StartConnected(c) ==
  /\ At(c, "idle") /\ attempt[c].left > 0
  /\ PoolHasRoom(c)
  /\ connected' = connected \cup {c}
  /\ attempt' = [attempt EXCEPT
       ![c].pc = IF ready[WorkerOf[c]] \/ ~CreateTables[WorkerOf[c]]
                 THEN "query" ELSE "prepare",
       ![c].left = @ - 1]
  /\ UNCHANGED <<ready, readyLock, advisory, tables, session, rowLock>>

\* _ensure_ready without the lock: the tables are there, or not this
\* instance's business.
Start(c) ==
  LET w == WorkerOf[c]
      done == ready[w] \/ ~CreateTables[w]
  IN /\ At(c, "idle") /\ attempt[c].left > 0
     /\ ready' = [ready EXCEPT ![w] = done]
     /\ attempt' = [attempt EXCEPT ![c].pc = IF done THEN "connect" ELSE "prepare",
                                   ![c].left = @ - 1]
     /\ UNCHANGED <<readyLock, connected, advisory, tables, session, rowLock>>

\* With the instance's lock the flag is looked at again.
LockReady(c) ==
  LET w == WorkerOf[c] IN
  /\ At(c, "prepare") /\ readyLock[w] = Nobody
  /\ \/ ready[w] /\ Goto(c, "connect") /\ UNCHANGED readyLock
     \/ /\ ~ready[w]
        /\ readyLock' = [readyLock EXCEPT ![w] = c]
        /\ Goto(c, "connectFirst")
  /\ UNCHANGED <<ready, connected, advisory, tables, session, rowLock>>

\* pool.acquire, for the schema or for the call itself.
Connect(c) ==
  /\ PoolHasRoom(c)
  /\ connected' = connected \cup {c}
  /\ \/ At(c, "connectFirst") /\ Goto(c, "advise")
     \/ At(c, "connect") /\ Goto(c, "query")
  /\ UNCHANGED <<ready, readyLock, advisory, tables, session, rowLock>>

\* Mutant: the advisory lock is left out.
AdviseUnlocked(c) ==
  /\ At(c, "advise")
  /\ Goto(c, "look")
  /\ UNCHANGED <<ready, readyLock, connected, advisory, tables, session, rowLock>>

\* pg_advisory_lock
Advise(c) ==
  /\ At(c, "advise") /\ advisory = Nobody
  /\ advisory' = c
  /\ Goto(c, "look")
  /\ UNCHANGED <<ready, readyLock, connected, tables, session, rowLock>>

\* CREATE TABLE IF NOT EXISTS looks first ...
LookForTables(c) ==
  /\ At(c, "look")
  /\ attempt' = [attempt EXCEPT ![c].pc = "create", ![c].seen = tables]
  /\ UNCHANGED <<ready, readyLock, connected, advisory, tables, session, rowLock>>

\* ... and fails at the catalog if others have created them meanwhile, which
\* the advisory lock is there to prevent.
MakeTables(c) ==
  /\ At(c, "create")
  /\ IF tables /\ ~attempt[c].seen
     THEN /\ Finish(c, "DuplicateTableError", 0)
          /\ UNCHANGED tables
     ELSE /\ tables' = TRUE
          /\ Goto(c, "unlock")
          /\ UNCHANGED <<readyLock, connected, advisory, rowLock>>
  /\ UNCHANGED <<ready, session>>

\* The advisory lock, the connection and the instance's lock are given back.
Unlock(c) ==
  /\ At(c, "unlock")
  /\ ready' = [ready EXCEPT ![WorkerOf[c]] = TRUE]
  /\ readyLock' = [readyLock EXCEPT ![WorkerOf[c]] = Nobody]
  /\ advisory' = IF advisory = c THEN Nobody ELSE advisory
  /\ connected' = connected \ {c}
  /\ attempt' = [attempt EXCEPT ![c].pc = "connect", ![c].seen = FALSE]
  /\ UNCHANGED <<tables, session, rowLock>>

\* What _session_state raises, before it has locked anything.
Failing(c) ==
  CASE ~tables -> "UndefinedTableError"
    [] tables /\ ~session.exists /\ Budget[WorkerOf[c]] = NoBudget -> "ValueError"
    [] OTHER -> "none"

QueryFails(c) ==
  /\ At(c, "query") /\ Failing(c) # "none"
  /\ Finish(c, Failing(c), 0)
  /\ UNCHANGED <<ready, tables, session>>

\* A snapshot reads without a lock; a session that does not exist yet is
\* read as one with the caller's budget.
Snapshot(c) ==
  /\ At(c, "query") /\ Failing(c) = "none" /\ c \in Reader
  /\ Finish(c, "read", 0)
  /\ UNCHANGED <<ready, tables, session>>

\* SELECT ... FOR UPDATE, when there is no row: it locks nothing.
MissRow(c) ==
  /\ At(c, "query") /\ Failing(c) = "none" /\ c \notin Reader
  /\ ~session.exists
  /\ Goto(c, "insert")
  /\ UNCHANGED <<ready, readyLock, connected, advisory, tables, session, rowLock>>

\* The transaction goes on with this row: the grant, or the denial of an
\* exhausted session or of too large a request, whose exception rolls it back.
Decide(c, found) ==
  \E x \in Amount :
    LET available == found.budget - found.committed
        fits == available > 0 /\ x <= available
    IN attempt' = [attempt EXCEPT
      ![c].pc = IF fits THEN "commit" ELSE "deny",
      ![c].view = IF fits THEN [found EXCEPT !.committed = @ + x] ELSE found]

LockRow(c) ==
  /\ At(c, "query") /\ Failing(c) = "none" /\ c \notin Reader
  /\ session.exists /\ rowLock = Nobody
  /\ rowLock' = c
  /\ Decide(c, session)
  /\ UNCHANGED <<ready, readyLock, connected, advisory, tables, session>>

\* Mutant: the conflict overwrites the row.
InsertRowAnew(c) ==
  /\ At(c, "insert") /\ rowLock = Nobody
  /\ rowLock' = c
  /\ Decide(c, [exists |-> TRUE, budget |-> Budget[WorkerOf[c]], committed |-> 0])
  /\ UNCHANGED <<ready, readyLock, connected, advisory, tables, session>>

\* INSERT ... ON CONFLICT waits for another insert to commit or roll back,
\* and returns the row that there is then.
InsertRow(c) ==
  /\ At(c, "insert") /\ rowLock = Nobody
  /\ rowLock' = c
  /\ Decide(c, IF session.exists THEN session
               ELSE [exists |-> TRUE, budget |-> Budget[WorkerOf[c]],
                     committed |-> 0])
  /\ UNCHANGED <<ready, readyLock, connected, advisory, tables, session>>

\* The end of the transaction; a denial takes a new row back.
End(c) ==
  \/ /\ At(c, "commit")
     /\ session' = attempt[c].view
     /\ \/ Finish(c, "granted", attempt[c].view.committed - session.committed)
        \/ Faults /\ Finish(c, "DatabaseError", 0)
     /\ UNCHANGED <<ready, tables>>
  \/ /\ At(c, "deny")
     /\ Finish(c, "denied", 0)
     /\ UNCHANGED <<ready, tables, session>>

Waits(c) ==
  LockReady(c) \/ Connect(c) \/ Advise(c) \/ LockRow(c) \/ InsertRow(c)

Goes(c) ==
  \/ LookForTables(c) \/ MakeTables(c) \/ Unlock(c)
  \/ QueryFails(c) \/ Snapshot(c) \/ MissRow(c) \/ End(c)

\* Mutant: the connection goes back to the pool and its locks stay.
DisconnectLocked(c) ==
  /\ Faults /\ c \in connected
  /\ attempt' = [attempt EXCEPT ![c].pc = "idle", ![c].outcome = "DatabaseError"]
  /\ connected' = connected \ {c}
  /\ UNCHANGED <<ready, readyLock, advisory, tables, session, rowLock>>

\* A connection fails while it is in use: its locks are gone with it, and
\* _ready stays as it was.
Disconnect(c) ==
  /\ Faults /\ c \in connected
  /\ Finish(c, "DatabaseError", 0)
  /\ UNCHANGED <<ready, tables, session>>

\* The process dies; a new one takes its place.
Crash(w) ==
  LET gone == {c \in Caller : WorkerOf[c] = w} IN
  /\ Faults
  /\ ready' = [ready EXCEPT ![w] = FALSE]
  /\ readyLock' = [readyLock EXCEPT ![w] = Nobody]
  /\ connected' = connected \ gone
  /\ advisory' = IF advisory \in gone THEN Nobody ELSE advisory
  /\ rowLock' = IF rowLock \in gone THEN Nobody ELSE rowLock
  /\ attempt' = [c \in Caller |-> IF c \in gone
                                  THEN [NewAttempt EXCEPT
                                          !.left = attempt[c].left,
                                          !.granted = attempt[c].granted]
                                  ELSE attempt[c]]
  /\ UNCHANGED <<tables, session>>

BootNext ==
  \/ \E c \in Caller : Start(c) \/ Waits(c) \/ Goes(c) \/ Disconnect(c)
  \/ \E w \in Worker : Crash(w)

BootSpec == BootInit /\ [][BootNext]_bootVars

\* Each of the five waits has a queue: of the asyncio lock, of the pool and of
\* the database's locks.
BootFairSpec ==
  BootSpec /\ \A c \in Caller : SF_bootVars(Waits(c)) /\ WF_bootVars(Goes(c))
-----------------------------------------------------------------------------
(* The types, and who holds what: a worker never has more connections than   *)
(* its pool, and a lock of the database is held through a connection.        *)
BootTypeOK ==
  /\ ready \in [Worker -> BOOLEAN] /\ tables \in BOOLEAN
  /\ readyLock \in [Worker -> Caller \cup {Nobody}]
  /\ {advisory, rowLock} \subseteq connected \cup {Nobody}
  /\ \A w \in Worker :
       Cardinality({c \in connected : WorkerOf[c] = w}) <= PoolSize
  /\ connected \subseteq {c \in Caller : ~At(c, "idle")}
  /\ session \in [exists : BOOLEAN, budget : Nat, committed : Nat]
  /\ \A c \in Caller : attempt[c].left \in 0 .. Attempts

(* However many processes start at once, and whichever of them fail, none    *)
(* trips over another's CREATE TABLE and none takes the tables for there     *)
(* when they are not.  Only an instance that was told not to create the      *)
(* tables can miss them, and only one without a budget can miss the session. *)
OnlyMisconfigurationFails ==
  \A c \in Caller :
    /\ attempt[c].outcome # "DuplicateTableError"
    /\ attempt[c].outcome = "UndefinedTableError" => ~CreateTables[WorkerOf[c]]
    /\ attempt[c].outcome = "ValueError" => Budget[WorkerOf[c]] = NoBudget

(* The session has one budget even if the workers were given different ones: *)
(* what they were granted, and knew of, never exceeds it, and is still       *)
(* committed after any of them has died.                                     *)
GrantsFitOneBudget ==
  LET granted == SumOver([c \in Caller |-> attempt[c].granted], Caller) IN
  granted <= session.committed /\ session.committed <= session.budget

(* Every attempt is answered: the waits for locks and connections never form *)
(* a cycle, even with a single connection for all callers of a process.      *)
EveryAttemptAnswered == \A c \in Caller : ~At(c, "idle") ~> At(c, "idle")
=============================================================================
