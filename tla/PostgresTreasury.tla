-------------------------- MODULE PostgresTreasury --------------------------
(* The treasury several workers share: class PostgresTreasury of             *)
(* backends/postgres.py, one instance to a worker process, used by the       *)
(* callers (coroutines) of that process through a connection pool.           *)
(*                                                                           *)
(* Every mutation is a transaction that locks the session row, computes the  *)
(* new row from what it read, and refreshes the instance's cached copy       *)
(* before it commits.  The Reallocator, which cannot await, reads only that  *)
(* copy.  PostgreSQL is modelled by what the code relies on: a row lock      *)
(* (FOR UPDATE, or the insert's ON CONFLICT when there is no row yet) that   *)
(* is held to the end of the transaction, and all-or-nothing commits.        *)
EXTENDS Money, Sequences

CONSTANTS
  Worker,        \* the worker processes
  Caller,        \* the coroutines, each with one call at a time
  WorkerOf,      \* the process of each
  TotalBudget,   \* total_session_budget_usd, given to every worker and the same
  Amount,        \* amounts asked for
  Spend,         \* spends reported
  MaxEntries,    \* bound on the audit rows in the runs
  Faults         \* whether commits fail and processes crash

ASSUME PostgresAssumption ==
  /\ TotalBudget \in Nat /\ MaxEntries \in Nat
  /\ Amount \subseteq Nat /\ Spend \subseteq Int
  /\ Faults \in BOOLEAN
  /\ WorkerOf \in [Caller -> Worker]

VARIABLES
  session,   \* committed_usd and settled_spent_usd of the sessions row
  row,       \* the allocations table, in the order of insertion
  entries,   \* the ledger_entries table, in the order of commit
  lock,      \* the transactions that hold the lock on the sessions row
  tx,        \* the call of each caller
  cache,     \* the instance's copy of the sessions row
  denial     \* the background denial log of each caller

db == <<session, row, entries>>
pgVars == <<db, lock, tx, cache, denial>>

Balance == [committed : Int, spent : Int]
Row == [initial : Nat, ceiling : Nat, spent : Nat, extensions : Nat,
        status : {"active", "settled"}]
Entry == [event : {"granted", "denied", "released", "extended", "refused"},
          token : Nat, amount : Nat, yielded : Nat, available : Int]

\* Also what a session row that does not exist yet is taken for.
Opening == [committed |-> 0, spent |-> 0]

NoLog == [at |-> "none", tok |-> 0, amount |-> 0, available |-> 0]

\* What a transaction has computed and not committed yet; an approved loan
\* waits here for its transaction, and a refresh keeps here what it read.
Idle == [at |-> "idle", tok |-> 0, amount |-> 0,
         session |-> Opening, row |-> << >>, entry |-> << >>]

AvailableIn(s) == TotalBudget - s.committed - s.spent

Available == AvailableIn(session)
CachedAvailable(w) == AvailableIn(cache[w])

PgInit ==
  /\ session = Opening
  /\ row = << >>
  /\ entries = << >>
  /\ lock = {}
  /\ tx = [c \in Caller |-> Idle]
  /\ cache = [w \in Worker |-> Opening]
  /\ denial = [c \in Caller |-> NoLog]
-----------------------------------------------------------------------------
\* Mutant: the row is read without FOR UPDATE.
LockUnchecked(c) == lock' = lock \cup {c}

\* SELECT ... FOR UPDATE on the session row.
LockSession(c) == lock = {} /\ lock' = {c}

\* The writes of a transaction, held back until it commits; the cache is
\* refreshed at once.
Stage(c, new, rows, event, t, amount, yielded) ==
  /\ tx' = [tx EXCEPT ![c] =
       [at |-> "staged", tok |-> t, amount |-> amount, session |-> new,
        row |-> rows,
        entry |-> <<[event |-> event, token |-> t, amount |-> amount,
                     yielded |-> yielded, available |-> AvailableIn(new)]>>]]
  /\ cache' = [cache EXCEPT ![WorkerOf[c]] = new]

Allocate(c, x) ==
  LET new == [session EXCEPT !.committed = @ + x] IN
  /\ tx[c].at = "idle"
  /\ Available > 0 /\ x <= Available
  /\ LockSession(c)
  /\ Stage(c, new,
           Append(row, [initial |-> x, ceiling |-> x, spent |-> 0,
                        extensions |-> 0, status |-> "active"]),
           "granted", Len(row) + 1, x, 0)
  /\ UNCHANGED <<db, denial>>

\* The denial's audit row is inserted, and the cache refreshed, before the
\* exception is raised.
AllocateDenied(c, x) ==
  /\ tx[c].at = "idle"
  /\ Available <= 0 \/ x > Available
  /\ LockSession(c)
  /\ tx' = [tx EXCEPT ![c] =
       [at |-> "denied", tok |-> 0, amount |-> x, session |-> session,
        row |-> row,
        entry |-> <<[event |-> "denied", token |-> 0, amount |-> x,
                     yielded |-> 0, available |-> Available]>>]]
  /\ cache' = [cache EXCEPT ![WorkerOf[c]] = session]
  /\ UNCHANGED <<db, denial>>

\* The exception leaves the transaction, which takes its audit row back.
RaiseDenied(c) ==
  /\ tx[c].at = "denied"
  /\ lock' = lock \ {c}
  /\ tx' = [tx EXCEPT ![c] = Idle]
  /\ UNCHANGED <<db, cache, denial>>

\* Mutant: the status of the row is not looked at.
SettleAny(c, t, s) ==
  LET spend == Smaller(Larger(s, 0), row[t].ceiling)
      new == [committed |-> session.committed - row[t].ceiling,
              spent |-> session.spent + spend]
  IN /\ tx[c].at = "idle"
     /\ LockSession(c)
     /\ Stage(c, new,
              [row EXCEPT ![t].status = "settled", ![t].spent = spend],
              "released", t, spend, row[t].ceiling - spend)
     /\ UNCHANGED <<db, denial>>

\* release_allocation; a row that is already settled raises and changes
\* nothing.
Settle(c, t, s) ==
  LET spend == Smaller(Larger(s, 0), row[t].ceiling)
      new == [committed |-> session.committed - row[t].ceiling,
              spent |-> session.spent + spend]
  IN /\ tx[c].at = "idle"
     /\ row[t].status = "active"
     /\ LockSession(c)
     /\ Stage(c, new,
              [row EXCEPT ![t].status = "settled", ![t].spent = spend],
              "released", t, spend, row[t].ceiling - spend)
     /\ UNCHANGED <<db, denial>>

\* The Reallocator's check of the balance, on the cached copy; the wrappers
\* force their requests past its progress gate.  A denial is logged in the
\* background.
Ask(c, t, x) ==
  /\ tx[c].at = "idle"
  /\ \/ /\ x <= CachedAvailable(WorkerOf[c])
        /\ tx' = [tx EXCEPT ![c] = [Idle EXCEPT !.at = "approved",
                                                !.tok = t, !.amount = x]]
        /\ UNCHANGED denial
     \/ /\ x > CachedAvailable(WorkerOf[c])
        /\ denial' = [denial EXCEPT ![c] = [at |-> "spawned", tok |-> t,
                                            amount |-> x, available |-> 0]]
        /\ UNCHANGED tx
  /\ UNCHANGED <<db, lock, cache>>

\* grant_extension of what was approved; the pool is not looked at again.
Extend(c) ==
  LET t == tx[c].tok
      x == tx[c].amount
      new == [session EXCEPT !.committed = @ + x]
  IN /\ tx[c].at = "approved"
     /\ \/ /\ row[t].status = "active"
           /\ LockSession(c)
           /\ Stage(c, new,
                    [row EXCEPT ![t].ceiling = @ + x, ![t].extensions = @ + x],
                    "extended", t, x, 0)
        \/ /\ row[t].status = "settled"
           /\ lock = {}
           /\ tx' = [tx EXCEPT ![c] = Idle]
           /\ UNCHANGED <<lock, cache>>
     /\ UNCHANGED <<db, denial>>

\* Mutant: the session row is updated in a transaction of its own.
CommitSessionOnly(c) ==
  /\ tx[c].at = "staged"
  /\ session' = tx[c].session
  /\ row' = tx[c].row
  /\ UNCHANGED entries
  /\ lock' = lock \ {c}
  /\ tx' = [tx EXCEPT ![c] = Idle]
  /\ UNCHANGED <<cache, denial>>

\* Mutant: the lock outlives the transaction.
CommitKeepsLock(c) ==
  /\ tx[c].at = "staged"
  /\ session' = tx[c].session
  /\ row' = tx[c].row
  /\ entries' = entries \o tx[c].entry
  /\ tx' = [tx EXCEPT ![c] = Idle]
  /\ UNCHANGED <<lock, cache, denial>>

\* The end of the transaction.  The reply may be lost; nothing distinguishes
\* that in the database.
Commit(c) ==
  /\ tx[c].at = "staged"
  /\ session' = tx[c].session
  /\ row' = tx[c].row
  /\ entries' = entries \o tx[c].entry
  /\ lock' = lock \ {c}
  /\ tx' = [tx EXCEPT ![c] = Idle]
  /\ UNCHANGED <<cache, denial>>

\* The connection fails before the commit: the writes are gone, the cached
\* copy keeps them.
Rollback(c) ==
  /\ Faults
  /\ tx[c].at = "staged"
  /\ lock' = lock \ {c}
  /\ tx' = [tx EXCEPT ![c] = Idle]
  /\ UNCHANGED <<db, cache, denial>>

\* The process dies; a new one starts with a copy of the budget it is given and
\* no memory of the logs that were pending.
Crash(w) ==
  LET gone == {c \in Caller : WorkerOf[c] = w} IN
  /\ Faults
  /\ lock' = lock \ gone
  /\ tx' = [c \in Caller |-> IF c \in gone THEN Idle ELSE tx[c]]
  /\ denial' = [c \in Caller |-> IF c \in gone THEN NoLog ELSE denial[c]]
  /\ cache' = [cache EXCEPT ![w] = Opening]
  /\ UNCHANGED db

\* refresh and snapshot read the row without the lock.  The number of
\* allocations there were is kept for SnapshotMissesNoToken.
Fetch(c) ==
  /\ tx[c].at = "idle"
  /\ tx' = [tx EXCEPT ![c].at = "fetched", ![c].session = session,
                      ![c].tok = Len(row)]
  /\ UNCHANGED <<db, lock, cache, denial>>

\* The copy is stored when the reply arrives, whatever has happened to it
\* since.  That is all of a refresh; a snapshot goes on to count the tokens.
Store(c) ==
  /\ tx[c].at = "fetched"
  /\ cache' = [cache EXCEPT ![WorkerOf[c]] = tx[c].session]
  /\ \/ tx' = [tx EXCEPT ![c] = Idle]
     \/ tx' = [tx EXCEPT ![c] = [Idle EXCEPT !.at = "counting",
                                             !.tok = tx[c].tok]]
  /\ UNCHANGED <<db, lock, denial>>

Active == {t \in DOMAIN row : row[t].status = "active"}
Settled == DOMAIN row \ Active

\* Mutant: the settled tokens are counted first.
CountedBySwapped(at) == IF at = "counting" THEN Settled ELSE Active

\* What the two queries of snapshot count, each in a statement of its own.
CountedBy(at) == IF at = "counting" THEN Active ELSE Settled

Count(c) ==
  /\ tx[c].at = "counting"
  /\ tx' = [tx EXCEPT ![c].at = "counted",
                      ![c].amount = Cardinality(CountedBy("counting"))]
  /\ UNCHANGED <<db, lock, cache, denial>>

\* The second count completes the snapshot, which is returned.
CountRest(c) ==
  /\ tx[c].at = "counted"
  /\ tx' = [tx EXCEPT ![c] = Idle]
  /\ UNCHANGED <<db, lock, cache, denial>>

\* The background task of record_extension_denial: it reads the balance and
\* inserts its row without holding the lock, so others may commit in between;
\* the foreign key makes the insert wait for a session row that is locked.
ReadForLog(c) ==
  /\ denial[c].at = "spawned"
  /\ denial' = [denial EXCEPT ![c].at = "read", ![c].available = Available]
  /\ UNCHANGED <<db, lock, tx, cache>>

LogDenial(c) ==
  /\ denial[c].at = "read" /\ lock = {}
  /\ denial' = [denial EXCEPT ![c] = NoLog]
  /\ entries' = Append(entries, [event |-> "refused", token |-> denial[c].tok,
                                 amount |-> denial[c].amount, yielded |-> 0,
                                 available |-> denial[c].available])
  /\ UNCHANGED <<session, row, lock, tx, cache>>

Reading == {"fetched", "counting", "counted"}
Pending == {c \in Caller : tx[c].at \notin {"idle"} \cup Reading}
Logging == {c \in Caller : denial[c].at # "none"}

\* A new request of caller c; at most one denial log per caller is pending.
Request(c) ==
  \/ \E x \in Amount : Allocate(c, x) \/ AllocateDenied(c, x)
  \/ \E t \in DOMAIN row, s \in Spend : Settle(c, t, s)
  \/ c \notin Logging /\ \E t \in DOMAIN row, x \in Amount : Ask(c, t, x)

\* What a caller does besides making requests.
Proceed(c) ==
  \/ Fetch(c) \/ Store(c) \/ Count(c) \/ CountRest(c)
  \/ RaiseDenied(c) \/ Extend(c) \/ Commit(c) \/ Rollback(c)
  \/ ReadForLog(c) \/ LogDenial(c)

PgNext ==
  \/ \E c \in Caller : Request(c) \/ Proceed(c)
  \/ \E w \in Worker : Crash(w)

PgSpec == PgInit /\ [][PgNext]_pgVars

\* What is under way still has room for its audit rows.
Room == Len(entries) + Cardinality(Pending) + Cardinality(Logging) < MaxEntries

\* For model checking: as many requests as the audit trail has room for.
PgBoundedNext ==
  \/ \E c \in Caller : (Room /\ Request(c)) \/ Proceed(c)
  \/ \E w \in Worker : Crash(w)

PgBoundedSpec == PgInit /\ [][PgBoundedNext]_pgVars

-----------------------------------------------------------------------------
Place == {"idle", "approved", "staged", "denied"} \cup Reading

(* The types of the tables and of every worker's memory; only a transaction  *)
(* that has written holds the lock.                                          *)
PgTypeOK ==
  /\ session \in Balance
  /\ row \in Seq(Row) /\ entries \in Seq(Entry)
  /\ lock = {c \in Caller : tx[c].at \in {"staged", "denied"}}
  /\ cache \in [Worker -> Balance]
  /\ \A c \in Caller : /\ tx[c].at \in Place
                       /\ tx[c].row \in Seq(Row)
                       /\ denial[c].at \in {"none", "spawned", "read"}

(* The session row is at all times the sum of the allocation rows, through   *)
(* concurrent workers, failed commits and crashes: no update is lost and     *)
(* none is applied twice.                                                    *)
PgConservation ==
  /\ session.committed
       = SumOver([t \in DOMAIN row |-> row[t].ceiling], Active)
  /\ session.spent
       = SumOver([t \in DOMAIN row |-> row[t].spent], Settled)

PgEffect(e) ==
  CASE e.event \in {"granted", "extended"} -> -e.amount
    [] e.event = "released" -> e.yielded

\* The rows of the transactions; the others are those of refused loans.
Booked == {i \in DOMAIN entries : entries[i].event # "refused"}

\* Row j is the last booked one before place i; 0 is the opening.
Precedes(j, i) ==
  /\ j \in Booked \cup {0} /\ j < i
  /\ \A k \in Booked : k <= j \/ i <= k

LeftBy(j) == IF j = 0 THEN TotalBudget ELSE entries[j].available

(* The audit rows replay to the balance of the session row, in the order     *)
(* their transactions committed, whichever workers wrote them; only the rows *)
(* of refused loans, written without the lock, can carry an older balance.   *)
PgAuditReplays ==
  /\ \A i \in Booked :
       \E j \in 0 .. Len(entries) :
         Precedes(j, i) /\ entries[i].available = LeftBy(j) + PgEffect(entries[i])
  /\ \E j \in 0 .. Len(entries) :
       Precedes(j, Len(entries) + 1) /\ Available = LeftBy(j)

PgClaims == [t \in DOMAIN row |-> [ceiling |-> row[t].ceiling,
                                   spent   |-> row[t].spent,
                                   open    |-> t \in Active]]

CH == INSTANCE Clearinghouse WITH Pool <- TotalBudget, claim <- PgClaims

(* A snapshot is three statements, between which other workers commit.  It   *)
(* may count a token twice, but it never misses one that existed when it     *)
(* began: what is active when the active ones are counted, or was settled    *)
(* before, is in one of the two counts.                                      *)
SnapshotMissesNoToken ==
  [][\A c \in Caller :
       CountRest(c) =>
         tx[c].tok <= tx[c].amount + Cardinality(CountedBy("counted"))]_pgVars

(* The database implements the same clearinghouse as the in-memory treasury: *)
(* each commit is one step of it, and no allocation is granted on money that *)
(* another worker has just taken.                                            *)
PgImplementsClearinghouse == CH!Spec

(* What postgres.py documents: concurrent workers cannot oversubscribe the   *)
(* shared pool.                                                              *)
PgNeverOversubscribed == Available >= 0

(* What core/treasury.py documents of the audit trail both backends share:   *)
(* every treasury operation has its entry, a denied allocation too.          *)
DenialsAreRecorded ==
  [][\A c \in Caller :
       tx[c].at = "denied" /\ tx'[c].at = "idle"
         => Len(entries') = Len(entries) + 1]_pgVars
=============================================================================
