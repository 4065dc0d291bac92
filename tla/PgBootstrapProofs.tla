-------------------------- MODULE PgBootstrapProofs --------------------------
(* The start of a session for every number of workers and callers, every     *)
(* pool size and every assignment of budgets, with and without faults.       *)
(*                                                                           *)
(* The invariant ties each lock and connection to the place of the attempt   *)
(* that holds it (HoldersMatch).  Only with that does it follow that nobody  *)
(* creates tables between another's look and creation, and that nobody       *)
(* changes the session row a transaction has computed its grant from.        *)
EXTENDS PgBootstrap, MoneyProofs

Advised == {"look", "create", "unlock"}
Locked == {"commit", "deny"}
OnConnection == {"advise", "query", "insert"} \cup Advised \cup Locked
Waiting == {"prepare", "connectFirst", "connect"}
Passed == {"connect", "query", "insert"} \cup Locked   \* _ensure_ready is done

SessionRow == [exists : BOOLEAN, budget : Nat, committed : Nat]

Outcome == {"none", "granted", "denied", "read", "DatabaseError",
            "DuplicateTableError", "UndefinedTableError", "ValueError"}

Attempt == [pc : {"idle"} \cup Waiting \cup OnConnection,
            left : 0 .. Attempts, seen : BOOLEAN, view : SessionRow,
            outcome : Outcome, granted : Nat]

StateOK ==
  /\ attempt \in [Caller -> Attempt]
  /\ ready \in [Worker -> BOOLEAN] /\ tables \in BOOLEAN
  /\ readyLock \in [Worker -> Caller \cup {Nobody}]
  /\ session \in SessionRow
  /\ connected \subseteq Caller
  /\ \A w \in Worker :
       Cardinality({c \in connected : WorkerOf[c] = w}) <= PoolSize

\* Connections and database locks are held exactly where the code says.
HoldersMatch ==
  /\ {advisory, rowLock} \subseteq Caller \cup {Nobody}
  /\ \A c \in Caller :
       /\ c \in connected <=> attempt[c].pc \in OnConnection
       /\ advisory = c <=> attempt[c].pc \in Advised
       /\ rowLock = c <=> attempt[c].pc \in Locked

\* What is known of the tables, by place.
SchemaSound ==
  /\ \A w \in Worker : ready[w] /\ CreateTables[w] => tables
  /\ \A c \in Caller :
       /\ attempt[c].pc = "create" /\ ~attempt[c].seen => ~tables
       /\ attempt[c].pc = "unlock" => tables
       /\ attempt[c].pc \in Passed /\ CreateTables[WorkerOf[c]] => tables

\* What a transaction is about to commit, compared with the row as it is.
GrantsSound ==
  /\ session.committed <= session.budget
  /\ ~session.exists => session.committed = 0
  /\ \A c \in Caller :
       /\ attempt[c].pc = "insert" => Budget[WorkerOf[c]] # NoBudget
       /\ attempt[c].pc = "commit" =>
            /\ session.committed <= attempt[c].view.committed
            /\ attempt[c].view.committed <= attempt[c].view.budget
            /\ attempt[c].view.exists

BootInv == StateOK /\ HoldersMatch /\ SchemaSound /\ GrantsSound
-----------------------------------------------------------------------------
LEMMA NobodyCalls == Nobody \notin Caller /\ \A c \in Caller : WorkerOf[c] \in Worker
BY BootstrapAssumption

LEMMA Places ==
  /\ Waiting \cap OnConnection = {} /\ "idle" \notin Waiting \cup OnConnection
  /\ Advised \subseteq OnConnection /\ Locked \subseteq OnConnection
  /\ Advised \cap Locked = {}
BY DEF Waiting, OnConnection, Advised, Locked

\* The attempt of caller c goes to a place, and changes little else.
Moved(c, place) ==
  /\ attempt' \in [Caller -> Attempt]
  /\ attempt'[c].pc = place
  /\ attempt'[c].outcome = attempt[c].outcome
  /\ attempt'[c].granted = attempt[c].granted
  /\ \A d \in Caller \ {c} : attempt'[d] = attempt[d]

LEMMA GotoMoves ==
  ASSUME StateOK, NEW c \in Caller,
         NEW place \in {"idle"} \cup Waiting \cup OnConnection, Goto(c, place)
  PROVE  /\ Moved(c, place)
         /\ attempt'[c].seen = attempt[c].seen /\ attempt'[c].view = attempt[c].view
BY DEF StateOK, Goto, Moved, Attempt

LEMMA Fresh == NoSession \in SessionRow /\ NewAttempt \in Attempt
               /\ NewAttempt.pc = "idle" /\ NewAttempt.granted = 0
BY BootstrapAssumption
   DEF NoSession, SessionRow, NewAttempt, Attempt, Outcome

\* An attempt ends, and whatever it held is free.
Finished(c, outcome, granted) ==
  /\ attempt' \in [Caller -> Attempt]
  /\ attempt'[c].pc = "idle" /\ attempt'[c].outcome = outcome
  /\ attempt'[c].granted = attempt[c].granted + granted
  /\ \A d \in Caller \ {c} : attempt'[d] = attempt[d]

LEMMA FinishFinishes ==
  ASSUME StateOK, NEW c \in Caller, NEW outcome \in Outcome, NEW granted \in Nat,
         Finish(c, outcome, granted)
  PROVE  /\ Finished(c, outcome, granted)
         /\ connected' = connected \ {c}
         /\ readyLock' \in [Worker -> Caller \cup {Nobody}]
         /\ advisory' = IF advisory = c THEN Nobody ELSE advisory
         /\ rowLock' = IF rowLock = c THEN Nobody ELSE rowLock
<1> DEFINE r == [NewAttempt EXCEPT !.left = attempt[c].left, !.outcome = outcome,
                                   !.granted = attempt[c].granted + granted]
<1>1. attempt[c].left \in 0 .. Attempts /\ attempt[c].granted + granted \in Nat
  BY DEF StateOK, Attempt
<1>2. /\ r \in Attempt /\ r.pc = "idle" /\ r.outcome = outcome
      /\ r.granted = attempt[c].granted + granted
  BY <1>1, Fresh DEF Attempt
<1>3. attempt' = [attempt EXCEPT ![c] = r]
  BY DEF Finish
<1> HIDE DEF r
<1>4. Finished(c, outcome, granted)
  BY <1>2, <1>3 DEF StateOK, Finished
<1>5. readyLock' \in [Worker -> Caller \cup {Nobody}]
  BY DEF Finish, StateOK
<1> QED  BY <1>4, <1>5 DEF Finish
-----------------------------------------------------------------------------
\* A step of caller c to a place keeps BootInv if it does this much.
HoldsThere(held, holder, c) ==
  IF held THEN c ELSE IF holder = c THEN Nobody ELSE holder

SoundStep(c, place) ==
  /\ place \in {"idle"} \cup Waiting \cup OnConnection
  /\ attempt' \in [Caller -> Attempt] /\ attempt'[c].pc = place
  /\ \A d \in Caller \ {c} : attempt'[d] = attempt[d]
  /\ ready' \in [Worker -> BOOLEAN]
  /\ readyLock' \in [Worker -> Caller \cup {Nobody}]
  /\ connected' = IF place \in OnConnection THEN connected \cup {c}
                                            ELSE connected \ {c}
  /\ place \in OnConnection => c \in connected \/ PoolHasRoom(c)
  /\ advisory' = HoldsThere(place \in Advised, advisory, c)
  /\ place \in Advised => advisory \in {c, Nobody}
  /\ rowLock' = HoldsThere(place \in Locked, rowLock, c)
  /\ place \in Locked => rowLock \in {c, Nobody}
  /\ tables' = tables \/ (tables' = TRUE /\ attempt[c].pc = "create")
  /\ \A w \in Worker : ready'[w] /\ CreateTables[w] => tables'
  /\ place = "create" /\ ~attempt'[c].seen => ~tables'
  /\ place = "unlock" => tables'
  /\ place \in Passed /\ CreateTables[WorkerOf[c]] => tables'
  /\ session' \in SessionRow
  /\ \/ session' = session
     \/ attempt[c].pc = "commit" /\ session'.committed <= session'.budget
                                 /\ session'.exists
  /\ place = "insert" => Budget[WorkerOf[c]] # NoBudget
  /\ place = "commit" =>
       /\ session'.committed <= attempt'[c].view.committed
       /\ attempt'[c].view.committed <= attempt'[c].view.budget
       /\ attempt'[c].view.exists

LEMMA PoolStep ==
  ASSUME StateOK, NEW c \in Caller,
         \/ connected' \subseteq connected
         \/ connected' = connected \cup {c} /\ (c \in connected \/ PoolHasRoom(c))
  PROVE  /\ connected' \subseteq Caller
         /\ \A w \in Worker :
              Cardinality({d \in connected' : WorkerOf[d] = w}) <= PoolSize
<1>1. connected' \subseteq Caller
  BY DEF StateOK
<1>2. SUFFICES ASSUME NEW w \in Worker
               PROVE  Cardinality({d \in connected' : WorkerOf[d] = w}) <= PoolSize
  BY <1>1
<1> DEFINE old == {d \in connected : WorkerOf[d] = w}
           new == {d \in connected' : WorkerOf[d] = w}
<1>3. /\ IsFiniteSet(old) /\ Cardinality(old) \in Nat
      /\ Cardinality(old) <= PoolSize /\ PoolSize \in Nat
  <2>1. old \subseteq Caller /\ IsFiniteSet(Caller)
    BY BootstrapAssumption DEF StateOK
  <2>2. IsFiniteSet(old)
    BY <2>1, FS_Subset
  <2>3. Cardinality(old) <= PoolSize
    BY DEF StateOK
  <2> QED  BY <2>2, <2>3, FS_CardinalityType, BootstrapAssumption
<1>4. CASE new \subseteq old
  <2>1. Cardinality(new) <= Cardinality(old) /\ Cardinality(new) \in Nat
    BY <1>3, <1>4, FS_Subset, FS_CardinalityType
  <2> QED  BY <1>3, <2>1
<1>5. CASE ~(new \subseteq old)
  <2>1. new = old \cup {c} /\ c \notin old /\ WorkerOf[c] = w /\ PoolHasRoom(c)
    BY <1>5
  <2>2. Cardinality(old) < PoolSize
    BY <2>1 DEF PoolHasRoom
  <2> HIDE DEF old, new
  <2>3. Cardinality(new) = Cardinality(old) + 1
    BY <1>3, <2>1, FS_AddElement
  <2> QED  BY <1>3, <2>2, <2>3, BootstrapAssumption DEF new
<1> QED  BY <1>4, <1>5

LEMMA SoundStepKeepsInv ==
  ASSUME BootInv, NEW c \in Caller, NEW place, SoundStep(c, place)
  PROVE  BootInv'
<1>1. StateOK'
  <2>1. \/ connected' \subseteq connected
        \/ connected' = connected \cup {c} /\ (c \in connected \/ PoolHasRoom(c))
    BY DEF SoundStep
  <2>2. /\ connected' \subseteq Caller
        /\ \A w \in Worker :
             Cardinality({d \in connected' : WorkerOf[d] = w}) <= PoolSize
    BY <2>1, PoolStep DEF BootInv
  <2>3. tables' \in BOOLEAN
    BY DEF SoundStep, BootInv, StateOK
  <2> QED  BY <2>2, <2>3 DEF SoundStep, StateOK
<1>2. HoldersMatch'
  <2>1. {advisory', rowLock'} \subseteq Caller \cup {Nobody}
    BY DEF SoundStep, HoldsThere, BootInv, HoldersMatch
  <2>2. /\ c \in connected' <=> place \in OnConnection
        /\ advisory' = c <=> place \in Advised
        /\ rowLock' = c <=> place \in Locked
    BY NobodyCalls DEF SoundStep, HoldsThere
  <2>3. ASSUME NEW d \in Caller, d # c
        PROVE  /\ d \in connected' <=> d \in connected
               /\ advisory' = d <=> advisory = d
               /\ rowLock' = d <=> rowLock = d
               /\ attempt'[d] = attempt[d]
    BY <2>3, NobodyCalls DEF SoundStep, HoldsThere
  <2>4. attempt'[c].pc = place
    BY DEF SoundStep
  <2> QED  BY <2>1, <2>2, <2>3, <2>4 DEF BootInv, HoldersMatch
<1>3. SchemaSound'
  <2>1. ASSUME NEW d \in Caller, d # c
        PROVE  /\ attempt'[d].pc = "create" /\ ~attempt'[d].seen => ~tables'
               /\ attempt'[d].pc = "unlock" => tables'
               /\ attempt'[d].pc \in Passed /\ CreateTables[WorkerOf[d]] => tables'
    <3>1. attempt'[d] = attempt[d] /\ (tables => tables')
      BY <2>1 DEF SoundStep
    <3>2. attempt[d].pc = "create" => tables' = tables
      <4>1. attempt[d].pc = "create" => attempt[c].pc # "create"
        BY <2>1 DEF BootInv, HoldersMatch, Advised
      <4> QED  BY <4>1 DEF SoundStep
    <3> QED  BY <3>1, <3>2 DEF BootInv, SchemaSound
  <2> QED  BY <2>1 DEF SoundStep, SchemaSound
<1>4. GrantsSound'
  <2>1. /\ session'.committed <= session'.budget
        /\ ~session'.exists => session'.committed = 0
    BY DEF SoundStep, BootInv, GrantsSound
  <2>2. ASSUME NEW d \in Caller, d # c
        PROVE  /\ attempt'[d].pc = "insert" => Budget[WorkerOf[d]] # NoBudget
               /\ attempt'[d].pc = "commit" =>
                    /\ session'.committed <= attempt'[d].view.committed
                    /\ attempt'[d].view.committed <= attempt'[d].view.budget
                    /\ attempt'[d].view.exists
    <3>1. attempt'[d] = attempt[d]
      BY <2>2 DEF SoundStep
    <3>2. attempt[d].pc = "commit" => session' = session
      <4>1. attempt[d].pc = "commit" => attempt[c].pc # "commit"
        BY <2>2 DEF BootInv, HoldersMatch, Locked
      <4> QED  BY <4>1 DEF SoundStep
    <3> QED  BY <3>1, <3>2 DEF BootInv, GrantsSound
  <2> QED  BY <2>1, <2>2 DEF SoundStep, GrantsSound
<1> QED  BY <1>1, <1>2, <1>3, <1>4 DEF BootInv
-----------------------------------------------------------------------------
\* What the steps that only move an attempt have in common.
LEMMA MovesSoundly ==
  ASSUME BootInv, NEW c \in Caller,
         NEW place \in {"idle"} \cup Waiting \cup OnConnection,
         attempt' \in [Caller -> Attempt], attempt'[c].pc = place,
         \A d \in Caller \ {c} : attempt'[d] = attempt[d],
         connected' = connected, advisory' = advisory, rowLock' = rowLock,
         readyLock' \in [Worker -> Caller \cup {Nobody}],
         ready' = ready, tables' = tables, session' = session,
         attempt[c].pc \in OnConnection <=> place \in OnConnection,
         attempt[c].pc \in Advised <=> place \in Advised,
         attempt[c].pc \in Locked <=> place \in Locked,
         place = "create" /\ ~attempt'[c].seen => ~tables,
         place # "unlock", place # "commit",
         place \in Passed /\ CreateTables[WorkerOf[c]] => tables,
         place = "insert" => Budget[WorkerOf[c]] # NoBudget
  PROVE  SoundStep(c, place)
<1>1. /\ c \in connected <=> place \in OnConnection
      /\ advisory = c <=> place \in Advised
      /\ rowLock = c <=> place \in Locked
  BY DEF BootInv, HoldersMatch
<1>2. /\ connected' = IF place \in OnConnection THEN connected \cup {c}
                                                ELSE connected \ {c}
      /\ advisory' = HoldsThere(place \in Advised, advisory, c)
      /\ rowLock' = HoldsThere(place \in Locked, rowLock, c)
  BY <1>1 DEF HoldsThere
<1> QED  BY <1>1, <1>2 DEF SoundStep, BootInv, StateOK, SchemaSound

\* Whatever ends an attempt gives everything back.
LEMMA FinishSound ==
  ASSUME BootInv, NEW c \in Caller, NEW outcome \in Outcome, NEW granted \in Nat,
         Finish(c, outcome, granted), ready' = ready, tables' = tables,
         session' \in SessionRow,
         \/ session' = session
         \/ attempt[c].pc = "commit" /\ session'.committed <= session'.budget
                                     /\ session'.exists
  PROVE  SoundStep(c, "idle") /\ Finished(c, outcome, granted)
<1>1. /\ Finished(c, outcome, granted)
      /\ connected' = connected \ {c}
      /\ readyLock' \in [Worker -> Caller \cup {Nobody}]
      /\ advisory' = IF advisory = c THEN Nobody ELSE advisory
      /\ rowLock' = IF rowLock = c THEN Nobody ELSE rowLock
  BY FinishFinishes DEF BootInv
<1>2. "idle" \notin OnConnection \cup Advised \cup Locked \cup Passed
  BY DEF OnConnection, Advised, Locked, Passed
<1> QED
  BY <1>1, <1>2 DEF SoundStep, Finished, HoldsThere, BootInv, StateOK, SchemaSound

LEMMA StartSound ==
  ASSUME BootInv, NEW c \in Caller, Start(c)
  PROVE  \E place : SoundStep(c, place) /\ Moved(c, place)
<1> DEFINE w == WorkerOf[c]
           done == ready[w] \/ ~CreateTables[w]
           place == IF done THEN "connect" ELSE "prepare"
           r == [attempt[c] EXCEPT !.pc = place, !.left = @ - 1]
<1>1. attempt[c] \in Attempt /\ attempt[c].left - 1 \in 0 .. Attempts
  BY BootstrapAssumption DEF Start, BootInv, StateOK, Attempt
<1>2. place \in {"prepare", "connect"} /\ done \in BOOLEAN /\ w \in Worker
  BY NobodyCalls
<1>3. /\ r \in Attempt /\ r.pc = place /\ r.outcome = attempt[c].outcome
      /\ r.granted = attempt[c].granted
  BY <1>1, <1>2 DEF Attempt, Waiting
<1>4. attempt' = [attempt EXCEPT ![c] = r]
  BY DEF Start, At
<1>5. Moved(c, place)
  <2> HIDE DEF r, place
  <2> QED  BY <1>3, <1>4 DEF BootInv, StateOK, Moved
<1>6. ready' \in [Worker -> BOOLEAN] /\ \A v \in Worker : ready'[v] /\ CreateTables[v] => tables'
  BY <1>2 DEF Start, BootInv, StateOK, SchemaSound
<1>7. place \in Passed /\ CreateTables[w] => tables
  BY <1>2 DEF BootInv, SchemaSound, Passed, Locked
<1>8. /\ c \notin connected /\ advisory # c /\ rowLock # c
      /\ place \notin OnConnection \cup Advised \cup Locked
  BY <1>2 DEF Start, At, BootInv, HoldersMatch, OnConnection, Advised, Locked
<1>9. /\ UNCHANGED <<readyLock, connected, advisory, tables, session, rowLock>>
      /\ readyLock' \in [Worker -> Caller \cup {Nobody}] /\ session' \in SessionRow
  BY DEF Start, BootInv, StateOK
<1> HIDE DEF r, done
<1> QED
  BY <1>2, <1>5, <1>6, <1>7, <1>8, <1>9 DEF SoundStep, Moved, HoldsThere, Waiting

LEMMA LockReadySound ==
  ASSUME BootInv, NEW c \in Caller, LockReady(c)
  PROVE  \E place : SoundStep(c, place) /\ Moved(c, place)
<1>1. PICK place \in {"connect", "connectFirst"} :
        /\ Goto(c, place)
        /\ place = "connect" => ready[WorkerOf[c]]
  BY DEF LockReady
<1>2. Moved(c, place)
  BY <1>1, GotoMoves DEF BootInv, Waiting
<1>3. readyLock' \in [Worker -> Caller \cup {Nobody}]
  BY DEF LockReady, BootInv, StateOK
<1>4. attempt[c].pc = "prepare"
      /\ UNCHANGED <<ready, connected, advisory, tables, session, rowLock>>
  BY DEF LockReady, At
<1>5. place \in Passed /\ CreateTables[WorkerOf[c]] => tables
  BY <1>1, NobodyCalls DEF BootInv, SchemaSound, Passed, Locked
<1>6. /\ {"prepare", "connect", "connectFirst"} \cap OnConnection = {}
      /\ {"prepare", "connect", "connectFirst"} \subseteq Waiting
  BY DEF OnConnection, Advised, Locked, Waiting
<1>7. SoundStep(c, place)
  BY <1>1, <1>2, <1>3, <1>4, <1>5, <1>6, Places, MovesSoundly DEF Moved
<1> QED  BY <1>2, <1>7

LEMMA ConnectSound ==
  ASSUME BootInv, NEW c \in Caller, Connect(c)
  PROVE  \E place : SoundStep(c, place) /\ Moved(c, place)
<1>1. PICK place \in {"advise", "query"} :
        /\ Goto(c, place)
        /\ attempt[c].pc = IF place = "advise" THEN "connectFirst" ELSE "connect"
  BY DEF Connect, At
<1>2. Moved(c, place)
  BY <1>1, GotoMoves DEF BootInv, OnConnection
<1>3. place \in OnConnection /\ place \notin Advised \cup Locked
  BY <1>1 DEF OnConnection, Advised, Locked
<1>4. advisory # c /\ rowLock # c
  BY <1>1 DEF BootInv, HoldersMatch, Advised, Locked
<1>5. place \in Passed /\ CreateTables[WorkerOf[c]] => tables
  BY <1>1 DEF BootInv, SchemaSound, Passed, Locked
<1>6. PoolHasRoom(c) /\ connected' = connected \cup {c}
      /\ UNCHANGED <<ready, readyLock, advisory, tables, session, rowLock>>
  BY DEF Connect
<1>7. SoundStep(c, place)
  BY <1>1, <1>2, <1>3, <1>4, <1>5, <1>6
  DEF SoundStep, Moved, HoldsThere, BootInv, StateOK, SchemaSound
<1> QED  BY <1>2, <1>7

LEMMA AdviseSound ==
  ASSUME BootInv, NEW c \in Caller, Advise(c)
  PROVE  SoundStep(c, "look") /\ Moved(c, "look")
<1>1. Moved(c, "look")
  BY GotoMoves DEF Advise, BootInv, OnConnection, Advised
<1>2. /\ "look" \in OnConnection \cap Advised
      /\ "look" \notin Locked \cup Passed
  BY DEF OnConnection, Advised, Locked, Passed
<1>3. c \in connected /\ rowLock # c
  BY DEF Advise, At, BootInv, HoldersMatch, OnConnection, Locked
<1>4. connected' = connected \cup {c}
  BY <1>3 DEF Advise
<1> QED
  BY <1>1, <1>2, <1>3, <1>4
  DEF Advise, SoundStep, Moved, HoldsThere, BootInv, StateOK, SchemaSound

LEMMA LookSound ==
  ASSUME BootInv, NEW c \in Caller, LookForTables(c)
  PROVE  SoundStep(c, "create") /\ Moved(c, "create")
<1> DEFINE r == [attempt[c] EXCEPT !.pc = "create", !.seen = tables]
<1>1. attempt[c] \in Attempt /\ tables \in BOOLEAN
  BY DEF BootInv, StateOK
<1>2. /\ r \in Attempt /\ r.pc = "create" /\ r.seen = tables
      /\ r.outcome = attempt[c].outcome /\ r.granted = attempt[c].granted
  BY <1>1 DEF Attempt, OnConnection, Advised
<1>3. attempt' = [attempt EXCEPT ![c] = r]
  BY DEF LookForTables
<1> HIDE DEF r
<1>4. Moved(c, "create") /\ attempt'[c].seen = tables
  BY <1>2, <1>3 DEF BootInv, StateOK, Moved
<1>5. /\ {"look", "create"} \subseteq OnConnection \cap Advised
      /\ {"look", "create"} \cap (Locked \cup Passed) = {}
  BY DEF OnConnection, Advised, Locked, Passed
<1>6. SoundStep(c, "create")
  BY <1>4, <1>5, MovesSoundly DEF LookForTables, At, Moved, BootInv, StateOK
<1> QED  BY <1>4, <1>6

\* The catalog never refuses a creation: nobody else has created the tables
\* since the look.
LEMMA MakeTablesSound ==
  ASSUME BootInv, NEW c \in Caller, MakeTables(c)
  PROVE  SoundStep(c, "unlock") /\ Moved(c, "unlock")
<1>1. ~(tables /\ ~attempt[c].seen)
  BY DEF MakeTables, At, BootInv, SchemaSound
<1>2. /\ tables' = TRUE /\ Goto(c, "unlock") /\ attempt[c].pc = "create"
      /\ UNCHANGED <<readyLock, connected, advisory, rowLock, ready, session>>
  BY <1>1 DEF MakeTables, At
<1>3. /\ "unlock" \in OnConnection \cap Advised
      /\ "unlock" \notin Locked \cup Passed
      /\ "create" \in OnConnection \cap Advised /\ "create" \notin Locked
  BY DEF OnConnection, Advised, Locked, Passed
<1>4. Moved(c, "unlock")
  BY <1>2, <1>3, GotoMoves DEF BootInv
<1>5. c \in connected /\ advisory = c /\ rowLock # c
  BY <1>2, <1>3 DEF BootInv, HoldersMatch
<1>6. connected' = connected \cup {c}
  BY <1>2, <1>5
<1> QED
  BY <1>2, <1>3, <1>4, <1>5, <1>6
  DEF SoundStep, Moved, HoldsThere, BootInv, StateOK, SchemaSound

LEMMA UnlockSound ==
  ASSUME BootInv, NEW c \in Caller, Unlock(c)
  PROVE  SoundStep(c, "connect") /\ Moved(c, "connect")
<1> DEFINE r == [attempt[c] EXCEPT !.pc = "connect", !.seen = FALSE]
<1>1. attempt[c] \in Attempt
  BY DEF BootInv, StateOK
<1>2. /\ r \in Attempt /\ r.pc = "connect"
      /\ r.outcome = attempt[c].outcome /\ r.granted = attempt[c].granted
  BY <1>1 DEF Attempt, Waiting
<1>3. attempt' = [attempt EXCEPT ![c] = r]
  BY DEF Unlock
<1> HIDE DEF r
<1>4. Moved(c, "connect")
  BY <1>2, <1>3 DEF BootInv, StateOK, Moved
<1>5. "connect" \in Waiting /\ "connect" \notin OnConnection \cup Advised \cup Locked
  BY DEF OnConnection, Advised, Locked, Waiting
<1>6. tables /\ tables' = tables /\ rowLock # c
  BY DEF Unlock, At, BootInv, SchemaSound, HoldersMatch, Locked
<1>7. /\ ready' \in [Worker -> BOOLEAN]
      /\ readyLock' \in [Worker -> Caller \cup {Nobody}]
  BY DEF Unlock, BootInv, StateOK
<1> QED
  BY <1>4, <1>5, <1>6, <1>7
  DEF Unlock, SoundStep, Moved, HoldsThere, BootInv, StateOK

LEMMA MissRowSound ==
  ASSUME BootInv, NEW c \in Caller, MissRow(c)
  PROVE  SoundStep(c, "insert") /\ Moved(c, "insert")
<1>1. /\ {"query", "insert"} \subseteq OnConnection
      /\ {"query", "insert"} \cap (Advised \cup Locked) = {}
  BY DEF OnConnection, Advised, Locked
<1>2. Moved(c, "insert")
  BY <1>1, GotoMoves DEF MissRow, BootInv
<1>3. tables /\ Budget[WorkerOf[c]] # NoBudget
  BY DEF MissRow, Failing, BootInv, StateOK
<1> QED
  BY <1>1, <1>2, <1>3, MovesSoundly
  DEF MissRow, At, Moved, BootInv, StateOK

\* The transaction that locks the row computes its grant from the row.
LEMMA DecideSound ==
  ASSUME BootInv, NEW c \in Caller, NEW found \in SessionRow, Decide(c, found),
         attempt[c].pc \in {"query", "insert"},
         found.committed <= found.budget, session.committed <= found.committed,
         found.exists, tables \/ ~CreateTables[WorkerOf[c]],
         rowLock = Nobody, rowLock' = c,
         UNCHANGED <<ready, readyLock, connected, advisory, tables, session>>
  PROVE  \E place : SoundStep(c, place) /\ Moved(c, place)
<1>1. PICK x \in Amount :
        LET available == found.budget - found.committed
            fits == available > 0 /\ x <= available
        IN attempt' = [attempt EXCEPT
          ![c].pc = IF fits THEN "commit" ELSE "deny",
          ![c].view = IF fits THEN [found EXCEPT !.committed = @ + x] ELSE found]
  BY DEF Decide
<1> DEFINE available == found.budget - found.committed
           fits == available > 0 /\ x <= available
           place == IF fits THEN "commit" ELSE "deny"
           view == IF fits THEN [found EXCEPT !.committed = @ + x] ELSE found
           r == [attempt[c] EXCEPT !.pc = place, !.view = view]
<1>2. x \in Nat /\ found.committed \in Nat /\ found.budget \in Nat
  BY BootstrapAssumption DEF SessionRow
<1>3. view \in SessionRow
  <2>1. \A n \in Nat : [found EXCEPT !.committed = n] \in SessionRow
    BY DEF SessionRow
  <2>2. found.committed + x \in Nat
    BY <1>2
  <2> HIDE DEF fits, available
  <2> QED  BY <2>1, <2>2
<1>4. fits => /\ view.exists /\ view.budget = found.budget
              /\ view.committed = found.committed + x
  BY DEF SessionRow
<1>5. place = "commit" => /\ session.committed <= view.committed
                          /\ view.committed <= view.budget
                          /\ view.exists
  <2>1. session.committed \in Nat
    BY DEF BootInv, StateOK, SessionRow
  <2> QED  BY <1>2, <1>4, <2>1
<1>6. place \in Locked /\ place \in OnConnection /\ place \notin Advised
      /\ place \notin {"create", "unlock", "insert"}
  BY DEF Locked, OnConnection, Advised
<1> HIDE DEF place, view, fits
<1>7. /\ r \in Attempt /\ r.pc = place /\ r.view = view
      /\ r.outcome = attempt[c].outcome /\ r.granted = attempt[c].granted
  <2>1. attempt[c] \in Attempt
    BY DEF BootInv, StateOK
  <2> QED  BY <1>3, <1>6, <2>1 DEF Attempt
<1>8. attempt' = [attempt EXCEPT ![c] = r]
  BY <1>1 DEF place, view, fits
<1> HIDE DEF r
<1>9. Moved(c, place) /\ attempt'[c].view = view
  BY <1>7, <1>8 DEF BootInv, StateOK, Moved
<1>10. c \in connected /\ advisory # c
  BY DEF BootInv, HoldersMatch, OnConnection, Advised
<1>11. connected' = connected \cup {c}
  BY <1>10
<1>12. SoundStep(c, place)
  BY <1>5, <1>6, <1>9, <1>10, <1>11
  DEF SoundStep, Moved, HoldsThere, BootInv, StateOK, SchemaSound
<1> QED  BY <1>9, <1>12

LEMMA LockRowSound ==
  ASSUME BootInv, NEW c \in Caller, LockRow(c)
  PROVE  \E place : SoundStep(c, place) /\ Moved(c, place)
<1>1. tables
  BY DEF LockRow, Failing, BootInv, StateOK
<1>2. session \in SessionRow /\ session.committed \in Nat
      /\ session.committed <= session.budget
  BY DEF BootInv, StateOK, GrantsSound, SessionRow
<1> QED  BY <1>1, <1>2, DecideSound DEF LockRow, At

LEMMA InsertRowSound ==
  ASSUME BootInv, NEW c \in Caller, InsertRow(c)
  PROVE  \E place : SoundStep(c, place) /\ Moved(c, place)
<1> DEFINE new == [exists |-> TRUE, budget |-> Budget[WorkerOf[c]], committed |-> 0]
           found == IF session.exists THEN session ELSE new
<1>1. attempt[c].pc = "insert"
  BY DEF InsertRow, At
<1>2. Budget[WorkerOf[c]] \in Nat
  BY <1>1, NobodyCalls, BootstrapAssumption DEF BootInv, GrantsSound
<1>3. new \in SessionRow /\ new.exists /\ new.committed = 0 /\ new.budget \in Nat
  BY <1>2 DEF SessionRow
<1>4. /\ session \in SessionRow /\ session.committed \in Nat
      /\ session.committed <= session.budget
      /\ ~session.exists => session.committed = 0
  BY DEF BootInv, StateOK, GrantsSound, SessionRow
<1>5. Decide(c, found) /\ rowLock = Nobody /\ rowLock' = c
      /\ UNCHANGED <<ready, readyLock, connected, advisory, tables, session>>
  BY DEF InsertRow
<1> HIDE DEF new
<1>6. /\ found \in SessionRow /\ found.exists
      /\ found.committed <= found.budget /\ session.committed <= found.committed
  BY <1>3, <1>4
<1>7. tables \/ ~CreateTables[WorkerOf[c]]
  BY <1>1 DEF BootInv, SchemaSound, Passed
<1> HIDE DEF found
<1> QED  BY <1>1, <1>5, <1>6, <1>7, DecideSound

\* An attempt that is over, with what it may be told and how much it was
\* granted.
EndsWith(c, outcome, granted) ==
  SoundStep(c, "idle") /\ Finished(c, outcome, granted)

LEMMA QueryFailsSound ==
  ASSUME BootInv, NEW c \in Caller, QueryFails(c)
  PROVE  \E outcome \in {"UndefinedTableError", "ValueError"} :
           /\ EndsWith(c, outcome, 0) /\ session' = session
           /\ outcome = "UndefinedTableError" => ~CreateTables[WorkerOf[c]]
           /\ outcome = "ValueError" => Budget[WorkerOf[c]] = NoBudget
<1>1. Failing(c) \in {"UndefinedTableError", "ValueError"}
      /\ (Failing(c) = "UndefinedTableError" => ~tables)
      /\ (Failing(c) = "ValueError" => Budget[WorkerOf[c]] = NoBudget)
  BY DEF QueryFails, Failing
<1>2. ~tables => ~CreateTables[WorkerOf[c]]
  BY DEF QueryFails, At, BootInv, SchemaSound, Passed
<1>3. EndsWith(c, Failing(c), 0) /\ session' = session
  <2>1. Finish(c, Failing(c), 0) /\ UNCHANGED <<ready, tables, session>>
        /\ Failing(c) \in Outcome /\ session \in SessionRow
    BY <1>1 DEF QueryFails, Outcome, BootInv, StateOK
  <2> HIDE DEF Failing
  <2> QED  BY <2>1, FinishSound DEF EndsWith
<1> QED  BY <1>1, <1>2, <1>3

LEMMA HarmlessEnd ==
  ASSUME BootInv, NEW c \in Caller,
         NEW outcome \in {"read", "denied", "DatabaseError"},
         Finish(c, outcome, 0), UNCHANGED <<ready, tables, session>>
  PROVE  EndsWith(c, outcome, 0)
<1>1. outcome \in Outcome /\ session \in SessionRow
  BY DEF Outcome, BootInv, StateOK
<1> QED  BY <1>1, FinishSound DEF EndsWith

LEMMA CommitSound ==
  ASSUME BootInv, NEW c \in Caller, End(c), attempt[c].pc = "commit"
  PROVE  /\ session' = attempt[c].view
         /\ \/ EndsWith(c, "granted", session'.committed - session.committed)
            \/ EndsWith(c, "DatabaseError", 0)
         /\ session'.committed - session.committed \in Nat
<1>1. /\ session' = attempt[c].view /\ UNCHANGED <<ready, tables>>
      /\ \/ Finish(c, "granted", session'.committed - session.committed)
         \/ Finish(c, "DatabaseError", 0)
  BY DEF End, At
<1>2. /\ session' \in SessionRow /\ session'.exists
      /\ session'.committed <= session'.budget
      /\ session.committed <= session'.committed
      /\ session.committed \in Nat /\ session'.committed \in Nat
  BY <1>1 DEF BootInv, StateOK, GrantsSound, Attempt, SessionRow
<1>3. session'.committed - session.committed \in Nat
  BY <1>2
<1>4. {"granted", "DatabaseError"} \subseteq Outcome /\ 0 \in Nat
  BY DEF Outcome
<1>5. CASE Finish(c, "granted", session'.committed - session.committed)
  <2> DEFINE gain == session'.committed - session.committed
  <2>1. gain \in Nat /\ Finish(c, "granted", gain)
    BY <1>3, <1>5
  <2> HIDE DEF gain
  <2>2. EndsWith(c, "granted", gain)
    BY <1>1, <1>2, <1>4, <2>1, FinishSound DEF EndsWith
  <2> QED  BY <1>1, <1>3, <2>2 DEF gain
<1>6. CASE Finish(c, "DatabaseError", 0)
  BY <1>1, <1>2, <1>3, <1>4, <1>6, FinishSound DEF EndsWith
<1> QED  BY <1>1, <1>5, <1>6
-----------------------------------------------------------------------------
\* A crash ends the attempts of one process, all at once.
LEMMA CrashKeepsInv ==
  ASSUME BootInv, NEW w \in Worker, Crash(w)
  PROVE  /\ BootInv' /\ session' = session
         /\ \A c \in Caller : /\ attempt'[c].granted = attempt[c].granted
                              /\ attempt'[c].outcome \in {"none", attempt[c].outcome}
<1> DEFINE gone == {c \in Caller : WorkerOf[c] = w}
           r(c) == [NewAttempt EXCEPT !.left = attempt[c].left,
                                      !.granted = attempt[c].granted]
<1>1. \A c \in Caller : /\ r(c) \in Attempt /\ r(c).pc = "idle"
                        /\ r(c).granted = attempt[c].granted
                        /\ r(c).outcome = "none"
  <2> TAKE c \in Caller
  <2>1. attempt[c].left \in 0 .. Attempts /\ attempt[c].granted \in Nat
    BY DEF BootInv, StateOK, Attempt
  <2>2. NewAttempt.outcome = "none"
    BY DEF NewAttempt
  <2> QED  BY <2>1, <2>2, Fresh DEF Attempt
<1>2. attempt' = [c \in Caller |-> IF c \in gone THEN r(c) ELSE attempt[c]]
  BY DEF Crash
<1> HIDE DEF r
<1>3. /\ attempt' \in [Caller -> Attempt]
      /\ \A c \in gone : /\ attempt'[c].pc = "idle"
                         /\ attempt'[c].granted = attempt[c].granted
                         /\ attempt'[c].outcome = "none"
      /\ \A c \in Caller \ gone : attempt'[c] = attempt[c]
  BY <1>1, <1>2 DEF BootInv, StateOK
<1>4. /\ connected' = connected \ gone
      /\ advisory' = IF advisory \in gone THEN Nobody ELSE advisory
      /\ rowLock' = IF rowLock \in gone THEN Nobody ELSE rowLock
      /\ ready' = [ready EXCEPT ![w] = FALSE]
      /\ readyLock' = [readyLock EXCEPT ![w] = Nobody]
      /\ UNCHANGED <<tables, session>>
  BY DEF Crash
<1>5. gone \subseteq Caller /\ Nobody \notin gone
  BY NobodyCalls
<1> HIDE DEF gone
<1>6. StateOK'
  <2>1. connected' \subseteq Caller
    BY <1>4 DEF BootInv, StateOK
  <2>2. ASSUME NEW v \in Worker
        PROVE  Cardinality({d \in connected' : WorkerOf[d] = v}) <= PoolSize
    <3> DEFINE old == {d \in connected : WorkerOf[d] = v}
               new == {d \in connected' : WorkerOf[d] = v}
    <3>1. IsFiniteSet(old) /\ Cardinality(old) <= PoolSize /\ new \subseteq old
      BY <1>4, FS_Subset, BootstrapAssumption DEF BootInv, StateOK
    <3>2. /\ Cardinality(new) <= Cardinality(old) /\ Cardinality(new) \in Nat
          /\ Cardinality(old) \in Nat /\ PoolSize \in Nat
      BY <3>1, FS_Subset, FS_CardinalityType, BootstrapAssumption
    <3> QED  BY <3>1, <3>2
  <2>3. /\ ready' \in [Worker -> BOOLEAN]
        /\ readyLock' \in [Worker -> Caller \cup {Nobody}]
    BY <1>4 DEF BootInv, StateOK
  <2> QED  BY <1>3, <1>4, <2>1, <2>2, <2>3 DEF BootInv, StateOK
<1>7. HoldersMatch'
  <2>1. {advisory', rowLock'} \subseteq Caller \cup {Nobody}
    BY <1>4 DEF BootInv, HoldersMatch
  <2>2. ASSUME NEW c \in gone
        PROVE  c \notin connected' /\ advisory' # c /\ rowLock' # c
    BY <1>4, <1>5
  <2>3. "idle" \notin OnConnection \cup Advised \cup Locked
    BY DEF OnConnection, Advised, Locked
  <2>4. ASSUME NEW c \in Caller \ gone
        PROVE  /\ c \in connected' <=> c \in connected
               /\ advisory' = c <=> advisory = c
               /\ rowLock' = c <=> rowLock = c
    BY <1>4, NobodyCalls
  <2> QED  BY <1>3, <2>1, <2>2, <2>3, <2>4 DEF BootInv, HoldersMatch
<1>8. SchemaSound'
  <2>1. \A v \in Worker : ready'[v] => ready[v]
    BY <1>4 DEF BootInv, StateOK
  <2>2. "idle" \notin Passed
    BY DEF Passed, Locked
  <2> QED  BY <1>3, <1>4, <2>1, <2>2 DEF BootInv, SchemaSound
<1>9. GrantsSound'
  BY <1>3, <1>4 DEF BootInv, GrantsSound
<1> QED  BY <1>3, <1>4, <1>6, <1>7, <1>8, <1>9 DEF BootInv
-----------------------------------------------------------------------------
\* The three things a step can do to one attempt.
Moves(c) == \E place : SoundStep(c, place) /\ Moved(c, place) /\ session' = session

EndsUngranted(c) ==
  \E outcome \in Outcome \ {"DuplicateTableError"} :
    /\ EndsWith(c, outcome, 0)
    /\ outcome = "UndefinedTableError" => ~CreateTables[WorkerOf[c]]
    /\ outcome = "ValueError" => Budget[WorkerOf[c]] = NoBudget
    /\ session.committed <= session'.committed

EndsGranted(c) ==
  /\ EndsWith(c, "granted", session'.committed - session.committed)
  /\ session'.committed - session.committed \in Nat

LEMMA StepKinds ==
  ASSUME BootInv, BootNext
  PROVE  \/ \E c \in Caller : Moves(c) \/ EndsUngranted(c) \/ EndsGranted(c)
         \/ \E w \in Worker : Crash(w)
<1>1. session.committed \in Nat
  BY DEF BootInv, StateOK, SessionRow
<1>2. {"read", "denied", "DatabaseError", "UndefinedTableError", "ValueError"}
        \subseteq Outcome \ {"DuplicateTableError"}
  BY DEF Outcome
<1>3. ASSUME NEW c \in Caller, NEW outcome \in {"read", "denied", "DatabaseError"},
             Finish(c, outcome, 0), UNCHANGED <<ready, tables, session>>
      PROVE  EndsUngranted(c)
  <2>1. EndsWith(c, outcome, 0)
    BY <1>3, HarmlessEnd
  <2> QED  BY <1>1, <1>2, <1>3, <2>1 DEF EndsUngranted
<1>4. ASSUME NEW c \in Caller, Waits(c)
      PROVE  Moves(c)
  <2>1. CASE LockReady(c)
    BY <2>1, LockReadySound DEF Moves, LockReady
  <2>2. CASE Connect(c)
    BY <2>2, ConnectSound DEF Moves, Connect
  <2>3. CASE Advise(c)
    BY <2>3, AdviseSound DEF Moves, Advise
  <2>4. CASE LockRow(c)
    BY <2>4, LockRowSound DEF Moves, LockRow
  <2>5. CASE InsertRow(c)
    BY <2>5, InsertRowSound DEF Moves, InsertRow
  <2> QED  BY <1>4, <2>1, <2>2, <2>3, <2>4, <2>5 DEF Waits
<1>5. ASSUME NEW c \in Caller, Goes(c)
      PROVE  Moves(c) \/ EndsUngranted(c) \/ EndsGranted(c)
  <2>1. CASE LookForTables(c)
    BY <2>1, LookSound DEF Moves, LookForTables
  <2>2. CASE MakeTables(c)
    BY <2>2, MakeTablesSound DEF Moves, MakeTables
  <2>3. CASE Unlock(c)
    BY <2>3, UnlockSound DEF Moves, Unlock
  <2>4. CASE QueryFails(c)
    BY <1>1, <1>2, <2>4, QueryFailsSound DEF EndsUngranted
  <2>5. CASE Snapshot(c)
    <3>1. Finish(c, "read", 0) /\ UNCHANGED <<ready, tables, session>>
      BY <2>5 DEF Snapshot
    <3> QED  BY <1>3, <3>1
  <2>6. CASE MissRow(c)
    BY <2>6, MissRowSound DEF Moves, MissRow
  <2>7. CASE End(c) /\ attempt[c].pc = "commit"
    <3>1. session'.committed - session.committed \in Nat
          /\ session.committed <= session'.committed
      <4>1. session'.committed \in Nat
        BY <2>7, CommitSound DEF BootInv, StateOK, Attempt, SessionRow
      <4> QED  BY <1>1, <2>7, <4>1, CommitSound
    <3> QED  BY <1>2, <2>7, <3>1, CommitSound DEF EndsGranted, EndsUngranted
  <2>8. CASE End(c) /\ attempt[c].pc # "commit"
    <3>1. Finish(c, "denied", 0) /\ UNCHANGED <<ready, tables, session>>
      BY <2>8 DEF End, At
    <3> QED  BY <1>3, <3>1
  <2> QED  BY <1>5, <2>1, <2>2, <2>3, <2>4, <2>5, <2>6, <2>7, <2>8 DEF Goes
<1>6. ASSUME NEW c \in Caller, Start(c)
      PROVE  Moves(c)
  BY <1>6, StartSound DEF Moves, Start
<1>7. ASSUME NEW c \in Caller, Disconnect(c)
      PROVE  EndsUngranted(c)
  <2>1. Finish(c, "DatabaseError", 0) /\ UNCHANGED <<ready, tables, session>>
    BY <1>7 DEF Disconnect
  <2> QED  BY <1>3, <2>1
<1> QED  BY <1>4, <1>5, <1>6, <1>7 DEF BootNext

LEMMA StepKeepsInv == BootInv /\ [BootNext]_bootVars => BootInv'
<1>1. ASSUME BootInv, BootNext PROVE BootInv'
  <2>1. CASE \E c \in Caller : Moves(c) \/ EndsUngranted(c) \/ EndsGranted(c)
    BY <1>1, <2>1, SoundStepKeepsInv
    DEF Moves, EndsUngranted, EndsGranted, EndsWith
  <2>2. CASE \E w \in Worker : Crash(w)
    BY <1>1, <2>2, CrashKeepsInv
  <2> QED  BY <1>1, <2>1, <2>2, StepKinds
<1>2. ASSUME BootInv, UNCHANGED bootVars PROVE BootInv'
  BY <1>2 DEF bootVars, BootInv, StateOK, HoldersMatch, SchemaSound, GrantsSound
<1> QED  BY <1>1, <1>2

LEMMA InitInv == BootInit => BootInv
<1> SUFFICES ASSUME BootInit PROVE BootInv
  OBVIOUS
<1>1. /\ attempt \in [Caller -> Attempt]
      /\ \A c \in Caller : attempt[c] = NewAttempt /\ attempt[c].pc = "idle"
  BY Fresh DEF BootInit
<1>2. StateOK
  <2>1. \A w \in Worker : Cardinality({d \in connected : WorkerOf[d] = w}) <= PoolSize
    <3>1. ASSUME NEW w \in Worker
          PROVE  {d \in connected : WorkerOf[d] = w} = {}
      BY DEF BootInit
    <3> QED  BY <3>1, FS_EmptySet, BootstrapAssumption
  <2> QED  BY <1>1, <2>1, Fresh DEF BootInit, StateOK
<1>3. "idle" \notin OnConnection \cup Advised \cup Locked \cup Passed
  BY DEF OnConnection, Advised, Locked, Passed
<1>4. HoldersMatch
  BY <1>1, <1>3, NobodyCalls DEF BootInit, HoldersMatch
<1>5. SchemaSound
  BY <1>1, <1>3 DEF BootInit, SchemaSound
<1>6. GrantsSound
  BY <1>1 DEF BootInit, GrantsSound, NoSession
<1> QED  BY <1>2, <1>4, <1>5, <1>6 DEF BootInv

LEMMA Invariant == BootSpec => []BootInv
BY InitInv, StepKeepsInv, PTL DEF BootSpec
-----------------------------------------------------------------------------
(* At every moment the pools are within their sizes, and the two locks of    *)
(* the database are held by nobody or through a connection that is open      *)
(* (_ensure_ready and _session_state).                                       *)
THEOREM BootTypeCorrect == BootSpec => []BootTypeOK
<1>1. BootInv => BootTypeOK
  <2> SUFFICES ASSUME BootInv PROVE BootTypeOK
    OBVIOUS
  <2>1. "idle" \notin OnConnection
    BY DEF OnConnection, Advised, Locked
  <2>2. {advisory, rowLock} \subseteq connected \cup {Nobody}
    BY Places DEF BootInv, HoldersMatch
  <2>3. connected \subseteq {c \in Caller : ~At(c, "idle")}
    BY <2>1 DEF BootInv, StateOK, HoldersMatch, At
  <2>4. \A c \in Caller : attempt[c].left \in 0 .. Attempts
    BY DEF BootInv, StateOK, Attempt
  <2> QED  BY <2>2, <2>3, <2>4 DEF BootInv, StateOK, BootTypeOK, SessionRow
<1> QED  BY <1>1, Invariant, PTL

(* No number of processes, started and crashed in any order, makes a worker  *)
(* fail at another's CREATE TABLE: the tables are created under the advisory *)
(* lock and looked for under the same one.                                   *)
THEOREM BootFailuresExplained == BootSpec => []OnlyMisconfigurationFails
<1>1. BootInit => OnlyMisconfigurationFails
  BY DEF BootInit, NewAttempt, OnlyMisconfigurationFails
<1>2. BootInv /\ OnlyMisconfigurationFails /\ [BootNext]_bootVars
        => OnlyMisconfigurationFails'
  <2>1. ASSUME BootInv, OnlyMisconfigurationFails, NEW c \in Caller, Moves(c)
        PROVE  OnlyMisconfigurationFails'
    <3>1. \A d \in Caller : attempt'[d].outcome = attempt[d].outcome
      BY <2>1 DEF Moves, Moved
    <3> QED  BY <2>1, <3>1 DEF OnlyMisconfigurationFails
  <2>2. ASSUME BootInv, OnlyMisconfigurationFails, NEW c \in Caller,
               EndsUngranted(c)
        PROVE  OnlyMisconfigurationFails'
    BY <2>2 DEF EndsUngranted, EndsWith, Finished, OnlyMisconfigurationFails
  <2>3. ASSUME BootInv, OnlyMisconfigurationFails, NEW c \in Caller,
               EndsGranted(c)
        PROVE  OnlyMisconfigurationFails'
    BY <2>3 DEF EndsGranted, EndsWith, Finished, OnlyMisconfigurationFails
  <2>4. ASSUME BootInv, OnlyMisconfigurationFails, NEW w \in Worker, Crash(w)
        PROVE  OnlyMisconfigurationFails'
    BY <2>4, CrashKeepsInv DEF OnlyMisconfigurationFails
  <2>5. ASSUME BootInv, OnlyMisconfigurationFails, UNCHANGED bootVars
        PROVE  OnlyMisconfigurationFails'
    BY <2>5 DEF bootVars, OnlyMisconfigurationFails
  <2> QED  BY <2>1, <2>2, <2>3, <2>4, <2>5, StepKinds
<1> QED  BY <1>1, <1>2, Invariant, PTL DEF BootSpec

\* What all attempts of one caller were granted, by caller.
Grants == [c \in Caller |-> attempt[c].granted]

(* Whatever budgets the workers bring along, they share the one of the row   *)
(* that was inserted first: all they were ever granted is committed there,   *)
(* and fits (the INSERT ... ON CONFLICT of _session_state).                  *)
THEOREM BootGrantsFit == BootSpec => []GrantsFitOneBudget
<1> DEFINE Covered == SumOver(Grants, Caller) <= session.committed
<1>1. BootInit => Covered
  <2> SUFFICES ASSUME BootInit PROVE Covered
    OBVIOUS
  <2>1. \A c \in Caller : Grants[c] = 0
    BY Fresh DEF Grants, BootInit
  <2>2. SumOver(Grants, Caller) <= Cardinality(Caller) * 0
    BY <2>1, SumBound, BootstrapAssumption
  <2>3. SumOver(Grants, Caller) \in Nat /\ Cardinality(Caller) \in Nat
    BY <2>1, SumNat, FS_CardinalityType, BootstrapAssumption
  <2>4. session.committed = 0
    BY DEF BootInit, NoSession
  <2> QED  BY <2>2, <2>3, <2>4
<1>2. ASSUME BootInv
      PROVE  /\ \A c \in Caller : Grants[c] \in Nat
             /\ SumOver(Grants, Caller) \in Nat /\ session.committed \in Nat
  <2>1. \A c \in Caller : Grants[c] \in Nat
    BY <1>2 DEF BootInv, StateOK, Attempt, Grants
  <2>2. session.committed \in Nat
    BY <1>2 DEF BootInv, StateOK, SessionRow
  <2> QED  BY <2>1, <2>2, SumNat, BootstrapAssumption
<1>3. ASSUME BootInv, BootInv', Covered,
             session.committed <= session'.committed,
             \A c \in Caller : attempt'[c].granted = attempt[c].granted
      PROVE  Covered'
  <2>1. Grants' = Grants
    BY <1>3 DEF Grants
  <2>2. session'.committed \in Nat
    BY <1>3 DEF BootInv, StateOK, SessionRow
  <2> QED  BY <1>2, <1>3, <2>1, <2>2
<1>4. ASSUME BootInv, BootInv', Covered, NEW c \in Caller, EndsGranted(c)
      PROVE  Covered'
  <2> DEFINE gain == session'.committed - session.committed
             before == Grants
             after == Grants'
  <2>1. /\ after[c] = before[c] + gain /\ gain \in Nat
        /\ \A d \in Caller \ {c} : after[d] = before[d]
    BY <1>4 DEF EndsGranted, EndsWith, Finished, Grants
  <2>2. \A d \in Caller : before[d] \in Nat /\ after[d] \in Nat
    BY <1>2, <1>4, <2>1
  <2>3. session'.committed \in Nat
    BY <1>4 DEF BootInv, StateOK, SessionRow
  <2>4. SumOver(Grants', Caller) = SumOver(Grants, Caller) - before[c] + after[c]
    <3> HIDE DEF before, after
    <3>1. SumOver(after, Caller) = SumOver(before, Caller) - before[c] + after[c]
      BY <2>1, <2>2, SumUpdate, BootstrapAssumption
    <3> QED  BY <3>1 DEF before, after
  <2>5. SumOver(Grants, Caller) \in Nat /\ session.committed \in Nat
    BY <1>2, <1>4
  <2> HIDE DEF before, after
  <2> QED  BY <1>4, <2>1, <2>2, <2>3, <2>4, <2>5
<1>5. BootInv /\ BootInv' /\ Covered /\ [BootNext]_bootVars => Covered'
  <2>1. ASSUME BootInv, BootInv', Covered, NEW c \in Caller, Moves(c)
        PROVE  Covered'
    <3>1. session' = session
          /\ \A d \in Caller : attempt'[d].granted = attempt[d].granted
      BY <2>1 DEF Moves, Moved
    <3> QED  BY <1>2, <1>3, <2>1, <3>1
  <2>2. ASSUME BootInv, BootInv', Covered, NEW c \in Caller, EndsUngranted(c)
        PROVE  Covered'
    <3>1. /\ session.committed <= session'.committed
          /\ attempt'[c].granted = attempt[c].granted + 0
          /\ attempt[c].granted \in Nat
          /\ \A d \in Caller \ {c} : attempt'[d] = attempt[d]
      BY <2>2 DEF EndsUngranted, EndsWith, Finished, BootInv, StateOK, Attempt
    <3> QED  BY <1>3, <2>2, <3>1
  <2>3. ASSUME BootInv, BootInv', Covered, NEW w \in Worker, Crash(w)
        PROVE  Covered'
    BY <1>2, <1>3, <2>3, CrashKeepsInv
  <2>4. ASSUME Covered, UNCHANGED bootVars
        PROVE  Covered'
    <3>1. Grants' = Grants /\ session' = session
      BY <2>4 DEF bootVars, Grants
    <3> QED  BY <2>4, <3>1
  <2> HIDE DEF Covered
  <2> QED  BY <1>4, <2>1, <2>2, <2>3, <2>4, StepKinds
<1>6. BootInv /\ Covered => GrantsFitOneBudget
  BY DEF BootInv, GrantsSound, GrantsFitOneBudget, Grants
<1> HIDE DEF Covered
<1> QED  BY <1>1, <1>5, <1>6, Invariant, PTL DEF BootSpec
=============================================================================
