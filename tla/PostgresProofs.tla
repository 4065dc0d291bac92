--------------------------- MODULE PostgresProofs ---------------------------
(* The invariants of the shared treasury for every number of workers and of  *)
(* callers, every budget and every amount, with and without faults.          *)
(*                                                                           *)
(* The session row is only right after a commit because what the transaction *)
(* staged was computed from the rows as they still are: the row lock keeps   *)
(* every other transaction from committing in between.  The inductive        *)
(* invariant PgInv says so.                                                  *)
EXTENDS PostgresTreasury, MoneyProofs, SequenceTheorems

Transaction == [at : Place, tok : Nat, amount : Nat, session : Balance,
                row : Seq(Row), entry : Seq(Entry)]

DenialLog == [at : {"none", "spawned", "read"}, tok : Nat, amount : Nat,
              available : Int]

MemoryOK ==
  /\ PgTypeOK
  /\ tx \in [Caller -> Transaction]
  /\ denial \in [Caller -> DenialLog]

NewRow(x) == [initial |-> x, ceiling |-> x, spent |-> 0, extensions |-> 0,
              status |-> "active"]

\* What a transaction may do to the committed rows: the session row becomes
\* new and the allocations become rows.
Opens(x, new, rows) ==
  /\ Available > 0 /\ x <= Available
  /\ new = [session EXCEPT !.committed = @ + x]
  /\ rows = Append(row, NewRow(x))

ClosedTo(t, s) == [row EXCEPT ![t].status = "settled", ![t].spent = s]

Closes(t, s, new, rows) ==
  /\ s <= row[t].ceiling
  /\ new = [committed |-> session.committed - row[t].ceiling,
            spent |-> session.spent + s]
  /\ rows = ClosedTo(t, s)

RaisedTo(t, x) == [row EXCEPT ![t].ceiling = @ + x, ![t].extensions = @ + x]

Raises(t, x, new, rows) ==
  /\ new = [session EXCEPT !.committed = @ + x]
  /\ rows = RaisedTo(t, x)

OneWrite(new, rows) ==
  \/ \E x \in Amount : Opens(x, new, rows)
  \/ \E t \in Active, s \in Nat : Closes(t, s, new, rows)
  \/ \E t \in Active, x \in Amount : Raises(t, x, new, rows)

OneHolder == \A c, d \in lock : c = d

StagedFromCurrent ==
  \A c \in Caller : tx[c].at = "staged" => OneWrite(tx[c].session, tx[c].row)

LoansHaveTokens ==
  \A c \in Caller :
    tx[c].at = "approved" => tx[c].tok \in DOMAIN row /\ tx[c].amount \in Amount

PgInv == MemoryOK /\ OneHolder /\ StagedFromCurrent /\ LoansHaveTokens
-----------------------------------------------------------------------------
LEMMA Amounts == Amount \subseteq Nat /\ Spend \subseteq Int
BY PostgresAssumption

(* The allocations table is a finite sequence of rows.                       *)
LEMMA TableRows ==
  ASSUME row \in Seq(Row)
  PROVE  /\ DOMAIN row = 1 .. Len(row) /\ Len(row) \in Nat
         /\ IsFiniteSet(DOMAIN row) /\ IsFiniteSet(Active) /\ IsFiniteSet(Settled)
         /\ Active \subseteq DOMAIN row /\ Settled \subseteq DOMAIN row
         /\ \A t \in DOMAIN row : row[t] \in Row
<1>1. DOMAIN row = 1 .. Len(row) /\ Len(row) \in Nat
  BY LenProperties
<1>2. IsFiniteSet(DOMAIN row)
  BY <1>1, FS_Interval
<1>3. Active \subseteq DOMAIN row /\ Settled \subseteq DOMAIN row
  BY DEF Active, Settled
<1>4. IsFiniteSet(Active) /\ IsFiniteSet(Settled)
  BY <1>2, <1>3, FS_Subset
<1>5. \A t \in DOMAIN row : row[t] \in Row
  BY <1>1, ElementOfSeq
<1> QED  BY <1>1, <1>2, <1>3, <1>4, <1>5

(* What each of the three writes makes of the rows.                          *)
LEMMA OpenedRows ==
  ASSUME row \in Seq(Row), NEW x \in Nat, NEW rows, rows = Append(row, NewRow(x)),
         NEW n, n = Len(row) + 1
  PROVE  /\ rows \in Seq(Row) /\ NewRow(x) \in Row
         /\ DOMAIN rows = DOMAIN row \cup {n} /\ n \notin DOMAIN row
         /\ \A u \in DOMAIN row : rows[u] = row[u]
         /\ rows[n] = NewRow(x)
<1>1. NewRow(x) \in Row
  BY DEF NewRow, Row
<1>2. /\ rows \in Seq(Row)
      /\ Len(rows) = Len(row) + 1
      /\ \A u \in 1 .. Len(row) : rows[u] = row[u]
      /\ rows[n] = NewRow(x)
  BY <1>1, AppendProperties
<1>3. /\ DOMAIN row = 1 .. Len(row) /\ Len(row) \in Nat
      /\ DOMAIN rows = 1 .. Len(rows)
  BY <1>2, LenProperties
<1> QED  BY <1>1, <1>2, <1>3

LEMMA ClosedRows ==
  ASSUME row \in Seq(Row), NEW t \in DOMAIN row, NEW s \in Nat, NEW rows,
         rows = ClosedTo(t, s)
  PROVE  /\ rows \in Seq(Row) /\ DOMAIN rows = DOMAIN row
         /\ \A u \in DOMAIN row \ {t} : rows[u] = row[u]
         /\ rows[t].ceiling = row[t].ceiling /\ rows[t].spent = s
         /\ rows[t].status = "settled" /\ rows[t].initial = row[t].initial
<1> DEFINE new == [row[t] EXCEPT !.status = "settled", !.spent = s]
<1>1. row[t] \in Row /\ t \in 1 .. Len(row)
  BY TableRows
<1>2. /\ new \in Row /\ new.ceiling = row[t].ceiling /\ new.spent = s
      /\ new.status = "settled" /\ new.initial = row[t].initial
  BY <1>1 DEF Row
<1>3. rows = [row EXCEPT ![t] = new]
  BY DEF ClosedTo
<1> HIDE DEF new
<1>4. /\ rows \in Seq(Row)
      /\ \A u \in 1 .. Len(row) : rows[u] = IF u = t THEN new ELSE row[u]
  <2>1. /\ [row EXCEPT ![t] = new] \in Seq(Row)
        /\ \A u \in 1 .. Len(row) :
             [row EXCEPT ![t] = new][u] = IF u = t THEN new ELSE row[u]
    BY <1>1, <1>2, ExceptSeq
  <2> QED  BY <1>3, <2>1
<1>5. DOMAIN rows = DOMAIN row
  BY <1>3
<1> QED  BY <1>1, <1>2, <1>4, <1>5, TableRows

LEMMA RaisedRows ==
  ASSUME row \in Seq(Row), NEW t \in DOMAIN row, NEW x \in Nat, NEW rows,
         rows = RaisedTo(t, x)
  PROVE  /\ rows \in Seq(Row) /\ DOMAIN rows = DOMAIN row
         /\ \A u \in DOMAIN row \ {t} : rows[u] = row[u]
         /\ rows[t].ceiling = row[t].ceiling + x /\ rows[t].spent = row[t].spent
         /\ rows[t].status = row[t].status /\ rows[t].initial = row[t].initial
<1> DEFINE new == [row[t] EXCEPT !.ceiling = @ + x, !.extensions = @ + x]
<1>1. row[t] \in Row /\ t \in 1 .. Len(row)
  BY TableRows
<1>2. /\ new.ceiling = row[t].ceiling + x /\ new.spent = row[t].spent
      /\ new.status = row[t].status /\ new.initial = row[t].initial
  BY <1>1 DEF Row
<1>3. new \in Row
  <2>1. /\ row[t].ceiling + x \in Nat /\ row[t].extensions + x \in Nat
    <3>1. row[t].ceiling \in Nat /\ row[t].extensions \in Nat
      BY <1>1 DEF Row
    <3>2. \A n \in Nat : n + x \in Nat
      OBVIOUS
    <3> QED  BY <3>1, <3>2
  <2>2. \A c, e \in Nat : [row[t] EXCEPT !.ceiling = c, !.extensions = e] \in Row
    BY <1>1 DEF Row
  <2> QED  BY <2>1, <2>2
<1>4. rows = [row EXCEPT ![t] = new]
  BY DEF RaisedTo
<1> HIDE DEF new
<1>5. /\ rows \in Seq(Row)
      /\ \A u \in 1 .. Len(row) : rows[u] = IF u = t THEN new ELSE row[u]
  <2>1. /\ [row EXCEPT ![t] = new] \in Seq(Row)
        /\ \A u \in 1 .. Len(row) :
             [row EXCEPT ![t] = new][u] = IF u = t THEN new ELSE row[u]
    BY <1>1, <1>3, ExceptSeq
  <2> QED  BY <1>4, <2>1
<1>6. DOMAIN rows = DOMAIN row
  BY <1>4
<1> QED  BY <1>1, <1>2, <1>5, <1>6, TableRows
-----------------------------------------------------------------------------
(* PgConservation with names for the two functions it sums.                  *)
Ceilings == [t \in DOMAIN row |-> row[t].ceiling]
Spends == [t \in DOMAIN row |-> row[t].spent]

LEMMA SumsType ==
  ASSUME row \in Seq(Row)
  PROVE  \A t \in DOMAIN row :
           /\ Ceilings[t] = row[t].ceiling /\ Ceilings[t] \in Nat
           /\ Spends[t] = row[t].spent /\ Spends[t] \in Nat
BY TableRows DEF Ceilings, Spends, Row

LEMMA Books ==
  PgConservation <=> /\ session.committed = SumOver(Ceilings, Active)
                     /\ session.spent = SumOver(Spends, Settled)
BY DEF PgConservation, Ceilings, Spends

LEMMA BooksNext ==
  PgConservation' <=> /\ session'.committed = SumOver(Ceilings', Active')
                      /\ session'.spent = SumOver(Spends', Settled')
BY DEF PgConservation, Ceilings, Spends

LEMMA BooksOpened ==
  ASSUME row \in Seq(Row), session \in Balance, PgConservation,
         NEW x \in Nat, Opens(x, session', row')
  PROVE  PgConservation'
<1> DEFINE n == Len(row) + 1
<1>1. /\ row' \in Seq(Row)
      /\ DOMAIN row' = DOMAIN row \cup {n} /\ n \notin DOMAIN row
      /\ \A u \in DOMAIN row : row'[u] = row[u]
      /\ row'[n] = NewRow(x)
  BY OpenedRows DEF Opens
<1>2. session'.committed = session.committed + x /\ session'.spent = session.spent
  BY DEF Opens, Balance
<1>3. row'[n].status = "active" /\ row'[n].ceiling = x
  BY <1>1 DEF NewRow
<1>4. Active' = Active \cup {n} /\ Settled' = Settled
  BY <1>1, <1>3 DEF Active, Settled
<1>5. \A u \in DOMAIN row : Ceilings'[u] = Ceilings[u] /\ Spends'[u] = Spends[u]
  BY <1>1 DEF Ceilings, Spends
<1>6. Ceilings'[n] = x /\ \A u \in Active \cup {n} : Ceilings'[u] \in Nat
  <2>1. Ceilings'[n] = x
    BY <1>1, <1>3 DEF Ceilings
  <2>2. \A u \in Active : Ceilings'[u] \in Nat
    BY <1>5, SumsType, TableRows
  <2> QED  BY <2>1, <2>2
<1>7. SumOver(Ceilings', Active \cup {n}) = SumOver(Ceilings', Active) + x
  BY <1>1, <1>6, TableRows, SumAdd
<1>8. SumOver(Ceilings', Active) = SumOver(Ceilings, Active)
  BY <1>5, TableRows, SumSame
<1>9. SumOver(Spends', Settled) = SumOver(Spends, Settled)
  BY <1>5, TableRows, SumSame
<1> QED  BY <1>2, <1>4, <1>7, <1>8, <1>9, Books, BooksNext

LEMMA BooksClosed ==
  ASSUME row \in Seq(Row), session \in Balance, PgConservation,
         NEW t \in Active, NEW s \in Nat, Closes(t, s, session', row')
  PROVE  PgConservation'
<1>1. /\ t \in DOMAIN row /\ DOMAIN row' = DOMAIN row
      /\ \A u \in DOMAIN row \ {t} : row'[u] = row[u]
      /\ row'[t].spent = s /\ row'[t].status = "settled"
  <2>1. t \in DOMAIN row
    BY TableRows
  <2>2. row' = ClosedTo(t, s)
    BY DEF Closes
  <2> QED  BY <2>1, <2>2, ClosedRows
<1>2. /\ session'.committed = session.committed - row[t].ceiling
      /\ session'.spent = session.spent + s
  BY DEF Closes
<1>3. Active' = Active \ {t} /\ Settled' = Settled \cup {t} /\ t \notin Settled
  BY <1>1 DEF Active, Settled
<1>4. \A u \in DOMAIN row \ {t} : Ceilings'[u] = Ceilings[u] /\ Spends'[u] = Spends[u]
  BY <1>1 DEF Ceilings, Spends
<1>5. Spends'[t] = s
  BY <1>1 DEF Spends
<1>6. SumOver(Ceilings', Active \ {t}) = SumOver(Ceilings, Active \ {t})
  BY <1>4, TableRows, SumSame
<1>7. SumOver(Ceilings, Active \ {t}) = SumOver(Ceilings, Active) - Ceilings[t]
  <2>1. \A u \in Active : Ceilings[u] \in Nat
    BY SumsType, TableRows
  <2> QED  BY <2>1, TableRows, SumRemove
<1>8. SumOver(Spends', Settled \cup {t}) = SumOver(Spends', Settled) + Spends'[t]
  <2>1. \A u \in Settled \cup {t} : Spends'[u] \in Nat
    BY <1>3, <1>4, <1>5, SumsType, TableRows
  <2> QED  BY <1>3, <2>1, TableRows, SumAdd
<1>9. SumOver(Spends', Settled) = SumOver(Spends, Settled)
  BY <1>3, <1>4, TableRows, SumSame
<1>10. Ceilings[t] = row[t].ceiling
  BY <1>1 DEF Ceilings
<1> QED  BY <1>2, <1>3, <1>5, <1>6, <1>7, <1>8, <1>9, <1>10, Books, BooksNext

LEMMA BooksRaised ==
  ASSUME row \in Seq(Row), session \in Balance, PgConservation,
         NEW t \in Active, NEW x \in Nat, Raises(t, x, session', row')
  PROVE  PgConservation'
<1>1. /\ t \in DOMAIN row /\ DOMAIN row' = DOMAIN row
      /\ \A u \in DOMAIN row \ {t} : row'[u] = row[u]
      /\ row'[t].ceiling = row[t].ceiling + x
      /\ row'[t].status = row[t].status
  <2>1. t \in DOMAIN row
    BY TableRows
  <2>2. row' = RaisedTo(t, x)
    BY DEF Raises
  <2> QED  BY <2>1, <2>2, RaisedRows
<1>2. session'.committed = session.committed + x /\ session'.spent = session.spent
  BY DEF Raises, Balance
<1>3. Active' = Active /\ Settled' = Settled /\ t \notin Settled
  BY <1>1 DEF Active, Settled
<1>4. \A u \in DOMAIN row \ {t} : Ceilings'[u] = Ceilings[u] /\ Spends'[u] = Spends[u]
  BY <1>1 DEF Ceilings, Spends
<1>5. Ceilings[t] \in Nat /\ Ceilings'[t] = Ceilings[t] + x
  BY <1>1, SumsType DEF Ceilings
<1>6. SumOver(Ceilings', Active)
        = SumOver(Ceilings, Active) - Ceilings[t] + Ceilings'[t]
  <2>1. \A u \in Active : Ceilings[u] \in Nat /\ Ceilings'[u] \in Nat
    BY <1>4, <1>5, SumsType, TableRows
  <2> QED  BY <1>4, <2>1, TableRows, SumUpdate
<1>7. SumOver(Spends', Settled) = SumOver(Spends, Settled)
  BY <1>3, <1>4, TableRows, SumSame
<1>8. SumOver(Ceilings, Active) \in Nat
  BY SumsType, TableRows, SumNat
<1>9. SumOver(Ceilings', Active) = SumOver(Ceilings, Active) + x
  BY <1>5, <1>6, <1>8
<1> QED  BY <1>2, <1>3, <1>7, <1>9, Books, BooksNext

(* No write of a transaction puts the session row and the allocations apart. *)
LEMMA BooksKept ==
  ASSUME row \in Seq(Row), session \in Balance, PgConservation,
         OneWrite(session', row')
  PROVE  PgConservation'
BY BooksOpened, BooksClosed, BooksRaised, Amounts DEF OneWrite
-----------------------------------------------------------------------------
(* A step that leaves the committed rows alone leaves what may be written    *)
(* to them alone.                                                            *)
LEMMA WritesKept ==
  ASSUME UNCHANGED <<session, row>>,
         NEW d, NEW new, NEW rows, tx'[d].session = new, tx'[d].row = rows,
         OneWrite(new, rows)
  PROVE  OneWrite(tx[d].session, tx[d].row)'
<1>1. Active' = Active /\ Available' = Available
  BY DEF Active, Available, AvailableIn
<1>2. \A t, x : ClosedTo(t, x)' = ClosedTo(t, x) /\ RaisedTo(t, x)' = RaisedTo(t, x)
  BY DEF ClosedTo, RaisedTo
<1> QED  BY <1>1, <1>2 DEF OneWrite, Opens, Closes, Raises

(* One caller's transaction moves on, the committed rows do not.             *)
LEMMA TransactionStep ==
  ASSUME PgInv, UNCHANGED <<session, row>>,
         NEW c \in Caller, NEW r \in Transaction, tx' = [tx EXCEPT ![c] = r],
         r.at = "staged" => OneWrite(r.session, r.row),
         r.at = "approved" => r.tok \in DOMAIN row /\ r.amount \in Amount,
         lock' = IF r.at \in {"staged", "denied"} THEN {c} ELSE lock \ {c},
         r.at \in {"staged", "denied"} => lock \subseteq {c},
         entries' \in Seq(Entry), cache' \in [Worker -> Balance],
         denial' \in [Caller -> DenialLog]
  PROVE  PgInv'
<1>1. /\ tx \in [Caller -> Transaction] /\ tx' \in [Caller -> Transaction]
      /\ tx'[c] = r /\ \A d \in Caller \ {c} : tx'[d] = tx[d]
  BY DEF PgInv, MemoryOK
<1>2. lock' = {d \in Caller : tx'[d].at \in {"staged", "denied"}}
  <2>1. lock = {d \in Caller : tx[d].at \in {"staged", "denied"}}
    BY DEF PgInv, MemoryOK, PgTypeOK
  <2> QED  BY <1>1, <2>1
<1>3. MemoryOK'
  <2>1. \A d \in Caller : tx'[d].at \in Place /\ tx'[d].row \in Seq(Row)
    BY <1>1 DEF Transaction
  <2>2. \A d \in Caller : denial'[d].at \in {"none", "spawned", "read"}
    BY DEF DenialLog
  <2>3. session' \in Balance /\ row' \in Seq(Row)
    BY DEF PgInv, MemoryOK, PgTypeOK
  <2> QED  BY <1>1, <1>2, <2>1, <2>2, <2>3 DEF MemoryOK, PgTypeOK
<1>4. OneHolder'
  BY DEF PgInv, OneHolder
<1>5. StagedFromCurrent'
  <2>1. SUFFICES ASSUME NEW d \in Caller, tx'[d].at = "staged"
                 PROVE  OneWrite(tx[d].session, tx[d].row)'
    BY DEF StagedFromCurrent
  <2>2. CASE d = c
    <3>1. OneWrite(r.session, r.row) /\ tx'[d].session = r.session /\ tx'[d].row = r.row
      BY <1>1, <2>1, <2>2
    <3> QED  BY <3>1, WritesKept
  <2>3. CASE d # c
    <3>1. tx'[d] = tx[d] /\ OneWrite(tx[d].session, tx[d].row)
      BY <1>1, <2>1, <2>3 DEF PgInv, StagedFromCurrent
    <3> QED  BY <3>1, WritesKept
  <2> QED  BY <2>2, <2>3
<1>6. LoansHaveTokens'
  <2>1. SUFFICES ASSUME NEW d \in Caller, tx'[d].at = "approved"
                 PROVE  tx'[d].tok \in DOMAIN row' /\ tx'[d].amount \in Amount
    BY DEF LoansHaveTokens
  <2> QED  BY <1>1, <2>1 DEF PgInv, LoansHaveTokens
<1> QED  BY <1>3, <1>4, <1>5, <1>6 DEF PgInv

LEMMA OneEntry == ASSUME NEW e \in Entry PROVE <<e>> \in Seq(Entry)
OBVIOUS

(* What PgInv says of the pieces the steps are made of.                      *)
LEMMA InvTypes ==
  ASSUME PgInv
  PROVE  /\ session \in Balance /\ session.committed \in Int /\ session.spent \in Int
         /\ row \in Seq(Row) /\ entries \in Seq(Entry)
         /\ cache \in [Worker -> Balance]
         /\ tx \in [Caller -> Transaction] /\ denial \in [Caller -> DenialLog]
         /\ lock = {c \in Caller : tx[c].at \in {"staged", "denied"}}
         /\ Available \in Int /\ TotalBudget \in Int
         /\ \A c \in Caller : WorkerOf[c] \in Worker
BY PostgresAssumption
   DEF PgInv, MemoryOK, PgTypeOK, Balance, Available, AvailableIn

LEMMA InvRows ==
  ASSUME PgInv, NEW t \in DOMAIN row
  PROVE  t \in Nat /\ row[t] \in Row /\ row[t].ceiling \in Nat
<1>1. row \in Seq(Row)
  BY InvTypes
<1>2. DOMAIN row = 1 .. Len(row) /\ Len(row) \in Nat /\ row[t] \in Row
  BY <1>1, TableRows
<1>3. t \in Nat
  BY <1>2
<1> QED  BY <1>2, <1>3 DEF Row

LEMMA CommitsMore ==
  ASSUME PgInv, NEW x \in Nat
  PROVE  [session EXCEPT !.committed = @ + x] \in Balance
<1>1. session.committed + x \in Int
  BY InvTypes
<1>2. \A n \in Int : [session EXCEPT !.committed = n] \in Balance
  BY InvTypes DEF Balance
<1> QED  BY <1>1, <1>2

(* Staging a write from the committed rows, with the lock.                   *)
LEMMA StageStep ==
  ASSUME PgInv, NEW c \in Caller, LockSession(c),
         NEW new \in Balance, NEW rows \in Seq(Row), OneWrite(new, rows),
         NEW event \in {"granted", "released", "extended"},
         NEW t \in Nat, NEW amount \in Nat, NEW yielded \in Nat,
         Stage(c, new, rows, event, t, amount, yielded),
         UNCHANGED <<db, denial>>
  PROVE  PgInv'
<1> DEFINE e == [event |-> event, token |-> t, amount |-> amount,
                 yielded |-> yielded, available |-> AvailableIn(new)]
           r == [at |-> "staged", tok |-> t, amount |-> amount,
                 session |-> new, row |-> rows, entry |-> <<e>>]
<1>1. e \in Entry
  BY InvTypes DEF Entry, AvailableIn, Balance
<1>2. <<e>> \in Seq(Entry)
  BY <1>1, OneEntry
<1>3. r \in Transaction
  <2> HIDE DEF e
  <2> QED  BY <1>2 DEF Transaction, Place
<1>4. /\ tx' = [tx EXCEPT ![c] = r]
      /\ cache' = [cache EXCEPT ![WorkerOf[c]] = new]
  BY DEF Stage
<1>5. cache' \in [Worker -> Balance]
  BY <1>4, InvTypes
<1>6. /\ UNCHANGED <<session, row>> /\ entries' \in Seq(Entry)
      /\ denial' \in [Caller -> DenialLog]
  BY InvTypes DEF db
<1>7. r.at = "staged" /\ r.session = new /\ r.row = rows
  OBVIOUS
<1>8. lock = {} /\ lock' = {c}
  BY DEF LockSession
<1> HIDE DEF r
<1> QED  BY <1>3, <1>4, <1>5, <1>6, <1>7, <1>8, TransactionStep

LEMMA IdleType == Idle \in Transaction /\ Idle.at = "idle"
<1>1. << >> \in Seq(Row) /\ << >> \in Seq(Entry)
  BY EmptySeq
<1> QED  BY <1>1 DEF Idle, Opening, Transaction, Place, Balance

(* A transaction that ends without writing gives its lock back.              *)
LEMMA IdleStep ==
  ASSUME PgInv, NEW c \in Caller, tx' = [tx EXCEPT ![c] = Idle],
         lock' = lock \ {c}, UNCHANGED <<db, denial>>,
         cache' \in [Worker -> Balance]
  PROVE  PgInv'
BY IdleType, InvTypes, TransactionStep DEF db

LEMMA AllocateKeepsInv ==
  ASSUME PgInv, NEW c \in Caller, NEW x \in Amount, Allocate(c, x)
  PROVE  PgInv'
<1> DEFINE new == [session EXCEPT !.committed = @ + x]
           rows == Append(row, NewRow(x))
<1>1. x \in Nat /\ Len(row) + 1 \in Nat
  BY Amounts, InvTypes, TableRows
<1>2. rows \in Seq(Row)
  BY <1>1, InvTypes, OpenedRows
<1>3. new \in Balance
  BY <1>1, CommitsMore
<1>4. OneWrite(new, rows)
  BY DEF Allocate, OneWrite, Opens
<1>5. /\ LockSession(c) /\ Stage(c, new, rows, "granted", Len(row) + 1, x, 0)
      /\ UNCHANGED <<db, denial>>
  BY DEF Allocate, NewRow
<1> HIDE DEF new, rows
<1> QED  BY <1>1, <1>2, <1>3, <1>4, <1>5, StageStep

LEMMA SettleKeepsInv ==
  ASSUME PgInv, NEW c \in Caller, NEW t \in DOMAIN row, NEW s \in Spend,
         Settle(c, t, s)
  PROVE  PgInv'
<1> DEFINE spend == Smaller(Larger(s, 0), row[t].ceiling)
           new == [committed |-> session.committed - row[t].ceiling,
                   spent |-> session.spent + spend]
           rows == ClosedTo(t, spend)
<1>1. row[t].ceiling \in Nat /\ t \in Nat
  BY InvRows
<1>2. spend \in Nat /\ spend <= row[t].ceiling /\ row[t].ceiling - spend \in Nat
  BY <1>1, Amounts DEF Smaller, Larger
<1>3. /\ t \in Active /\ LockSession(c)
      /\ Stage(c, new, rows, "released", t, spend, row[t].ceiling - spend)
      /\ UNCHANGED <<db, denial>>
  BY DEF Settle, Active, ClosedTo
<1> HIDE DEF spend
<1>4. rows \in Seq(Row)
  BY <1>2, InvTypes, ClosedRows
<1>5. new \in Balance
  BY <1>1, <1>2, InvTypes, SMTT(20) DEF Balance
<1>6. OneWrite(new, rows)
  BY <1>2, <1>3 DEF OneWrite, Closes
<1> HIDE DEF new, rows
<1> QED  BY <1>1, <1>2, <1>3, <1>4, <1>5, <1>6, StageStep

LEMMA ExtendKeepsInv ==
  ASSUME PgInv, NEW c \in Caller, Extend(c)
  PROVE  PgInv'
<1> DEFINE t == tx[c].tok
           x == tx[c].amount
           new == [session EXCEPT !.committed = @ + x]
           rows == RaisedTo(t, x)
<1>1. t \in DOMAIN row /\ x \in Amount /\ UNCHANGED <<db, denial>>
  BY DEF Extend, PgInv, LoansHaveTokens
<1>2. x \in Nat /\ t \in Nat
  BY <1>1, Amounts, InvRows
<1>3. CASE row[t].status = "active"
  <2>1. /\ t \in Active /\ LockSession(c)
        /\ Stage(c, new, rows, "extended", t, x, 0)
    BY <1>1, <1>3 DEF Extend, Active, RaisedTo
  <2>2. OneWrite(new, rows)
    BY <1>1, <2>1 DEF OneWrite, Raises
  <2> HIDE DEF t, x
  <2>3. rows \in Seq(Row)
    BY <1>1, <1>2, InvTypes, RaisedRows
  <2>4. new \in Balance
    BY <1>2, CommitsMore
  <2> HIDE DEF new, rows
  <2> QED  BY <1>1, <1>2, <2>1, <2>2, <2>3, <2>4, StageStep
<1>4. CASE row[t].status # "active"
  <2>1. lock = {} /\ tx' = [tx EXCEPT ![c] = Idle] /\ UNCHANGED <<lock, cache>>
    BY <1>4 DEF Extend
  <2>2. lock' = lock \ {c} /\ cache' \in [Worker -> Balance]
    BY <2>1, InvTypes
  <2> QED  BY <1>1, <2>1, <2>2, IdleStep
<1> QED  BY <1>3, <1>4

LEMMA DeniedKeepsInv ==
  ASSUME PgInv, NEW c \in Caller, NEW x \in Amount, AllocateDenied(c, x)
  PROVE  PgInv'
<1> DEFINE e == [event |-> "denied", token |-> 0, amount |-> x, yielded |-> 0,
                 available |-> Available]
           r == [at |-> "denied", tok |-> 0, amount |-> x, session |-> session,
                 row |-> row, entry |-> <<e>>]
<1>1. e \in Entry
  BY Amounts, InvTypes DEF Entry
<1>2. <<e>> \in Seq(Entry)
  BY <1>1, OneEntry
<1>3. r \in Transaction /\ r.at = "denied"
  <2> HIDE DEF e
  <2> QED  BY <1>2, Amounts, InvTypes DEF Transaction, Place
<1>4. /\ tx' = [tx EXCEPT ![c] = r] /\ lock = {} /\ lock' = {c}
      /\ UNCHANGED <<session, row>> /\ entries' = entries /\ denial' = denial
      /\ cache' = [cache EXCEPT ![WorkerOf[c]] = session]
  BY DEF AllocateDenied, LockSession, db
<1>5. /\ cache' \in [Worker -> Balance] /\ entries' \in Seq(Entry)
      /\ denial' \in [Caller -> DenialLog]
  BY <1>4, InvTypes
<1> HIDE DEF r
<1> QED  BY <1>3, <1>4, <1>5, TransactionStep

(* The steps of refresh and snapshot, and the Reallocator's check.           *)
LEMMA ReadingKeepsInv ==
  ASSUME PgInv, NEW c \in Caller, Fetch(c) \/ Store(c) \/ Count(c) \/ CountRest(c)
  PROVE  PgInv'
<1>1. /\ UNCHANGED <<db, denial, lock>>
      /\ UNCHANGED <<session, row>> /\ entries' \in Seq(Entry)
      /\ denial' \in [Caller -> DenialLog]
  BY InvTypes DEF Fetch, Store, Count, CountRest, db
<1>2. tx[c] \in Transaction /\ lock' = lock \ {c}
  BY <1>1, InvTypes DEF Fetch, Store, Count, CountRest
<1>3. CASE Fetch(c)
  <2> DEFINE r == [tx[c] EXCEPT !.at = "fetched", !.session = session,
                                !.tok = Len(row)]
  <2>1. tx' = [tx EXCEPT ![c] = r] /\ cache' \in [Worker -> Balance]
    BY <1>3, InvTypes DEF Fetch
  <2>2. r \in Transaction /\ r.at = "fetched"
    <3>1. Len(row) \in Nat
      BY InvTypes, TableRows
    <3> QED  BY <1>2, <3>1, InvTypes DEF Transaction, Place, Reading
  <2> HIDE DEF r
  <2> QED  BY <1>1, <1>2, <2>1, <2>2, TransactionStep
<1>4. CASE Store(c)
  <2>1. cache' \in [Worker -> Balance]
    BY <1>2, <1>4, InvTypes DEF Store, Transaction
  <2>2. CASE tx' = [tx EXCEPT ![c] = Idle]
    BY <1>1, <1>2, <2>1, <2>2, IdleStep
  <2>3. CASE tx' = [tx EXCEPT ![c] = [Idle EXCEPT !.at = "counting",
                                                  !.tok = tx[c].tok]]
    <3> DEFINE r == [Idle EXCEPT !.at = "counting", !.tok = tx[c].tok]
    <3>1. r \in Transaction /\ r.at = "counting"
      BY <1>2, IdleType DEF Transaction, Place, Reading
    <3> HIDE DEF r
    <3> QED  BY <1>1, <1>2, <2>1, <2>3, <3>1, TransactionStep DEF r
  <2> QED  BY <1>4, <2>2, <2>3 DEF Store
<1>5. CASE Count(c)
  <2> DEFINE n == Cardinality(Active)
             r == [tx[c] EXCEPT !.at = "counted", !.amount = n]
  <2>1. n \in Nat
    BY InvTypes, TableRows, FS_CardinalityType
  <2>2. tx' = [tx EXCEPT ![c] = r] /\ cache' \in [Worker -> Balance]
    BY <1>5, InvTypes DEF Count, CountedBy
  <2> HIDE DEF n
  <2>3. r \in Transaction /\ r.at = "counted"
    BY <1>2, <2>1 DEF Transaction, Place, Reading
  <2> HIDE DEF r
  <2> QED  BY <1>1, <1>2, <2>2, <2>3, TransactionStep
<1>6. CASE CountRest(c)
  BY <1>1, <1>2, <1>6, IdleStep, InvTypes DEF CountRest
<1> QED  BY <1>3, <1>4, <1>5, <1>6

LEMMA AskKeepsInv ==
  ASSUME PgInv, NEW c \in Caller, NEW t \in DOMAIN row, NEW x \in Amount,
         Ask(c, t, x)
  PROVE  PgInv'
<1> DEFINE r == [Idle EXCEPT !.at = "approved", !.tok = t, !.amount = x]
           l == [at |-> "spawned", tok |-> t, amount |-> x, available |-> 0]
<1>1. t \in Nat /\ x \in Nat
  BY Amounts, InvRows
<1>2. /\ UNCHANGED <<session, row>> /\ entries' \in Seq(Entry) /\ lock' = lock \ {c}
      /\ cache' \in [Worker -> Balance] /\ tx[c].at = "idle"
  BY InvTypes DEF Ask, db
<1>3. CASE tx' = [tx EXCEPT ![c] = r] /\ UNCHANGED denial
  <2>1. r \in Transaction /\ r.at = "approved" /\ r.tok = t /\ r.amount = x
    BY <1>1, IdleType DEF Transaction, Place
  <2>2. denial' \in [Caller -> DenialLog]
    BY <1>3, InvTypes
  <2>3. tx' = [tx EXCEPT ![c] = r]
    BY <1>3
  <2> HIDE DEF r
  <2> QED  BY <1>2, <2>1, <2>2, <2>3, TransactionStep
<1>4. CASE denial' = [denial EXCEPT ![c] = l] /\ UNCHANGED tx
  <2>1. l \in DenialLog
    BY <1>1 DEF DenialLog
  <2>2. denial' \in [Caller -> DenialLog]
    BY <1>4, <2>1, InvTypes
  <2>3. tx' = [tx EXCEPT ![c] = tx[c]] /\ tx[c] \in Transaction
    BY <1>4, InvTypes
  <2> QED  BY <1>2, <2>2, <2>3, TransactionStep
<1> QED  BY <1>3, <1>4 DEF Ask

(* The background task touches only its log and the audit table.             *)
LEMMA LogKeepsInv ==
  ASSUME PgInv, NEW c \in Caller, ReadForLog(c) \/ LogDenial(c)
  PROVE  PgInv'
<1>1. /\ UNCHANGED <<session, row, lock, tx, cache>>
      /\ denial[c] \in DenialLog
  BY InvTypes DEF ReadForLog, LogDenial, db
<1>2. denial' \in [Caller -> DenialLog]
  <2>1. NoLog \in DenialLog
    BY DEF NoLog, DenialLog
  <2>2. [denial[c] EXCEPT !.at = "read", !.available = Available] \in DenialLog
    BY <1>1, InvTypes DEF DenialLog
  <2>3. \/ denial' = [denial EXCEPT ![c] = NoLog]
        \/ denial' = [denial EXCEPT ![c] =
                         [denial[c] EXCEPT !.at = "read", !.available = Available]]
    BY InvTypes DEF ReadForLog, LogDenial
  <2> QED  BY <2>1, <2>2, <2>3, InvTypes
<1>3. entries' \in Seq(Entry)
  <2> DEFINE e == [event |-> "refused", token |-> denial[c].tok,
                   amount |-> denial[c].amount, yielded |-> 0,
                   available |-> denial[c].available]
  <2>1. e \in Entry
    BY <1>1 DEF DenialLog, Entry
  <2>2. entries' = entries \/ entries' = Append(entries, e)
    BY DEF ReadForLog, LogDenial, db
  <2> HIDE DEF e
  <2>3. entries \in Seq(Entry)
    BY InvTypes
  <2>4. Append(entries, e) \in Seq(Entry)
    BY <2>1, <2>3, AppendProperties
  <2> QED  BY <2>2, <2>3, <2>4
<1>4. tx' = [tx EXCEPT ![c] = tx[c]] /\ tx[c] \in Transaction
  BY <1>1, InvTypes
<1>5. CASE tx[c].at \in {"staged", "denied"}
  <2>1. lock = {c}
    BY <1>5, InvTypes DEF PgInv, OneHolder
  <2>2. tx[c].at = "staged" => OneWrite(tx[c].session, tx[c].row)
    BY DEF PgInv, StagedFromCurrent
  <2>3. cache' \in [Worker -> Balance]
    BY <1>1, InvTypes
  <2> QED  BY <1>1, <1>2, <1>3, <1>4, <1>5, <2>1, <2>2, <2>3, TransactionStep
<1>6. CASE tx[c].at \notin {"staged", "denied"}
  <2>1. lock' = lock \ {c}
    BY <1>1, <1>6, InvTypes
  <2>2. tx[c].at = "approved" => tx[c].tok \in DOMAIN row /\ tx[c].amount \in Amount
    BY DEF PgInv, LoansHaveTokens
  <2>3. cache' \in [Worker -> Balance]
    BY <1>1, InvTypes
  <2> QED  BY <1>1, <1>2, <1>3, <1>4, <1>6, <2>1, <2>2, <2>3, TransactionStep
<1> QED  BY <1>5, <1>6

LEMMA CrashKeepsInv ==
  ASSUME PgInv, NEW w \in Worker, Crash(w)
  PROVE  PgInv'
<1> DEFINE gone == {c \in Caller : WorkerOf[c] = w}
<1>1. /\ UNCHANGED <<session, row, entries>> /\ lock' = lock \ gone
      /\ tx' = [c \in Caller |-> IF c \in gone THEN Idle ELSE tx[c]]
      /\ denial' = [c \in Caller |-> IF c \in gone THEN NoLog ELSE denial[c]]
      /\ cache' = [cache EXCEPT ![w] = Opening]
  BY DEF Crash, db
<1> HIDE DEF gone
<1>2. tx' \in [Caller -> Transaction] /\ denial' \in [Caller -> DenialLog]
  <2>1. NoLog \in DenialLog
    BY DEF NoLog, DenialLog
  <2> QED  BY <1>1, <2>1, IdleType, InvTypes
<1>3. cache' \in [Worker -> Balance]
  BY <1>1, InvTypes DEF Opening, Balance
<1>4. \A d \in Caller : IF d \in gone THEN tx'[d].at = "idle" ELSE tx'[d] = tx[d]
  BY <1>1, IdleType
<1>5. lock' = {d \in Caller : tx'[d].at \in {"staged", "denied"}}
  BY <1>1, <1>4, InvTypes
<1>6. MemoryOK'
  <2>1. \A d \in Caller : tx'[d].at \in Place /\ tx'[d].row \in Seq(Row)
    BY <1>2 DEF Transaction
  <2>2. \A d \in Caller : denial'[d].at \in {"none", "spawned", "read"}
    BY <1>2 DEF DenialLog
  <2> QED  BY <1>1, <1>2, <1>3, <1>5, <2>1, <2>2, InvTypes DEF MemoryOK, PgTypeOK
<1>7. OneHolder'
  BY <1>1 DEF PgInv, OneHolder
<1>8. StagedFromCurrent'
  <2>1. SUFFICES ASSUME NEW d \in Caller, tx'[d].at = "staged"
                 PROVE  OneWrite(tx[d].session, tx[d].row)'
    BY DEF StagedFromCurrent
  <2>2. tx'[d] = tx[d] /\ OneWrite(tx[d].session, tx[d].row)
    BY <1>4, <2>1 DEF PgInv, StagedFromCurrent
  <2> QED  BY <1>1, <2>2, WritesKept
<1>9. LoansHaveTokens'
  BY <1>1, <1>4 DEF PgInv, LoansHaveTokens
<1> QED  BY <1>6, <1>7, <1>8, <1>9 DEF PgInv

(* A commit makes one write of the rows as they are, so it keeps the books;  *)
(* its lock kept every other write out.                                      *)
LEMMA CommitWrites ==
  ASSUME PgInv, NEW c \in Caller, Commit(c)
  PROVE  /\ OneWrite(session', row')
         /\ session' \in Balance /\ row' \in Seq(Row)
         /\ DOMAIN row \subseteq DOMAIN row'
<1>1. /\ session' = tx[c].session /\ row' = tx[c].row /\ tx[c].at = "staged"
      /\ tx[c] \in Transaction
  BY InvTypes DEF Commit
<1>2. OneWrite(tx[c].session, tx[c].row)
  BY <1>1 DEF PgInv, StagedFromCurrent
<1>3. session' \in Balance /\ row' \in Seq(Row)
  BY <1>1 DEF Transaction
<1>4. row \in Seq(Row)
  BY InvTypes
<1>5. ASSUME NEW x \in Amount, Opens(x, session', row')
      PROVE  DOMAIN row \subseteq DOMAIN row'
  <2>1. row' = Append(row, NewRow(x)) /\ x \in Nat
    BY <1>5, Amounts DEF Opens
  <2> QED  BY <1>4, <2>1, OpenedRows
<1>6. ASSUME NEW t \in Active, NEW s \in Nat, Closes(t, s, session', row')
      PROVE  DOMAIN row \subseteq DOMAIN row'
  BY <1>6 DEF Closes, ClosedTo
<1>7. ASSUME NEW t \in Active, NEW x \in Amount, Raises(t, x, session', row')
      PROVE  DOMAIN row \subseteq DOMAIN row'
  BY <1>7 DEF Raises, RaisedTo
<1>8. OneWrite(session', row')
  BY <1>1, <1>2
<1> QED  BY <1>3, <1>5, <1>6, <1>7, <1>8 DEF OneWrite

LEMMA CommitKeepsInv ==
  ASSUME PgInv, NEW c \in Caller, Commit(c)
  PROVE  PgInv'
<1>1. /\ entries' = entries \o tx[c].entry
      /\ lock' = lock \ {c} /\ tx' = [tx EXCEPT ![c] = Idle]
      /\ UNCHANGED <<cache, denial>> /\ tx[c].at = "staged"
      /\ tx[c] \in Transaction
  BY InvTypes DEF Commit
<1>2. /\ tx' \in [Caller -> Transaction] /\ tx'[c].at = "idle"
      /\ \A d \in Caller \ {c} : tx'[d] = tx[d]
  BY <1>1, IdleType, InvTypes
<1>3. entries' \in Seq(Entry)
  BY <1>1, InvTypes, ConcatProperties DEF Transaction
<1>4. lock = {c} /\ lock' = {}
  BY <1>1, InvTypes DEF PgInv, OneHolder
<1>5. \A d \in Caller : tx'[d].at \notin {"staged", "denied"}
  BY <1>2, <1>4, InvTypes
<1>6. MemoryOK'
  <2>1. \A d \in Caller : tx'[d].at \in Place /\ tx'[d].row \in Seq(Row)
    BY <1>2 DEF Transaction
  <2>2. /\ denial' \in [Caller -> DenialLog] /\ cache' \in [Worker -> Balance]
        /\ \A d \in Caller : denial'[d].at \in {"none", "spawned", "read"}
    BY <1>1, InvTypes DEF DenialLog
  <2>3. lock' = {d \in Caller : tx'[d].at \in {"staged", "denied"}}
    BY <1>4, <1>5
  <2> QED  BY <1>2, <1>3, <2>1, <2>2, <2>3, CommitWrites DEF MemoryOK, PgTypeOK
<1>7. OneHolder' /\ StagedFromCurrent'
  BY <1>4, <1>5 DEF OneHolder, StagedFromCurrent
<1>8. LoansHaveTokens'
  BY <1>2, CommitWrites DEF PgInv, LoansHaveTokens
<1> QED  BY <1>6, <1>7, <1>8 DEF PgInv
-----------------------------------------------------------------------------
LEMMA StutterKeepsInv == ASSUME PgInv, UNCHANGED pgVars PROVE PgInv'
<1>1. UNCHANGED <<session, row, entries, lock, tx, cache, denial>>
  BY DEF pgVars, db
<1>2. MemoryOK' /\ OneHolder' /\ LoansHaveTokens'
  BY <1>1 DEF PgInv, MemoryOK, PgTypeOK, OneHolder, LoansHaveTokens
<1>3. StagedFromCurrent'
  BY <1>1, WritesKept DEF PgInv, StagedFromCurrent
<1> QED  BY <1>2, <1>3 DEF PgInv

\* All steps but the commits, which leave the committed rows as they are.
Uncommitting(c) ==
  \/ Request(c)
  \/ Fetch(c) \/ Store(c) \/ Count(c) \/ CountRest(c)
  \/ RaiseDenied(c) \/ Extend(c) \/ Rollback(c)
  \/ ReadForLog(c) \/ LogDenial(c)

LEMMA StepKinds ==
  PgNext <=> \/ \E c \in Caller : Commit(c)
             \/ \E c \in Caller : Uncommitting(c)
             \/ \E w \in Worker : Crash(w)
BY DEF PgNext, Proceed, Uncommitting

LEMMA RowsStay ==
  ASSUME \/ \E c \in Caller : Uncommitting(c)
         \/ \E w \in Worker : Crash(w)
         \/ UNCHANGED pgVars
  PROVE  UNCHANGED <<session, row>>
BY ZenonT(30) DEF Uncommitting, Request, Allocate, AllocateDenied, Settle, Ask, Fetch,
       Store, Count, CountRest, RaiseDenied, Extend, Rollback, ReadForLog,
       LogDenial, Crash, pgVars, db

LEMMA UncommittingKeepsInv ==
  ASSUME PgInv, NEW c \in Caller, Uncommitting(c) PROVE PgInv'
<1>1. ASSUME Request(c) PROVE PgInv'
  <2>1. \/ \E x \in Amount : Allocate(c, x) \/ AllocateDenied(c, x)
        \/ \E t \in DOMAIN row, s \in Spend : Settle(c, t, s)
        \/ \E t \in DOMAIN row, x \in Amount : Ask(c, t, x)
    BY <1>1 DEF Request
  <2> QED  BY <2>1, AllocateKeepsInv, DeniedKeepsInv, SettleKeepsInv, AskKeepsInv
<1>2. ASSUME RaiseDenied(c) \/ Rollback(c) PROVE PgInv'
  BY <1>2, IdleStep, InvTypes DEF RaiseDenied, Rollback
<1> QED  BY <1>1, <1>2, ReadingKeepsInv, ExtendKeepsInv, LogKeepsInv
         DEF Uncommitting

LEMMA InvStep == ASSUME PgInv, [PgNext]_pgVars PROVE PgInv'
BY StepKinds, CommitKeepsInv, UncommittingKeepsInv, CrashKeepsInv,
   StutterKeepsInv

LEMMA InvInit == PgInit => PgInv
<1> SUFFICES ASSUME PgInit PROVE PgInv
  OBVIOUS
<1>1. << >> \in Seq(Row) /\ << >> \in Seq(Entry)
  BY EmptySeq
<1>2. \A c \in Caller : tx[c].at = "idle"
  BY IdleType DEF PgInit
<1>3. MemoryOK
  <2>1. Opening \in Balance /\ NoLog \in DenialLog
    BY DEF Opening, Balance, NoLog, DenialLog
  <2>2. tx \in [Caller -> Transaction] /\ denial \in [Caller -> DenialLog]
    BY <2>1, IdleType DEF PgInit
  <2>3. \A c \in Caller : tx[c].at \in Place /\ tx[c].row \in Seq(Row)
    BY <2>2 DEF Transaction
  <2>4. \A c \in Caller : denial[c].at \in {"none", "spawned", "read"}
    BY <2>2 DEF DenialLog
  <2>5. lock = {c \in Caller : tx[c].at \in {"staged", "denied"}}
    BY <1>2 DEF PgInit
  <2> QED  BY <1>1, <2>1, <2>2, <2>3, <2>4, <2>5
           DEF MemoryOK, PgTypeOK, PgInit
<1>4. OneHolder /\ StagedFromCurrent /\ LoansHaveTokens
  BY <1>2 DEF PgInit, OneHolder, StagedFromCurrent, LoansHaveTokens
<1> QED  BY <1>3, <1>4 DEF PgInv

LEMMA Invariant == PgSpec => []PgInv
<1>1. PgInv /\ [PgNext]_pgVars => PgInv'
  BY InvStep
<1> QED  BY <1>1, InvInit, PTL DEF PgSpec

(* The tables and every worker's memory keep their types, and the row lock   *)
(* is held by exactly the transactions that have written.                    *)
THEOREM PgTypeCorrect == PgSpec => []PgTypeOK
<1>1. PgInv => PgTypeOK
  BY DEF PgInv, MemoryOK
<1> QED  BY <1>1, Invariant, PTL

LEMMA BooksStep ==
  ASSUME PgInv, PgConservation, [PgNext]_pgVars PROVE PgConservation'
<1>1. ASSUME NEW c \in Caller, Commit(c) PROVE PgConservation'
  BY <1>1, CommitWrites, BooksKept, InvTypes
<1>2. ASSUME UNCHANGED <<session, row>> PROVE PgConservation'
  BY <1>2 DEF PgConservation, Active, Settled
<1> QED  BY <1>1, <1>2, StepKinds, RowsStay

(* The session row is the sum of the allocation rows, for any number of      *)
(* workers, whichever of their commits fail and whichever of them crash.     *)
THEOREM PgMoneyConserved == PgSpec => []PgConservation
<1>1. PgInit => PgConservation
  <2> SUFFICES ASSUME PgInit PROVE PgConservation
    OBVIOUS
  <2>1. Active = {} /\ Settled = {}
    BY DEF PgInit, Active, Settled
  <2> QED  BY <2>1, SumEmpty DEF PgInit, PgConservation, Opening
<1>2. PgInv /\ PgConservation /\ [PgNext]_pgVars => PgConservation'
  BY BooksStep
<1> QED  BY <1>1, <1>2, Invariant, PTL DEF PgSpec
-----------------------------------------------------------------------------
(* The allocation rows are the claims of a clearinghouse, and what the       *)
(* session row leaves is what that clearinghouse has free.                   *)
LEMMA RowsAreClaims ==
  ASSUME row \in Seq(Row)
  PROVE  /\ PgClaims \in Seq(CH!Claim) /\ Len(PgClaims) = Len(row)
         /\ DOMAIN PgClaims = DOMAIN row
         /\ CH!OpenClaims = Active /\ DOMAIN PgClaims \ CH!OpenClaims = Settled
<1>1. DOMAIN PgClaims = DOMAIN row
  BY DEF PgClaims
<1>2. \A t \in DOMAIN row : PgClaims[t] \in CH!Claim
  BY TableRows DEF PgClaims, CH!Claim, Row
<1>3. PgClaims \in [1 .. Len(row) -> CH!Claim]
  BY <1>1, <1>2, TableRows DEF PgClaims
<1>4. Len(row) \in Nat
  BY TableRows
<1>5. PgClaims \in Seq(CH!Claim)
  BY <1>3, <1>4, SeqDef
<1>6. Len(PgClaims) = Len(row)
  BY <1>1, <1>4, <1>5, LenProperties, TableRows
<1>7. CH!OpenClaims = Active
  BY <1>1 DEF CH!OpenClaims, PgClaims, Active
<1>8. DOMAIN PgClaims \ CH!OpenClaims = Settled
  BY <1>1, <1>7 DEF Settled
<1> QED  BY <1>1, <1>5, <1>6, <1>7, <1>8

LEMMA SameSum == \A f, S : CH!SumOver(f, S) = SumOver(f, S)
BY DEF CH!SumOver, CH!Coins, CH!Cardinality, SumOver, Coins, Cardinality

LEMMA FreeIsAvailable ==
  ASSUME row \in Seq(Row), PgConservation PROVE CH!Free = Available
<1> DEFINE ceilings == [t \in DOMAIN PgClaims |-> PgClaims[t].ceiling]
           spends == [t \in DOMAIN PgClaims |-> PgClaims[t].spent]
<1>1. DOMAIN PgClaims = DOMAIN row /\ CH!OpenClaims = Active
      /\ DOMAIN PgClaims \ CH!OpenClaims = Settled
  BY RowsAreClaims
<1>2. \A t \in DOMAIN row : ceilings[t] = Ceilings[t] /\ spends[t] = Spends[t]
  BY <1>1 DEF PgClaims, Ceilings, Spends
<1> HIDE DEF ceilings, spends
<1>3. /\ SumOver(ceilings, Active) = SumOver(Ceilings, Active)
      /\ SumOver(spends, Settled) = SumOver(Spends, Settled)
  BY <1>2, TableRows, SumSame
<1>4. CH!Held = session.committed
  BY <1>1, <1>3, SameSum, Books DEF CH!Held, ceilings
<1>5. CH!Spent = session.spent
  BY <1>1, <1>3, SameSum, Books DEF CH!Spent, spends
<1> QED  BY <1>4, <1>5 DEF CH!Free, Available, AvailableIn

(* A committed allocation opens a claim.                                     *)
LEMMA OpensAClaim ==
  ASSUME row \in Seq(Row), PgConservation, NEW x \in Nat,
         Opens(x, session', row')
  PROVE  CH!Open(x)
<1> DEFINE new == [ceiling |-> x, spent |-> 0, open |-> TRUE]
           n == Len(row) + 1
           longer == Append(PgClaims, new)
<1>1. CH!Free > 0 /\ x <= CH!Free
  BY FreeIsAvailable DEF Opens
<1>2. /\ row' \in Seq(Row)
      /\ DOMAIN row' = DOMAIN row \cup {n} /\ n \notin DOMAIN row
      /\ \A u \in DOMAIN row : row'[u] = row[u]
      /\ row'[n] = NewRow(x)
  BY OpenedRows DEF Opens
<1>3. row'[n].status = "active" /\ row'[n].ceiling = x /\ row'[n].spent = 0
  BY <1>2 DEF NewRow
<1>4. new \in CH!Claim
  BY DEF CH!Claim
<1>5. /\ longer \in Seq(CH!Claim) /\ Len(longer) = n
      /\ \A u \in DOMAIN row : longer[u] = PgClaims[u]
      /\ longer[n] = new
  <2> HIDE DEF new
  <2>1. PgClaims \in Seq(CH!Claim) /\ Len(PgClaims) = Len(row)
        /\ DOMAIN row = 1 .. Len(row)
    BY RowsAreClaims, TableRows
  <2> QED  BY <1>4, <2>1, AppendProperties
<1>6. DOMAIN row' = 1 .. n
  BY <1>2, TableRows
<1> HIDE DEF n, longer
<1>7. \A u \in 1 .. n :
        longer[u] = [ceiling |-> row'[u].ceiling, spent |-> row'[u].spent,
                     open |-> u \in Active']
  <2>1. SUFFICES ASSUME NEW u \in 1 .. n
                 PROVE  longer[u] = [ceiling |-> row'[u].ceiling,
                                     spent |-> row'[u].spent,
                                     open |-> u \in Active']
    OBVIOUS
  <2>2. CASE u = n
    <3>1. (n \in Active') = TRUE
      BY <1>2, <1>3 DEF Active
    <3> QED  BY <1>3, <1>5, <2>2, <3>1
  <2>3. CASE u # n
    <3>1. u \in DOMAIN row
      BY <1>2, <1>6, <2>3
    <3>2. (u \in Active') = (u \in Active) /\ row'[u] = row[u]
      BY <1>2, <3>1 DEF Active
    <3>3. longer[u] = PgClaims[u]
      BY <1>5, <3>1
    <3>4. PgClaims[u] = [ceiling |-> row[u].ceiling, spent |-> row[u].spent,
                         open |-> u \in Active]
      BY <3>1 DEF PgClaims
    <3> QED  BY <3>2, <3>3, <3>4
  <2> QED  BY <2>2, <2>3
<1>8. longer = [u \in 1 .. n |-> longer[u]]
  <2>1. longer \in [1 .. n -> CH!Claim]
    BY <1>5, LenProperties
  <2> QED  BY <2>1
<1>9. PgClaims' = longer
  BY <1>6, <1>7, <1>8 DEF PgClaims
<1> QED  BY <1>1, <1>9 DEF CH!Open, longer

(* A committed extension raises the claim of its token.                      *)
LEMMA RaisesAClaim ==
  ASSUME row \in Seq(Row), NEW t \in Active, NEW x \in Nat,
         Raises(t, x, session', row')
  PROVE  t \in DOMAIN PgClaims /\ CH!Raise(t, x)
<1>1. t \in DOMAIN row /\ row' = RaisedTo(t, x)
  BY TableRows DEF Raises
<1>2. /\ DOMAIN row' = DOMAIN row
      /\ \A u \in DOMAIN row \ {t} : row'[u] = row[u]
      /\ row'[t].ceiling = row[t].ceiling + x /\ row'[t].spent = row[t].spent
      /\ row'[t].status = row[t].status
  BY <1>1, RaisedRows
<1>3. Active' = Active
  BY <1>2 DEF Active
<1>4. /\ t \in DOMAIN PgClaims /\ DOMAIN PgClaims = DOMAIN row
      /\ PgClaims[t].open /\ PgClaims[t].ceiling = row[t].ceiling
  BY <1>1 DEF PgClaims
<1>5. PgClaims' = [PgClaims EXCEPT ![t].ceiling = @ + x]
  <2> DEFINE raised == [PgClaims EXCEPT ![t].ceiling = @ + x]
  <2>1. \A u \in DOMAIN row :
          [ceiling |-> row'[u].ceiling, spent |-> row'[u].spent,
           open |-> u \in Active'] = raised[u]
    BY <1>2, <1>3, <1>4 DEF PgClaims
  <2>2. raised = [u \in DOMAIN row |-> raised[u]]
    BY <1>4
  <2>3. PgClaims' = [u \in DOMAIN row' |->
                       [ceiling |-> row'[u].ceiling, spent |-> row'[u].spent,
                        open |-> u \in Active']]
    BY DEF PgClaims
  <2> HIDE DEF raised
  <2>4. PgClaims' = raised
    BY <1>2, <2>1, <2>2, <2>3
  <2> QED  BY <2>4 DEF raised
<1> QED  BY <1>4, <1>5 DEF CH!Raise

(* A committed settlement closes the claim of its token.                     *)
LEMMA ClosesAClaim ==
  ASSUME row \in Seq(Row), NEW t \in Active, NEW s \in Nat,
         Closes(t, s, session', row')
  PROVE  /\ t \in DOMAIN PgClaims /\ s \in 0 .. PgClaims[t].ceiling
         /\ CH!Close(t, s)
<1>1. t \in DOMAIN row /\ row' = ClosedTo(t, s) /\ s <= row[t].ceiling
  BY TableRows DEF Closes
<1>2. /\ DOMAIN row' = DOMAIN row
      /\ \A u \in DOMAIN row \ {t} : row'[u] = row[u]
      /\ row'[t].ceiling = row[t].ceiling /\ row'[t].spent = s
      /\ row'[t].status = "settled"
  BY <1>1, ClosedRows
<1>3. /\ t \in DOMAIN PgClaims /\ DOMAIN PgClaims = DOMAIN row
      /\ PgClaims[t].open /\ PgClaims[t].ceiling = row[t].ceiling
  BY <1>1 DEF PgClaims
<1>4. s \in 0 .. PgClaims[t].ceiling
  <2>1. row[t].ceiling \in Nat
    BY <1>1, TableRows DEF Row
  <2> QED  BY <1>1, <1>3, <2>1
<1>5. PgClaims' = [PgClaims EXCEPT ![t].spent = s, ![t].open = FALSE]
  <2> DEFINE closed == [PgClaims EXCEPT ![t].spent = s, ![t].open = FALSE]
  <2>1. ASSUME NEW u \in DOMAIN row
        PROVE  [ceiling |-> row'[u].ceiling, spent |-> row'[u].spent,
                open |-> u \in Active'] = closed[u]
    <3>1. CASE u = t
      <4>1. (u \in Active') = FALSE
        BY <1>2, <3>1 DEF Active
      <4> QED  BY <1>2, <1>3, <3>1, <4>1 DEF PgClaims
    <3>2. CASE u # t
      <4>1. (u \in Active') = (u \in Active) /\ row'[u] = row[u]
        BY <1>2, <3>2 DEF Active
      <4> QED  BY <1>3, <3>2, <4>1 DEF PgClaims
    <3> QED  BY <3>1, <3>2
  <2>2. closed = [u \in DOMAIN row |-> closed[u]]
    BY <1>3
  <2>3. PgClaims' = [u \in DOMAIN row' |->
                       [ceiling |-> row'[u].ceiling, spent |-> row'[u].spent,
                        open |-> u \in Active']]
    BY DEF PgClaims
  <2> HIDE DEF closed
  <2>4. PgClaims' = closed
    BY <1>2, <2>1, <2>2, <2>3
  <2> QED  BY <2>4 DEF closed
<1> QED  BY <1>3, <1>4, <1>5 DEF CH!Close

LEMMA CommitImplements ==
  ASSUME PgInv, PgConservation, NEW c \in Caller, Commit(c)
  PROVE  CH!Next
<1>1. OneWrite(session', row') /\ row \in Seq(Row)
  BY CommitWrites, InvTypes
<1>2. ASSUME NEW x \in Amount, Opens(x, session', row') PROVE CH!Next
  BY <1>1, <1>2, Amounts, OpensAClaim DEF CH!Next
<1>3. ASSUME NEW t \in Active, NEW s \in Nat, Closes(t, s, session', row')
      PROVE  CH!Next
  BY <1>1, <1>3, ClosesAClaim DEF CH!Next
<1>4. ASSUME NEW t \in Active, NEW x \in Amount, Raises(t, x, session', row')
      PROVE  CH!Next
  BY <1>1, <1>4, Amounts, RaisesAClaim DEF CH!Next
<1> QED  BY <1>1, <1>2, <1>3, <1>4 DEF OneWrite

(* The database implements the clearinghouse: each commit is one step of it  *)
(* on the allocation rows, and nothing else touches them.                    *)
THEOREM PgImplements == PgSpec => PgImplementsClearinghouse
<1>1. PgInit => CH!Init
  <2> SUFFICES ASSUME PgInit PROVE PgClaims = << >>
    BY DEF CH!Init
  <2>1. row \in Seq(Row) /\ Len(row) = 0
    BY EmptySeq DEF PgInit
  <2>2. PgClaims \in Seq(CH!Claim) /\ Len(PgClaims) = 0
    BY <2>1, RowsAreClaims
  <2> QED  BY <2>2, EmptySeq
<1>2. PgInv /\ PgConservation /\ [PgNext]_pgVars => [CH!Next]_PgClaims
  <2>1. ASSUME UNCHANGED <<session, row>> PROVE UNCHANGED PgClaims
    BY <2>1 DEF PgClaims, Active
  <2> QED  BY <2>1, StepKinds, RowsStay, CommitImplements
<1> QED  BY <1>1, <1>2, Invariant, PgMoneyConserved, PTL
         DEF PgSpec, PgImplementsClearinghouse, CH!Spec
-----------------------------------------------------------------------------
(* What a snapshot under way has seen, of a table that others change: rows   *)
(* are never removed, and a settled row stays settled.                       *)
SeenSoFar(c) ==
  /\ tx[c].at \in {"fetched", "counting"} => tx[c].tok <= Len(row)
  /\ tx[c].at = "counted" => tx[c].tok <= tx[c].amount + Cardinality(Settled)

SnapshotsSee == \A c \in Caller : SeenSoFar(c)

LEMMA SettledStay ==
  ASSUME PgInv, NEW c \in Caller, Commit(c)
  PROVE  /\ Settled \subseteq Settled' /\ IsFiniteSet(Settled')
         /\ Len(row) <= Len(row') /\ Len(row) \in Nat /\ Len(row') \in Nat
<1>1. row \in Seq(Row) /\ row' \in Seq(Row) /\ OneWrite(session', row')
  BY CommitWrites, InvTypes
<1>2. /\ DOMAIN row = 1 .. Len(row) /\ Len(row) \in Nat
      /\ DOMAIN row' = 1 .. Len(row') /\ Len(row') \in Nat
  BY <1>1, LenProperties
<1>3. IsFiniteSet(Settled')
  <2>1. IsFiniteSet(DOMAIN row')
    BY <1>2, FS_Interval
  <2>2. Settled' \subseteq DOMAIN row'
    BY DEF Settled
  <2> QED  BY <2>1, <2>2, FS_Subset
<1>4. Len(row) <= Len(row')
  <2>1. DOMAIN row \subseteq DOMAIN row'
    BY CommitWrites
  <2> QED  BY <1>2, <2>1
<1>5. ASSUME NEW x \in Amount, Opens(x, session', row')
      PROVE  \A t \in DOMAIN row : row'[t] = row[t]
  <2>1. row' = Append(row, NewRow(x)) /\ x \in Nat
    BY <1>5, Amounts DEF Opens
  <2> QED  BY <1>1, <2>1, OpenedRows
<1>6. ASSUME NEW u \in Active, NEW s \in Nat, Closes(u, s, session', row')
      PROVE  \A t \in DOMAIN row \ {u} : row'[t] = row[t]
  <2>1. row' = ClosedTo(u, s) /\ u \in DOMAIN row
    BY <1>1, <1>6, TableRows DEF Closes
  <2> QED  BY <1>1, <2>1, ClosedRows
<1>7. ASSUME NEW u \in Active, NEW x \in Amount, Raises(u, x, session', row')
      PROVE  \A t \in DOMAIN row \ {u} : row'[t] = row[t]
  <2>1. row' = RaisedTo(u, x) /\ u \in DOMAIN row /\ x \in Nat
    BY <1>1, <1>7, TableRows, Amounts DEF Raises
  <2> QED  BY <1>1, <2>1, RaisedRows
<1>8. \A t \in Settled : row'[t] = row[t]
  BY <1>1, <1>5, <1>6, <1>7 DEF OneWrite, Settled
<1>9. Settled \subseteq Settled'
  <2>1. DOMAIN row \subseteq DOMAIN row'
    BY CommitWrites
  <2> QED  BY <1>8, <2>1 DEF Settled, Active
<1> QED  BY <1>2, <1>3, <1>4, <1>9

LEMMA AllRowsCounted ==
  ASSUME row \in Seq(Row)
  PROVE  Len(row) = Cardinality(Active) + Cardinality(Settled)
<1>1. Active \cap Settled = {} /\ Active \cup Settled = DOMAIN row
  BY TableRows DEF Settled
<1>2. Cardinality(Active \cup Settled)
        = Cardinality(Active) + Cardinality(Settled) - Cardinality(Active \cap Settled)
  BY TableRows, FS_Union
<1>3. Cardinality(Active \cap Settled) = 0
  BY <1>1, FS_EmptySet
<1>4. Cardinality(DOMAIN row) = Len(row)
  <2>1. DOMAIN row = 1 .. Len(row) /\ Len(row) \in Nat
    BY TableRows
  <2>2. Cardinality(1 .. Len(row)) = Len(row)
    BY <2>1, FS_Interval, SMTT(20)
  <2> QED  BY <2>1, <2>2
<1>5. Cardinality(Active) \in Nat /\ Cardinality(Settled) \in Nat
  BY TableRows, FS_CardinalityType
<1> QED  BY <1>1, <1>2, <1>3, <1>4, <1>5

LEMMA SeenStep ==
  ASSUME PgInv, SnapshotsSee, [PgNext]_pgVars PROVE SnapshotsSee'
<1>1. /\ \A d \in Caller : tx[d] \in Transaction /\ SeenSoFar(d)
      /\ row \in Seq(Row) /\ tx \in [Caller -> Transaction]
  BY InvTypes DEF SnapshotsSee
<1>2. ASSUME NEW d \in Caller, tx'[d] = tx[d], UNCHANGED <<session, row>>
      PROVE  SeenSoFar(d)'
  <2>1. Settled' = Settled
    BY <1>2 DEF Settled, Active
  <2> QED  BY <1>1, <1>2, <2>1 DEF SeenSoFar
<1>3. ASSUME NEW d \in Caller, tx'[d].at \notin Reading
      PROVE  SeenSoFar(d)'
  BY <1>3 DEF SeenSoFar, Reading
<1>4. ASSUME NEW c \in Caller, Commit(c) PROVE SnapshotsSee'
  <2>1. SUFFICES ASSUME NEW d \in Caller PROVE SeenSoFar(d)'
    BY DEF SnapshotsSee
  <2>2. CASE d = c
    <3>1. tx'[d].at = "idle"
      BY <1>1, <1>4, <2>2, IdleType DEF Commit
    <3> QED  BY <1>3, <3>1 DEF Reading
  <2>3. CASE d # c
    <3>1. tx'[d] = tx[d]
      BY <1>1, <1>4, <2>3 DEF Commit
    <3>2. Cardinality(Settled) <= Cardinality(Settled')
          /\ Cardinality(Settled) \in Nat /\ Cardinality(Settled') \in Nat
      BY <1>1, <1>4, SettledStay, TableRows, FS_Subset, FS_CardinalityType
    <3>3. Len(row) <= Len(row') /\ Len(row) \in Nat /\ Len(row') \in Nat
      BY <1>4, SettledStay
    <3>4. tx[d].tok \in Nat /\ tx[d].amount \in Nat
      BY <1>1 DEF Transaction
    <3> QED  BY <1>1, <3>1, <3>2, <3>3, <3>4 DEF SeenSoFar
  <2> QED  BY <2>2, <2>3
<1>5. ASSUME NEW c \in Caller, Uncommitting(c) PROVE SnapshotsSee'
  <2>1. UNCHANGED <<session, row>>
    BY <1>5, RowsStay
  <2>2. SUFFICES ASSUME NEW d \in Caller, tx'[d] # tx[d] PROVE SeenSoFar(d)'
    BY <1>2, <2>1 DEF SnapshotsSee
  <2>3. d = c /\ ~ReadForLog(c) /\ ~LogDenial(c)
    BY <1>1, <1>5, <2>2
       DEF Uncommitting, Request, Allocate, AllocateDenied, Settle, Stage, Ask,
           Fetch, Store, Count, CountRest, RaiseDenied, Extend, Rollback,
           ReadForLog, LogDenial
  <2>4. CASE Fetch(c)
    <3>1. tx'[c].at = "fetched" /\ tx'[c].tok = Len(row)
      BY <1>1, <2>4 DEF Fetch, Transaction
    <3>2. Len(row) \in Nat
      BY <1>1, TableRows
    <3> QED  BY <2>1, <2>3, <3>1, <3>2 DEF SeenSoFar
  <2>5. CASE Store(c)
    <3>1. \/ tx'[c].at = "idle"
          \/ tx'[c].at = "counting" /\ tx'[c].tok = tx[c].tok
      BY <1>1, <2>5, IdleType DEF Store, Idle
    <3>2. tx[c].tok <= Len(row)
      BY <1>1, <2>5 DEF Store, SeenSoFar
    <3> QED  BY <2>1, <2>3, <3>1, <3>2 DEF SeenSoFar
  <2>6. CASE Count(c)
    <3>1. /\ tx'[c].at = "counted" /\ tx'[c].tok = tx[c].tok
          /\ tx'[c].amount = Cardinality(Active)
      BY <1>1, <2>6 DEF Count, CountedBy, Transaction
    <3>2. tx[c].tok <= Len(row)
      BY <1>1, <2>6 DEF Count, SeenSoFar
    <3>3. Len(row) = Cardinality(Active) + Cardinality(Settled)
      BY <1>1, AllRowsCounted
    <3>4. Settled' = Settled
      BY <2>1 DEF Settled, Active
    <3> QED  BY <2>3, <3>1, <3>2, <3>3, <3>4 DEF SeenSoFar
  <2>7. CASE CountRest(c) \/ RaiseDenied(c) \/ Rollback(c)
    <3>1. tx'[c].at = "idle"
      BY <1>1, <2>7, IdleType DEF CountRest, RaiseDenied, Rollback
    <3> QED  BY <1>3, <2>3, <3>1 DEF Reading
  <2>8. CASE Extend(c)
    <3>1. tx'[c].at \in {"idle", "staged"}
      BY <1>1, <2>8, IdleType DEF Extend, Stage
    <3> QED  BY <1>3, <2>3, <3>1 DEF Reading
  <2>9. CASE Request(c)
    <3>1. tx'[c].at \in {"idle", "staged", "denied", "approved"}
      <4>1. ASSUME NEW x \in Amount, Allocate(c, x)
            PROVE  tx'[c].at = "staged"
        BY <1>1, <4>1 DEF Allocate, Stage
      <4>2. ASSUME NEW x \in Amount, AllocateDenied(c, x)
            PROVE  tx'[c].at = "denied"
        BY <1>1, <4>2 DEF AllocateDenied
      <4>3. ASSUME NEW t \in DOMAIN row, NEW s \in Spend, Settle(c, t, s)
            PROVE  tx'[c].at = "staged"
        BY <1>1, <4>3 DEF Settle, Stage
      <4>4. ASSUME NEW t \in DOMAIN row, NEW x \in Amount, Ask(c, t, x)
            PROVE  tx'[c].at \in {"idle", "approved"}
        BY <1>1, <4>4 DEF Ask, Idle
      <4> QED  BY <2>9, <4>1, <4>2, <4>3, <4>4 DEF Request
    <3> QED  BY <1>3, <2>3, <3>1 DEF Reading
  <2> QED  BY <1>5, <2>3, <2>4, <2>5, <2>6, <2>7, <2>8, <2>9 DEF Uncommitting
<1>6. ASSUME NEW w \in Worker, Crash(w) PROVE SnapshotsSee'
  <2>1. UNCHANGED <<session, row>>
    BY <1>6, RowsStay
  <2>2. SUFFICES ASSUME NEW d \in Caller PROVE SeenSoFar(d)'
    BY DEF SnapshotsSee
  <2>3. tx'[d] = tx[d] \/ tx'[d].at = "idle"
    BY <1>6, IdleType DEF Crash
  <2> QED  BY <1>2, <1>3, <2>1, <2>3 DEF Reading
<1>7. ASSUME UNCHANGED pgVars PROVE SnapshotsSee'
  BY <1>2, <1>7 DEF SnapshotsSee, pgVars, db
<1> QED  BY <1>4, <1>5, <1>6, <1>7, StepKinds

(* A snapshot misses no token that existed when it began.                    *)
THEOREM SnapshotIsComplete == PgSpec => SnapshotMissesNoToken
<1>1. PgInit => SnapshotsSee
  BY IdleType DEF PgInit, SnapshotsSee, SeenSoFar
<1>2. PgInv /\ SnapshotsSee /\ [PgNext]_pgVars => SnapshotsSee'
  BY SeenStep
<1>3. SnapshotsSee
        => [\A c \in Caller :
              CountRest(c) =>
                tx[c].tok <= tx[c].amount + Cardinality(CountedBy("counted"))]_pgVars
  BY DEF SnapshotsSee, SeenSoFar, CountRest, CountedBy
<1> QED  BY <1>1, <1>2, <1>3, Invariant, PTL DEF PgSpec, SnapshotMissesNoToken
-----------------------------------------------------------------------------
(* The audit row a transaction has staged continues from the balance of the  *)
(* session row as it still is, and carries the one it will become.           *)
RowBooks(s, rows) ==
  \E e \in Entry :
    /\ rows = <<e>> /\ e.event \in {"granted", "extended", "released"}
    /\ e.available = AvailableIn(s)
    /\ e.available = Available + PgEffect(e)

RowsContinue ==
  \A c \in Caller : tx[c].at = "staged" => RowBooks(tx[c].session, tx[c].entry)

\* What a staging step makes of the transaction of its caller.
StagesRow(c) ==
  /\ \A d \in Caller \ {c} : tx'[d] = tx[d]
  /\ RowBooks(tx'[c].session, tx'[c].entry)

LEMMA StageBooks ==
  ASSUME PgInv, NEW c \in Caller, NEW new \in Balance, NEW rows,
         NEW event \in {"granted", "extended", "released"},
         NEW t \in Nat, NEW amount \in Nat, NEW yielded \in Nat,
         Stage(c, new, rows, event, t, amount, yielded),
         event = "released" => AvailableIn(new) = Available + yielded,
         event # "released" => AvailableIn(new) = Available - amount
  PROVE  StagesRow(c)
<1> DEFINE e == [event |-> event, token |-> t, amount |-> amount,
                 yielded |-> yielded, available |-> AvailableIn(new)]
<1>1. /\ \A d \in Caller \ {c} : tx'[d] = tx[d]
      /\ tx'[c].session = new /\ tx'[c].entry = <<e>>
  BY InvTypes DEF Stage
<1>2. AvailableIn(new) \in Int
  BY InvTypes DEF AvailableIn, Balance
<1>3. e \in Entry
  BY <1>2 DEF Entry
<1>4. e.available = Available + PgEffect(e)
  <2>1. CASE event = "released"
    BY <2>1 DEF PgEffect
  <2>2. CASE event # "released"
    <3>1. PgEffect(e) = -amount
      BY <2>2 DEF PgEffect
    <3> QED  BY <2>2, <3>1, InvTypes
  <2> QED  BY <2>1, <2>2
<1>5. e.event \in {"granted", "extended", "released"} /\ e.available = AvailableIn(new)
  OBVIOUS
<1> HIDE DEF e
<1> QED  BY <1>1, <1>3, <1>4, <1>5 DEF StagesRow, RowBooks

\* The three transactions stage rows that continue from the balance.
Writes(c) ==
  \/ \E x \in Amount : Allocate(c, x)
  \/ \E t \in DOMAIN row, s \in Spend : Settle(c, t, s)
  \/ Extend(c) /\ row[tx[c].tok].status = "active"

LEMMA WritesBook ==
  ASSUME PgInv, NEW c \in Caller, Writes(c) PROVE StagesRow(c)
<1>1. ASSUME NEW x \in Amount, Allocate(c, x) PROVE StagesRow(c)
  <2> DEFINE new == [session EXCEPT !.committed = @ + x]
             rows == Append(row, NewRow(x))
  <2>1. x \in Nat /\ Len(row) + 1 \in Nat
    BY Amounts, InvTypes, TableRows
  <2>2. new \in Balance /\ AvailableIn(new) = Available - x
    BY <2>1, CommitsMore, InvTypes DEF AvailableIn, Available, Balance
  <2>3. Stage(c, new, rows, "granted", Len(row) + 1, x, 0)
    BY <1>1 DEF Allocate, NewRow
  <2> HIDE DEF new, rows
  <2> QED  BY <2>1, <2>2, <2>3, StageBooks
<1>2. ASSUME NEW t \in DOMAIN row, NEW s \in Spend, Settle(c, t, s)
      PROVE  StagesRow(c)
  <2> DEFINE spend == Smaller(Larger(s, 0), row[t].ceiling)
             new == [committed |-> session.committed - row[t].ceiling,
                     spent |-> session.spent + spend]
             rows == [row EXCEPT ![t].status = "settled", ![t].spent = spend]
  <2>1. row[t].ceiling \in Nat /\ t \in Nat
    BY InvRows
  <2>2. spend \in Nat /\ spend <= row[t].ceiling /\ row[t].ceiling - spend \in Nat
    BY <2>1, Amounts DEF Smaller, Larger
  <2>3. Stage(c, new, rows, "released", t, spend, row[t].ceiling - spend)
    BY <1>2 DEF Settle
  <2> HIDE DEF spend
  <2>4. new \in Balance
    BY <2>1, <2>2, InvTypes, SMTT(20) DEF Balance
  <2>5. AvailableIn(new) = Available + (row[t].ceiling - spend)
    <3>1. /\ new.committed = session.committed - row[t].ceiling
          /\ new.spent = session.spent + spend
      OBVIOUS
    <3>2. /\ session.committed \in Int /\ session.spent \in Int
          /\ TotalBudget \in Int
      BY InvTypes
    <3> HIDE DEF new, rows
    <3> QED  BY <2>1, <2>2, <3>1, <3>2 DEF AvailableIn, Available
  <2> HIDE DEF new, rows
  <2> QED  BY <2>1, <2>2, <2>3, <2>4, <2>5, StageBooks
<1>3. ASSUME Extend(c), row[tx[c].tok].status = "active" PROVE StagesRow(c)
  <2> DEFINE t == tx[c].tok
             x == tx[c].amount
             new == [session EXCEPT !.committed = @ + x]
             rows == [row EXCEPT ![t].ceiling = @ + x, ![t].extensions = @ + x]
  <2>1. t \in DOMAIN row /\ x \in Amount
    BY <1>3 DEF Extend, PgInv, LoansHaveTokens
  <2>2. x \in Nat /\ t \in Nat
    BY <2>1, Amounts, InvRows
  <2>3. Stage(c, new, rows, "extended", t, x, 0)
    BY <1>3 DEF Extend
  <2> HIDE DEF t, x
  <2>4. new \in Balance /\ AvailableIn(new) = Available - x
    BY <2>2, CommitsMore, InvTypes DEF AvailableIn, Available, Balance
  <2> HIDE DEF new, rows
  <2> QED  BY <2>2, <2>3, <2>4, StageBooks
<1> QED  BY <1>1, <1>2, <1>3 DEF Writes

(* Every other step that is not a commit leaves what is staged as it was, or *)
(* drops it.                                                                 *)
LEMMA OthersStageNothing ==
  ASSUME PgInv, NEW c \in Caller, Uncommitting(c), ~Writes(c),
         NEW d \in Caller, tx'[d].at = "staged"
  PROVE  tx'[d] = tx[d]
<1>1. tx \in [Caller -> Transaction]
  BY InvTypes
<1>2. ASSUME NEW x \in Amount, AllocateDenied(c, x) PROVE tx'[d] = tx[d]
  BY <1>1, <1>2 DEF AllocateDenied
<1>3. ASSUME NEW t \in DOMAIN row, NEW x \in Amount, Ask(c, t, x)
      PROVE  tx'[d] = tx[d]
  BY <1>1, <1>3 DEF Ask, Idle
<1>4. CASE Fetch(c) \/ Store(c) \/ Count(c) \/ CountRest(c)
  <2>1. tx'[c].at # "staged"
    BY <1>1, <1>4, IdleType, ZenonT(30)
    DEF Fetch, Store, Count, CountRest, Transaction
  <2> QED  BY <1>1, <1>4, <2>1 DEF Fetch, Store, Count, CountRest
<1>5. CASE RaiseDenied(c) \/ Rollback(c) \/ ReadForLog(c) \/ LogDenial(c)
  BY <1>1, <1>5, IdleType DEF RaiseDenied, Rollback, ReadForLog, LogDenial
<1>6. CASE Extend(c)
  BY <1>1, <1>6, IdleType DEF Extend, Writes
<1> QED  BY <1>2, <1>3, <1>4, <1>5, <1>6 DEF Uncommitting, Request, Writes

LEMMA ContinueStep ==
  ASSUME PgInv, RowsContinue, [PgNext]_pgVars PROVE RowsContinue'
<1>1. ASSUME UNCHANGED session,
             \A d \in Caller :
               tx'[d].at = "staged" =>
                 \/ tx'[d] = tx[d]
                 \/ RowBooks(tx'[d].session, tx'[d].entry)
      PROVE  RowsContinue'
  <2>1. Available' = Available
    BY <1>1 DEF Available, AvailableIn
  <2>2. SUFFICES ASSUME NEW d \in Caller, tx'[d].at = "staged"
                 PROVE  RowBooks(tx[d].session, tx[d].entry)'
    BY DEF RowsContinue
  <2>3. RowBooks(tx'[d].session, tx'[d].entry)
    BY <1>1, <2>2 DEF RowsContinue
  <2> QED  BY <2>1, <2>3 DEF RowBooks
<1>2. ASSUME NEW c \in Caller, Uncommitting(c) PROVE RowsContinue'
  <2>1. UNCHANGED session
    BY <1>2, RowsStay
  <2>2. CASE Writes(c)
    <3>1. StagesRow(c)
      BY <2>2, WritesBook
    <3> QED  BY <1>1, <2>1, <3>1 DEF StagesRow
  <2>3. CASE ~Writes(c)
    BY <1>1, <1>2, <2>1, <2>3, OthersStageNothing
  <2> QED  BY <2>2, <2>3
<1>3. ASSUME NEW c \in Caller, Commit(c) PROVE RowsContinue'
  <2>1. lock = {c} /\ tx[c].at = "staged"
    BY <1>3, InvTypes DEF PgInv, OneHolder, Commit
  <2>2. \A d \in Caller : tx'[d].at # "staged"
    BY <1>3, <2>1, IdleType, InvTypes DEF Commit
  <2> QED  BY <2>2 DEF RowsContinue
<1>4. ASSUME NEW w \in Worker, Crash(w) PROVE RowsContinue'
  <2>1. \A d \in Caller : tx'[d].at = "staged" => tx'[d] = tx[d]
    BY <1>4, IdleType DEF Crash
  <2>2. UNCHANGED session
    BY <1>4, RowsStay
  <2> QED  BY <1>1, <2>1, <2>2
<1>5. CASE UNCHANGED pgVars
  BY <1>1, <1>5 DEF pgVars, db
<1> QED  BY <1>2, <1>3, <1>4, <1>5, StepKinds
-----------------------------------------------------------------------------
(* What one more audit row does to the rows before it.                       *)
LEMMA AppendedRow ==
  ASSUME entries \in Seq(Entry), NEW e \in Entry, entries' = Append(entries, e),
         NEW n, n = Len(entries)
  PROVE  /\ n \in Nat /\ Len(entries') = n + 1
         /\ DOMAIN entries = 1 .. n /\ DOMAIN entries' = 1 .. (n + 1)
         /\ \A i \in 1 .. n : entries'[i] = entries[i]
         /\ entries'[n + 1] = e
         /\ Booked \subseteq 1 .. n
         /\ Booked' = IF e.event = "refused" THEN Booked ELSE Booked \cup {n + 1}
         /\ \A i \in 1 .. (n + 1), j \in 0 .. n : Precedes(j, i)' <=> Precedes(j, i)
         /\ \A j \in 0 .. n : LeftBy(j)' = LeftBy(j)
<1>1. /\ n \in Nat /\ Len(entries') = n + 1 /\ entries' \in Seq(Entry)
      /\ DOMAIN entries = 1 .. n
      /\ \A i \in 1 .. n : entries'[i] = entries[i]
      /\ entries'[n + 1] = e
  BY AppendProperties, LenProperties
<1>2. DOMAIN entries' = 1 .. (n + 1)
  BY <1>1, LenProperties
<1>3. Booked \subseteq 1 .. n
  BY <1>1 DEF Booked
<1>4. Booked' = IF e.event = "refused" THEN Booked ELSE Booked \cup {n + 1}
  <2>1. \A i : i \in Booked' <=> i \in 1 .. (n + 1) /\ entries'[i].event # "refused"
    BY <1>2 DEF Booked
  <2>2. \A i : i \in Booked <=> i \in 1 .. n /\ entries[i].event # "refused"
    BY <1>1 DEF Booked
  <2>3. \A i : i \in 1 .. (n + 1) <=> i \in 1 .. n \/ i = n + 1
    BY <1>1
  <2>4. \A i : i \in Booked' <=> i \in Booked \/ (i = n + 1 /\ e.event # "refused")
    BY <1>1, <2>1, <2>2, <2>3
  <2> QED  BY <2>4
<1>5. ASSUME NEW i \in 1 .. (n + 1), NEW j \in 0 .. n
      PROVE  Precedes(j, i)' <=> Precedes(j, i)
  <2>1. j # n + 1 /\ i <= n + 1
    BY <1>1
  <2> QED  BY <1>4, <2>1 DEF Precedes
<1>6. \A j \in 0 .. n : LeftBy(j)' = LeftBy(j)
  BY <1>1 DEF LeftBy
<1> QED  BY <1>1, <1>2, <1>3, <1>4, <1>5, <1>6

(* The row of a refused loan is not part of the replay.                      *)
LEMMA RefusalReplays ==
  ASSUME entries \in Seq(Entry), PgAuditReplays, UNCHANGED session,
         NEW e \in Entry, e.event = "refused", entries' = Append(entries, e)
  PROVE  PgAuditReplays'
<1> PICK n : n = Len(entries)
  OBVIOUS
<1>1. /\ n \in Nat /\ Len(entries') = n + 1 /\ Booked' = Booked
      /\ Booked \subseteq 1 .. n
      /\ \A i \in 1 .. n : entries'[i] = entries[i]
      /\ \A i \in 1 .. (n + 1), j \in 0 .. n : Precedes(j, i)' <=> Precedes(j, i)
      /\ \A j \in 0 .. n : LeftBy(j)' = LeftBy(j)
  BY AppendedRow
<1>2. Available' = Available
  BY DEF Available, AvailableIn
<1>3. ASSUME NEW i \in Booked
      PROVE  \E j \in 0 .. (n + 1) :
               Precedes(j, i)' /\ entries'[i].available
                                    = LeftBy(j)' + PgEffect(entries'[i])
  <2>1. PICK j \in 0 .. n :
          Precedes(j, i) /\ entries[i].available = LeftBy(j) + PgEffect(entries[i])
    BY DEF PgAuditReplays
  <2>2. i \in 1 .. n /\ i \in 1 .. (n + 1) /\ j \in 0 .. (n + 1)
    BY <1>1
  <2> QED  BY <1>1, <2>1, <2>2
<1>4. PICK j \in 0 .. n : Precedes(j, n + 1) /\ Available = LeftBy(j)
  BY DEF PgAuditReplays
<1>5. n + 1 \in 1 .. (n + 1) /\ j \in 0 .. (n + 1)
  BY <1>1
<1>6. Precedes(j, (n + 1) + 1)'
  <2>1. /\ j \in Booked \cup {0} /\ j < n + 1
        /\ \A k \in Booked : k <= j \/ n + 1 <= k
    BY <1>4 DEF Precedes
  <2>2. \A k \in Booked : k \in 1 .. n
    BY <1>1
  <2>3. j < (n + 1) + 1 /\ \A k \in Booked : k <= j
    BY <1>1, <2>1, <2>2
  <2> QED  BY <1>1, <2>1, <2>3 DEF Precedes
<1>7. Available' = LeftBy(j)'
  BY <1>1, <1>2, <1>4
<1> QED  BY <1>1, <1>3, <1>5, <1>6, <1>7 DEF PgAuditReplays

(* A commit adds the row that continues from the balance it read.            *)
LEMMA CommitReplays ==
  ASSUME PgInv, RowsContinue, PgAuditReplays, NEW c \in Caller, Commit(c)
  PROVE  PgAuditReplays'
<1> PICK n : n = Len(entries)
  OBVIOUS
<1>1. RowBooks(tx[c].session, tx[c].entry) /\ entries \in Seq(Entry)
  BY InvTypes DEF Commit, RowsContinue
<1>2. PICK e \in Entry :
        /\ tx[c].entry = <<e>> /\ e.event \in {"granted", "extended", "released"}
        /\ e.available = AvailableIn(tx[c].session)
        /\ e.available = Available + PgEffect(e)
  BY <1>1 DEF RowBooks
<1>3. entries' = Append(entries, e)
  <2>1. entries \o <<e>> = Append(entries, e)
    BY <1>1, AppendIsConcat
  <2> QED  BY <1>2, <2>1 DEF Commit
<1>4. Available' = e.available
  BY <1>2 DEF Commit, Available, AvailableIn
<1>5. e.event # "refused"
  BY <1>2
<1>6. /\ n \in Nat /\ Len(entries') = n + 1 /\ Booked' = Booked \cup {n + 1}
      /\ Booked \subseteq 1 .. n
      /\ \A i \in 1 .. n : entries'[i] = entries[i]
      /\ entries'[n + 1] = e
      /\ \A i \in 1 .. (n + 1), j \in 0 .. n : Precedes(j, i)' <=> Precedes(j, i)
      /\ \A j \in 0 .. n : LeftBy(j)' = LeftBy(j)
  BY <1>1, <1>3, <1>5, AppendedRow
<1>7. ASSUME NEW i \in Booked
      PROVE  \E j \in 0 .. (n + 1) :
               Precedes(j, i)' /\ entries'[i].available
                                    = LeftBy(j)' + PgEffect(entries'[i])
  <2>1. PICK j \in 0 .. n :
          Precedes(j, i) /\ entries[i].available = LeftBy(j) + PgEffect(entries[i])
    BY DEF PgAuditReplays
  <2>2. i \in 1 .. n /\ i \in 1 .. (n + 1) /\ j \in 0 .. (n + 1)
    BY <1>6
  <2> QED  BY <1>6, <2>1, <2>2
<1>8. \E j \in 0 .. (n + 1) :
        Precedes(j, n + 1)' /\ entries'[n + 1].available
                                 = LeftBy(j)' + PgEffect(entries'[n + 1])
  <2>1. PICK j \in 0 .. n : Precedes(j, n + 1) /\ Available = LeftBy(j)
    BY DEF PgAuditReplays
  <2>2. n + 1 \in 1 .. (n + 1) /\ j \in 0 .. (n + 1)
    BY <1>6
  <2> QED  BY <1>2, <1>6, <2>1, <2>2
<1>9. Precedes(n + 1, (n + 1) + 1)'
  <2>1. \A k \in Booked \cup {n + 1} : k <= n + 1
    BY <1>6
  <2> QED  BY <1>6, <2>1 DEF Precedes
<1>10. Available' = LeftBy(n + 1)'
  BY <1>4, <1>6 DEF LeftBy
<1>11. n + 1 \in 0 .. (n + 1)
  BY <1>6
<1>12. \A i \in Booked' :
         \E j \in 0 .. (n + 1) :
           Precedes(j, i)' /\ entries'[i].available
                                = LeftBy(j)' + PgEffect(entries'[i])
  BY <1>6, <1>7, <1>8
<1>13. \E j \in 0 .. (n + 1) : Precedes(j, (n + 1) + 1)' /\ Available' = LeftBy(j)'
  BY <1>9, <1>10, <1>11
<1> QED  BY <1>6, <1>12, <1>13 DEF PgAuditReplays

LEMMA ReplayStep ==
  ASSUME PgInv, RowsContinue, PgAuditReplays, [PgNext]_pgVars
  PROVE  PgAuditReplays'
<1>1. ASSUME UNCHANGED <<session, entries>> PROVE PgAuditReplays'
  BY <1>1 DEF PgAuditReplays, Booked, Precedes, LeftBy, Available, AvailableIn
<1>2. ASSUME NEW c \in Caller, LogDenial(c) PROVE PgAuditReplays'
  <2> DEFINE e == [event |-> "refused", token |-> denial[c].tok,
                   amount |-> denial[c].amount, yielded |-> 0,
                   available |-> denial[c].available]
  <2>1. denial[c] \in DenialLog
    BY InvTypes
  <2>2. e \in Entry
    BY <2>1 DEF Entry, DenialLog
  <2>3. /\ e.event = "refused" /\ entries' = Append(entries, e)
        /\ UNCHANGED session /\ entries \in Seq(Entry)
    BY <1>2, InvTypes DEF LogDenial
  <2> HIDE DEF e
  <2> QED  BY <2>2, <2>3, RefusalReplays
<1>3. ASSUME NEW c \in Caller, Uncommitting(c), ~LogDenial(c)
      PROVE  UNCHANGED <<session, entries>>
  BY <1>3 DEF Uncommitting, Request, Allocate, AllocateDenied, Settle, Ask,
              Fetch, Store, Count, CountRest, RaiseDenied, Extend, Rollback,
              ReadForLog, db
<1>4. ASSUME \/ \E w \in Worker : Crash(w)
             \/ UNCHANGED pgVars
      PROVE  UNCHANGED <<session, entries>>
  BY <1>4 DEF Crash, pgVars, db
<1> QED  BY <1>1, <1>2, <1>3, <1>4, CommitReplays, StepKinds

(* The audit rows replay to the balance of the session row in the order of   *)
(* commit, for any number of workers and through every fault; a denial log   *)
(* that comes late, or never, does not disturb the replay.                   *)
THEOREM PgAuditTrailReplays == PgSpec => []PgAuditReplays
<1>1. PgInit => RowsContinue
  BY IdleType DEF PgInit, RowsContinue
<1>2. PgInit => PgAuditReplays
  <2> SUFFICES ASSUME PgInit PROVE PgAuditReplays
    OBVIOUS
  <2>1. entries = << >> /\ Available = TotalBudget
    BY PostgresAssumption DEF PgInit, Opening, Available, AvailableIn
  <2>2. Booked = {} /\ Len(entries) = 0
    BY <2>1 DEF Booked
  <2>3. Precedes(0, 1) /\ LeftBy(0) = TotalBudget
    BY <2>2 DEF Precedes, LeftBy
  <2>4. Len(entries) + 1 = 1 /\ 0 \in 0 .. Len(entries)
    BY <2>2
  <2> QED  BY <2>1, <2>2, <2>3, <2>4 DEF PgAuditReplays
<1>3. PgInv /\ RowsContinue /\ [PgNext]_pgVars => RowsContinue'
  BY ContinueStep
<1>4. PgInv /\ RowsContinue /\ PgAuditReplays /\ [PgNext]_pgVars => PgAuditReplays'
  BY ReplayStep
<1> QED  BY <1>1, <1>2, <1>3, <1>4, Invariant, PTL DEF PgSpec
=============================================================================
