--------------------------- MODULE PgGuardProofs ---------------------------
(* The guarded calls over the shared database, for every number of workers   *)
(* and of calls, whatever the wrapped functions do, whichever replies are    *)
(* lost and whichever workers crash.                                         *)
(*                                                                           *)
(* The invariant follows one call through its wrapper (CallOK) and, while    *)
(* its transaction holds the lock, says what that transaction will make of   *)
(* the call's row (StagedOK).  Others leave both alone: they have tokens of  *)
(* their own, and no row changes while another transaction holds the lock.   *)
EXTENDS PgGuard, PostgresProofs

\* The bounds on what the open system asks for are no bounds on the wrappers.
AnyAmount == Amount = Nat /\ Spend = Int

Borrowing == {"rescue", "topup"}
Working == {"running", "release"} \cup Borrowing

Errors == {"none", "DeniedAllocation", Exceeded, LoanDenied, Unpriced,
           Unreadable, OtherError, DatabaseError, Crashed}

FaultErrors == {DatabaseError, Crashed}

\* What a call k is about to be charged when it gives its row t back.
Owed(kind, k, t) ==
  /\ k.error \in {"none", Exceeded, LoanDenied, OtherError}
  /\ k.error = "none" => (HasReallocator => k.bill <= t.ceiling)
  /\ k.error # "none" =>
       IF CostsCeiling(kind, k.error) THEN k.bill = k.ceiling
       ELSE k.bill = 0 \/ (k.error = Exceeded /\ k.bill = k.ceiling)

LeakExplained(k) ==
  \/ k.error \in FaultErrors
  \/ k.error \in {Unpriced, Unreadable}
  \/ k.runs = 2 /\ k.error \in Failure

PaidExactly(kind, k, t) ==
  CASE k.error \in FaultErrors -> t.spent = Smaller(k.bill, t.ceiling)
    [] k.error = "none" ->
         t.spent = IF HasReallocator THEN k.bill ELSE Smaller(k.bill, t.ceiling)
    [] CostsCeiling(kind, k.error) -> t.spent = t.initial
    [] ~CostsCeiling(kind, k.error) /\ k.error = Exceeded ->
         t.spent \in {0, t.initial}
    [] OTHER -> t.spent = 0

\* What the transaction of a call can be at each place of its wrapper.
TxPlaces(pc) == CASE pc = "acquire" -> {"staged", "denied"}
                  [] pc \in {"rescue", "topup"} -> {"approved", "staged"}
                  [] pc = "release" -> {"idle", "staged"}
                  [] OTHER -> {"idle"}

\* What a call k may rely on, given its transaction q and the table of rows.
CallOK(kind, k, q, rows) ==
  /\ q.at \in TxPlaces(k.pc)
  /\ k.pc \in {"idle", "acquire"} => k.tok = NoToken
  /\ k.pc \notin {"release", "ended"} => k.error = "none"
  /\ k.pc \in Working => k.tok # NoToken /\ rows[k.tok].status = "active"
  /\ k.pc \in Working \cup {"acquire"} =>
       k.model \in Requested /\ Listed(k.model)
  /\ k.tok # NoToken => /\ k.tok \in DOMAIN rows
                        /\ rows[k.tok].initial = k.ceiling
                        /\ k.ceiling <= rows[k.tok].ceiling
  /\ k.pc \in Borrowing /\ q.at = "approved" => q.tok = k.tok
  /\ k.pc = "topup" /\ q.at = "approved" =>
       k.bill <= rows[k.tok].ceiling + q.amount
  /\ k.pc = "release" => Owed(kind, k, rows[k.tok])
  /\ k.pc = "ended" /\ k.tok # NoToken =>
       /\ rows[k.tok].status = "active" => LeakExplained(k)
       /\ rows[k.tok].status = "settled" => PaidExactly(kind, k, rows[k.tok])

\* What a staged transaction q of call k will make of the rows.
StagedOK(k, q, rows) ==
  q.at = "staged" =>
    /\ k.pc = "acquire" => /\ q.tok = Len(rows) + 1
                           /\ q.row = Append(rows, NewRow(k.ceiling))
    /\ k.pc \in Borrowing =>
         \E x \in Nat :
           /\ q.row = [rows EXCEPT ![k.tok].ceiling = @ + x,
                                   ![k.tok].extensions = @ + x]
           /\ k.pc = "topup" => k.bill <= rows[k.tok].ceiling + x
    /\ k.pc = "release" =>
         q.row = [rows EXCEPT ![k.tok].status = "settled",
                              ![k.tok].spent = Smaller(k.bill, rows[k.tok].ceiling)]

OwnTokens ==
  \A c, d \in Caller : HasToken(c) /\ call[c].tok = call[d].tok => c = d

CallsOK == \A c \in Caller : /\ CallOK(Kind[c], call[c], tx[c], row)
                             /\ StagedOK(call[c], tx[c], row)

GuardInv ==
  PgInv /\ call \in [Caller -> CallState] /\ OwnTokens /\ CallsOK
-----------------------------------------------------------------------------
\* A step of c either leaves the table as long as it was or inserts a row,
\* which becomes c's token unless c does not hear of it.
TakesRow(c) ==
  \/ DOMAIN row' = DOMAIN row /\ call'[c].tok = call[c].tok
  \/ /\ call[c].tok = NoToken
     /\ \E n : /\ n \notin DOMAIN row /\ DOMAIN row' = DOMAIN row \cup {n}
               /\ \/ call'[c].tok = n
                  \/ call'[c].tok = NoToken /\ call'[c].error \in FaultErrors

\* What every step of a call does: it changes its own row only.
SoundCall(c) ==
  /\ PgInv' /\ call' \in [Caller -> CallState]
  /\ \A d \in Caller \ {c} : call'[d] = call[d] /\ tx'[d] = tx[d]
  /\ \A u \in DOMAIN row \ {call[c].tok} : row'[u] = row[u]
  /\ row' # row => \A d \in Caller \ {c} : tx[d].at # "staged"
  /\ call[c].error \notin FaultErrors
  /\ TakesRow(c)
  /\ CallOK(Kind[c], call'[c], tx'[c], row')
  /\ StagedOK(call'[c], tx'[c], row')

LEMMA NoRowZero == \A rows \in Seq(Row) : NoToken \notin DOMAIN rows
BY DEF NoToken

\* What a call relies on stays true while its row and its transaction do.
LEMMA CallKept ==
  ASSUME NEW kind, NEW k, NEW q, NEW rows, NEW later, CallOK(kind, k, q, rows),
         k.tok # NoToken => k.tok \in DOMAIN later /\ later[k.tok] = rows[k.tok]
  PROVE  CallOK(kind, k, q, later)
<1>1. k.pc \in Working => later[k.tok] = rows[k.tok]
  BY DEF CallOK
<1>2. k.pc \in Borrowing \cup {"release"} => k.pc \in Working
  BY DEF Working
<1>3. k.pc \in Borrowing \cup {"release"} => later[k.tok] = rows[k.tok]
  BY <1>1, <1>2
<1>4. "topup" \in Borrowing
  BY DEF Borrowing
<1> QED  BY <1>1, <1>3, <1>4 DEF CallOK

LEMMA SoundCallKeepsInv ==
  ASSUME GuardInv, NEW c \in Caller, SoundCall(c)
  PROVE  GuardInv'
<1>1. \A d \in Caller : call[d].tok # NoToken => call[d].tok \in DOMAIN row
  BY DEF GuardInv, CallsOK, CallOK
<1>2. OwnTokens'
  <2>1. \A d \in Caller \ {c} :
          call'[d].tok # NoToken => call'[c].tok # call'[d].tok
    BY <1>1, ZenonT(30) DEF SoundCall, TakesRow, GuardInv, OwnTokens, HasToken
  <2> QED  BY <2>1 DEF SoundCall, GuardInv, OwnTokens, HasToken
<1>3. ASSUME NEW d \in Caller, d # c
      PROVE  /\ CallOK(Kind[d], call'[d], tx'[d], row')
             /\ StagedOK(call'[d], tx'[d], row')
  <2>1. /\ call'[d] = call[d] /\ tx'[d] = tx[d]
        /\ CallOK(Kind[d], call[d], tx[d], row) /\ StagedOK(call[d], tx[d], row)
    BY <1>3 DEF SoundCall, GuardInv, CallsOK
  <2>2. call[d].tok # NoToken =>
          call[d].tok \in DOMAIN row' /\ row'[call[d].tok] = row[call[d].tok]
    BY <1>1, <1>3 DEF SoundCall, TakesRow, GuardInv, OwnTokens, HasToken
  <2>3. CallOK(Kind[d], call[d], tx[d], row')
    BY <2>1, <2>2, CallKept
  <2>4. StagedOK(call[d], tx[d], row')
    <3>1. CASE row' = row
      BY <2>1, <3>1
    <3>2. CASE row' # row
      BY <1>3, <3>2 DEF SoundCall, StagedOK
    <3> QED  BY <3>1, <3>2
  <2> QED  BY <2>1, <2>3, <2>4
<1>4. CallsOK'
  BY <1>3 DEF SoundCall, CallsOK
<1> QED  BY <1>2, <1>4 DEF SoundCall, GuardInv
-----------------------------------------------------------------------------
\* The places of a usage dict, one by one.
LEMMA PlacesTuple ==
  /\ DOMAIN Places = 1 .. 5
  /\ Places[1] = "token_usage" /\ Places[2] = "usage"
  /\ Places[3] = "usage_metadata" /\ Places[4] = "entry"
  /\ Places[5] = "attribute"
BY DEF Places

\* The dict that is read is one of those found.
LEMMA DictIsFound ==
  ASSUME NEW r \in Result, HasUsage(r)
  PROVE  \E place \in DOMAIN r.usage : Found(r, place) /\ UsageDict(r) = r.usage[place]
<1>1. \E i \in 1 .. 5 : Found(r, Places[i])
  BY UsageAssumption, PlacesTuple DEF HasUsage
<1>2. \E i \in 1 .. 5 : FirstFound(r, i)
  BY <1>1, PlacesTuple DEF FirstFound
<1> DEFINE i == CHOOSE i \in DOMAIN Places : FirstFound(r, i)
<1>3. FirstFound(r, i)
  BY <1>2, PlacesTuple
<1> QED  BY <1>3 DEF UsageDict, FirstFound, Found

\* What is read of it are counts.
LEMMA DictCounts ==
  ASSUME NEW r \in Result, HasUsage(r)
  PROVE  /\ Tokens(UsageDict(r), "prompt_tokens", "input_tokens") \in Nat
         /\ Tokens(UsageDict(r), "completion_tokens", "output_tokens") \in Nat
<1>1. \A key \in TokenKey \cap DOMAIN UsageDict(r) : UsageDict(r)[key] \in Nat
  BY DictIsFound, UsageAssumption
<1> QED  BY <1>1 DEF Tokens, TokenKey

\* A cost is an amount.
LEMMA CostsAreAmounts ==
  ASSUME NEW m \in DOMAIN Table
  PROVE  /\ \A chars \in Prompt : Ceiling(chars, m) \in Nat
         /\ \A r \in Result : HasCost(r, m) => SettleCost(r, m) \in Nat
<1>1. \A x, y, n, k \in Nat : x * n + y * k \in Nat
  OBVIOUS
<1>2. ASSUME NEW model \in DOMAIN Table, NEW n \in Nat, NEW k \in Nat
      PROVE  CostOf(Table[model], n, k) \in Nat
  BY <1>1, UsageAssumption DEF CostOf
<1>3. ASSUME NEW chars \in Prompt PROVE Ceiling(chars, m) \in Nat
  <2>1. Larger(1, chars \div CharsPerToken) \in Nat
    BY WrapperAssumption DEF Larger, CharsPerToken
  <2> QED  BY <1>2, <2>1, WrapperAssumption
           DEF Ceiling, EstimatePreflightCost, Larger
<1>4. ASSUME NEW r \in Result, HasCost(r, m) PROVE SettleCost(r, m) \in Nat
  BY <1>2, <1>4, DictCounts DEF HasCost, Priced, SettleCost, CostOfDict
<1> QED  BY <1>3, <1>4

-----------------------------------------------------------------------------
\* A working call has a row of its own, which is active.
LEMMA TokenInHand ==
  ASSUME GuardInv, NEW c \in Caller, call[c].pc \in Working
  PROVE  /\ call[c].tok \in DOMAIN row /\ call[c].tok # NoToken
         /\ row[call[c].tok] \in Row /\ row[call[c].tok].status = "active"
         /\ row[call[c].tok].initial = call[c].ceiling
         /\ call[c].ceiling <= row[call[c].tok].ceiling
         /\ row[call[c].tok].ceiling \in Nat
         /\ call[c].ceiling \in Nat /\ call[c].bill \in Nat
         /\ call[c].model \in Requested /\ Listed(call[c].model)
<1>1. CallOK(Kind[c], call[c], tx[c], row)
  BY DEF GuardInv, CallsOK
<1>2. call[c].tok \in DOMAIN row /\ call[c].tok # NoToken
  BY <1>1 DEF CallOK
<1>3. row[call[c].tok] \in Row /\ row[call[c].tok].ceiling \in Nat
  BY <1>2, InvRows DEF GuardInv
<1>4. call[c].ceiling \in Nat /\ call[c].bill \in Nat
  BY DEF GuardInv, CallState
<1> QED  BY <1>1, <1>2, <1>3, <1>4 DEF CallOK

LEMMA CostType ==
  ASSUME GuardInv, NEW c \in Caller, call[c].pc = "running", NEW r \in Result,
         HasCost(r, call[c].model)
  PROVE  Cost(c, r) \in Nat
<1>1. call[c].model \in Requested /\ Listed(call[c].model)
  BY TokenInHand DEF Working
<1> QED  BY <1>1, CostsAreAmounts DEF Cost, Listed

\* The call is now r; nobody else's is another.
LEMMA CallBecomes ==
  ASSUME GuardInv, NEW c \in Caller, NEW r \in CallState,
         call' = [call EXCEPT ![c] = r]
  PROVE  /\ call' \in [Caller -> CallState] /\ call'[c] = r
         /\ \A d \in Caller \ {c} : call'[d] = call[d]
BY DEF GuardInv

\* What a call keeps until its end.
HandKept(c) ==
  /\ call' \in [Caller -> CallState]
  /\ call'[c].tok = call[c].tok /\ call'[c].model = call[c].model
  /\ call'[c].ceiling = call[c].ceiling
  /\ \A d \in Caller \ {c} : call'[d] = call[d]

Moves == {"running", "rescue", "topup", "release", "ended"}

LEMMA GotoCall ==
  ASSUME GuardInv, NEW c \in Caller, NEW place \in Moves, Goto(c, place)
  PROVE  /\ HandKept(c) /\ call'[c].pc = place
         /\ call'[c].error = call[c].error /\ call'[c].bill = call[c].bill
<1> DEFINE r == [call[c] EXCEPT !.pc = place]
<1>1. /\ r \in CallState /\ r.tok = call[c].tok /\ r.model = call[c].model
      /\ r.ceiling = call[c].ceiling
      /\ r.pc = place /\ r.error = call[c].error /\ r.bill = call[c].bill
  BY DEF GuardInv, CallState, Moves
<1>2. call' = [call EXCEPT ![c] = r]
  BY DEF Goto
<1> HIDE DEF r
<1> QED  BY <1>1, <1>2, CallBecomes DEF HandKept

LEMMA EndCall ==
  ASSUME GuardInv, NEW c \in Caller, NEW error \in Errors, End(c, error)
  PROVE  /\ HandKept(c) /\ call'[c].pc = "ended" /\ call'[c].error = error
         /\ call'[c].runs = call[c].runs /\ call'[c].bill = call[c].bill
<1> DEFINE r == [call[c] EXCEPT !.pc = "ended", !.error = error]
<1>1. /\ r \in CallState /\ r.tok = call[c].tok /\ r.model = call[c].model
      /\ r.ceiling = call[c].ceiling
      /\ r.pc = "ended" /\ r.error = error
      /\ r.runs = call[c].runs /\ r.bill = call[c].bill
  BY DEF GuardInv, CallState, Errors
<1>2. call' = [call EXCEPT ![c] = r]
  BY DEF End
<1> HIDE DEF r
<1> QED  BY <1>1, <1>2, CallBecomes DEF HandKept

LEMMA BillCall ==
  ASSUME GuardInv, NEW c \in Caller, NEW error \in Errors, NEW spend \in Nat,
         Bill(c, spend, error)
  PROVE  /\ HandKept(c) /\ call'[c].pc = "release"
         /\ call'[c].error = error /\ call'[c].bill = spend
<1> DEFINE r == [call[c] EXCEPT !.pc = "release", !.bill = spend, !.error = error]
<1>1. /\ r \in CallState /\ r.tok = call[c].tok /\ r.model = call[c].model
      /\ r.ceiling = call[c].ceiling
      /\ r.pc = "release" /\ r.error = error /\ r.bill = spend
  BY DEF GuardInv, CallState, Errors
<1>2. call' = [call EXCEPT ![c] = r]
  BY DEF Bill
<1> HIDE DEF r
<1> QED  BY <1>1, <1>2, CallBecomes DEF HandKept

LEMMA TopUpCall ==
  ASSUME GuardInv, NEW c \in Caller, NEW cost \in Nat,
         call' = [call EXCEPT ![c].pc = "topup", ![c].bill = cost]
  PROVE  /\ HandKept(c) /\ call'[c].pc = "topup"
         /\ call'[c].error = call[c].error /\ call'[c].bill = cost
<1> DEFINE r == [call[c] EXCEPT !.pc = "topup", !.bill = cost]
<1>1. /\ r \in CallState /\ r.tok = call[c].tok /\ r.model = call[c].model
      /\ r.ceiling = call[c].ceiling
      /\ r.pc = "topup" /\ r.error = call[c].error /\ r.bill = cost
  BY DEF GuardInv, CallState
<1>2. call' = [call EXCEPT ![c] = r]
  OBVIOUS
<1> HIDE DEF r
<1> QED  BY <1>1, <1>2, CallBecomes DEF HandKept

LEMMA AcquireCall ==
  ASSUME GuardInv, NEW c \in Caller, NEW m \in Requested, NEW ceiling \in Nat,
         call' = [call EXCEPT ![c].pc = "acquire", ![c].model = m,
                              ![c].ceiling = ceiling]
  PROVE  /\ call' \in [Caller -> CallState]
         /\ \A d \in Caller \ {c} : call'[d] = call[d]
         /\ call'[c].tok = call[c].tok /\ call'[c].model = m
         /\ call'[c].ceiling = ceiling /\ call'[c].pc = "acquire"
         /\ call'[c].error = call[c].error
<1> DEFINE r == [call[c] EXCEPT !.pc = "acquire", !.model = m, !.ceiling = ceiling]
<1>1. /\ r \in CallState /\ r.tok = call[c].tok /\ r.model = m
      /\ r.ceiling = ceiling /\ r.pc = "acquire" /\ r.error = call[c].error
  BY DEF GuardInv, CallState
<1>2. call' = [call EXCEPT ![c] = r]
  OBVIOUS
<1> HIDE DEF r
<1> QED  BY <1>1, <1>2, CallBecomes

LEMMA RunCall ==
  ASSUME GuardInv, NEW c \in Caller, NEW t \in Nat,
         call' = [call EXCEPT ![c].pc = "running", ![c].runs = 1, ![c].tok = t]
  PROVE  /\ call' \in [Caller -> CallState]
         /\ \A d \in Caller \ {c} : call'[d] = call[d]
         /\ call'[c].tok = t /\ call'[c].model = call[c].model
         /\ call'[c].ceiling = call[c].ceiling /\ call'[c].pc = "running"
         /\ call'[c].error = call[c].error
<1> DEFINE r == [call[c] EXCEPT !.pc = "running", !.runs = 1, !.tok = t]
<1>1. /\ r \in CallState /\ r.tok = t /\ r.model = call[c].model
      /\ r.ceiling = call[c].ceiling /\ r.pc = "running"
      /\ r.error = call[c].error
  <2>1. call[c] \in CallState /\ 1 \in 0 .. 2
    BY DEF GuardInv
  <2>2. \A k \in CallState, n \in 0 .. 2 :
          [k EXCEPT !.pc = "running", !.runs = n, !.tok = t] \in CallState
    BY DEF CallState
  <2>3. r \in CallState
    BY <2>1, <2>2
  <2> QED  BY <2>1, <2>3 DEF CallState
<1>2. call' = [call EXCEPT ![c] = r]
  OBVIOUS
<1> HIDE DEF r
<1> QED  BY <1>1, <1>2, CallBecomes

LEMMA RunAgainCall ==
  ASSUME GuardInv, NEW c \in Caller,
         call' = [call EXCEPT ![c].pc = "running", ![c].runs = 2]
  PROVE  /\ HandKept(c) /\ call'[c].pc = "running"
         /\ call'[c].error = call[c].error
<1> DEFINE r == [call[c] EXCEPT !.pc = "running", !.runs = 2]
<1>1. /\ r \in CallState /\ r.tok = call[c].tok /\ r.model = call[c].model
      /\ r.ceiling = call[c].ceiling /\ r.pc = "running"
      /\ r.error = call[c].error
  <2>1. call[c] \in CallState /\ 2 \in 0 .. 2
    BY DEF GuardInv
  <2>2. \A k \in CallState, n \in 0 .. 2 :
          [k EXCEPT !.pc = "running", !.runs = n] \in CallState
    BY DEF CallState
  <2>3. r \in CallState
    BY <2>1, <2>2
  <2> QED  BY <2>1, <2>3 DEF CallState
<1>2. call' = [call EXCEPT ![c] = r]
  OBVIOUS
<1> HIDE DEF r
<1> QED  BY <1>1, <1>2, CallBecomes DEF HandKept
-----------------------------------------------------------------------------
LEMMA NotFaulted ==
  ASSUME GuardInv, NEW c \in Caller, call[c].pc # "ended"
  PROVE  call[c].error \notin FaultErrors
<1>1. CallOK(Kind[c], call[c], tx[c], row)
  BY DEF GuardInv, CallsOK
<1> QED  BY <1>1 DEF CallOK, Owed, FaultErrors, DatabaseError, Crashed,
                     Exceeded, LoanDenied, OtherError

LEMMA TokensWork ==
  ASSUME GuardInv, NEW c \in Caller, call[c].pc # "ended", HasToken(c)
  PROVE  call[c].pc \in Working
<1>1. CallOK(Kind[c], call[c], tx[c], row)
  BY DEF GuardInv, CallsOK
<1>2. call[c].pc \in {"idle", "acquire", "running", "rescue", "topup", "release"}
  BY DEF GuardInv, CallState
<1> QED  BY <1>1, <1>2 DEF CallOK, HasToken, Working, Borrowing

\* A call whose transaction is over may end if that explains its open row.
LEMMA EndSound ==
  ASSUME GuardInv, NEW c \in Caller, call[c].pc # "ended",
         NEW error \in Errors, End(c, error),
         PgInv', row' = row, \A d \in Caller \ {c} : tx'[d] = tx[d],
         tx'[c].at = "idle",
         \/ ~HasToken(c)
         \/ error \in FaultErrors \cup {Unpriced, Unreadable}
         \/ call[c].runs = 2 /\ error \in Failure
  PROVE  SoundCall(c)
<1>1. /\ HandKept(c) /\ call'[c].pc = "ended" /\ call'[c].error = error
      /\ call'[c].runs = call[c].runs
  BY EndCall
<1>2. HasToken(c) =>
        /\ call[c].tok \in DOMAIN row /\ row[call[c].tok].status = "active"
        /\ row[call[c].tok].initial = call[c].ceiling
        /\ call[c].ceiling <= row[call[c].tok].ceiling
  BY TokensWork, TokenInHand
<1>3. HasToken(c) => LeakExplained(call'[c])
  BY <1>1 DEF LeakExplained
<1>4. CallOK(Kind[c], call'[c], tx'[c], row')
  <2>1. call'[c].tok = call[c].tok /\ call'[c].ceiling = call[c].ceiling
    BY <1>1 DEF HandKept
  <2>2. tx'[c].at \in TxPlaces(call'[c].pc)
    BY <1>1 DEF TxPlaces
  <2> QED  BY <1>1, <1>2, <1>3, <2>1, <2>2 DEF CallOK, HasToken, Working, Borrowing
<1>5. StagedOK(call'[c], tx'[c], row')
  BY DEF StagedOK
<1>6. call[c].error \notin FaultErrors
  BY NotFaulted
<1> QED  BY <1>1, <1>4, <1>5, <1>6 DEF SoundCall, TakesRow, HandKept

LEMMA TxIdle ==
  ASSUME GuardInv, NEW c \in Caller, call[c].pc \in {"idle", "running"}
  PROVE  tx[c].at = "idle"
<1>1. CallOK(Kind[c], call[c], tx[c], row)
  BY DEF GuardInv, CallsOK
<1> QED  BY <1>1 DEF CallOK, TxPlaces

LEMMA PgStutter ==
  ASSUME GuardInv, UNCHANGED pgVars
  PROVE  /\ PgInv' /\ row' = row /\ tx' = tx
BY StutterKeepsInv DEF GuardInv, pgVars, db

\* The transaction of c now has these writes to make.
LEMMA StageEffect ==
  ASSUME GuardInv, NEW c \in Caller, NEW new, NEW rows, NEW event, NEW t,
         NEW amount, NEW yielded, Stage(c, new, rows, event, t, amount, yielded)
  PROVE  /\ tx'[c].at = "staged" /\ tx'[c].tok = t /\ tx'[c].row = rows
         /\ \A d \in Caller \ {c} : tx'[d] = tx[d]
BY InvTypes DEF GuardInv, Stage

LEMMA AcquireSound ==
  ASSUME AnyAmount, GuardInv, NEW c \in Caller, Acquire(c)
  PROVE  SoundCall(c)
<1>1. /\ call[c].pc = "idle" /\ call[c].tok = NoToken /\ ~HasToken(c)
      /\ tx[c].at = "idle" /\ call[c].error = "none"
      /\ call[c].error \notin FaultErrors
  <2>1. call[c].pc = "idle" /\ CallOK(Kind[c], call[c], tx[c], row)
    BY DEF Acquire, GuardInv, CallsOK
  <2> QED  BY <2>1, TxIdle, NotFaulted DEF CallOK, HasToken
<1>2. PICK m \in Requested :
        \/ ~Listed(m) /\ End(c, Unpriced) /\ UNCHANGED pgVars
        \/ /\ Listed(m)
           /\ \E chars \in Prompt :
                LET ceiling == Ceiling(chars, m) IN
                /\ Allocate(c, ceiling) \/ AllocateDenied(c, ceiling)
                /\ call' = [call EXCEPT ![c].pc = "acquire", ![c].model = m,
                                        ![c].ceiling = ceiling]
  BY DEF Acquire
<1>3. CASE End(c, Unpriced) /\ UNCHANGED pgVars
  <2>1. Unpriced \in Errors
    BY DEF Errors
  <2> QED  BY <1>1, <1>3, <2>1, PgStutter, EndSound
<1>4. ASSUME NEW x \in Nat, Listed(m), Allocate(c, x) \/ AllocateDenied(c, x),
             call' = [call EXCEPT ![c].pc = "acquire", ![c].model = m,
                                  ![c].ceiling = x]
      PROVE  SoundCall(c)
  <2>1. PgInv' /\ row' = row
    <3>1. PgInv'
      BY <1>4, AllocateKeepsInv, DeniedKeepsInv DEF AnyAmount, GuardInv
    <3>2. row' = row
      BY <1>4 DEF Allocate, AllocateDenied, db
    <3> QED  BY <3>1, <3>2
  <2>2. /\ \A d \in Caller \ {c} : tx'[d] = tx[d]
        /\ \/ tx'[c].at = "denied"
           \/ /\ tx'[c].at = "staged" /\ tx'[c].tok = Len(row) + 1
              /\ tx'[c].row = Append(row, NewRow(x))
    <3>1. CASE Allocate(c, x)
      BY <3>1, StageEffect, ZenonT(30) DEF Allocate, NewRow
    <3>2. CASE AllocateDenied(c, x)
      BY <3>2, InvTypes DEF AllocateDenied, GuardInv
    <3> QED  BY <1>4, <3>1, <3>2
  <2>3. /\ call' \in [Caller -> CallState]
        /\ \A d \in Caller \ {c} : call'[d] = call[d]
        /\ call'[c].tok = NoToken /\ call'[c].model = m
        /\ call'[c].ceiling = x /\ call'[c].pc = "acquire"
        /\ call'[c].error = "none"
    <3>1. /\ call' \in [Caller -> CallState]
          /\ \A d \in Caller \ {c} : call'[d] = call[d]
          /\ call'[c].tok = call[c].tok /\ call'[c].model = m
          /\ call'[c].ceiling = x /\ call'[c].pc = "acquire"
          /\ call'[c].error = call[c].error
      BY <1>4, AcquireCall
    <3> QED  BY <1>1, <3>1
  <2>4. CallOK(Kind[c], call'[c], tx'[c], row')
    <3>1. tx'[c].at \in TxPlaces(call'[c].pc)
      BY <2>2, <2>3 DEF TxPlaces
    <3> QED  BY <1>4, <2>3, <3>1 DEF CallOK, Working, Borrowing
  <2>5. StagedOK(call'[c], tx'[c], row')
    <3>1. call'[c].pc \notin Borrowing
      BY <2>3 DEF Borrowing
    <3> QED  BY <2>1, <2>2, <2>3, <3>1 DEF StagedOK
  <2> QED  BY <1>1, <2>1, <2>2, <2>3, <2>4, <2>5 DEF SoundCall, TakesRow
<1>5. \A chars \in Prompt : Listed(m) => Ceiling(chars, m) \in Nat
  BY CostsAreAmounts DEF Listed
<1> QED  BY <1>2, <1>3, <1>4, <1>5
-----------------------------------------------------------------------------
LEMMA ExtensionCovers ==
  \A s \in Nat : ExtensionFor(s) \in Nat /\ s <= ExtensionFor(s)
<1>1. \A n \in Nat : n \div 100 \in Nat
  OBVIOUS
<1>2. \A s \in Nat : s * Multiplier \in Nat
  BY WrapperAssumption
<1>3. \A s \in Nat : (s * Multiplier) \div 100 \in Nat
  BY <1>1, <1>2
<1> QED  BY <1>3 DEF ExtensionFor

\* A request for a loan for the call's own row.
LEMMA AskEffect ==
  ASSUME AnyAmount, GuardInv, NEW c \in Caller, call[c].pc = "running",
         NEW x \in Nat, Ask(c, call[c].tok, x)
  PROVE  /\ PgInv' /\ row' = row
         /\ \A d \in Caller \ {c} : tx'[d] = tx[d]
         /\ \/ /\ tx'[c].at = "approved" /\ tx'[c].tok = call[c].tok
               /\ tx'[c].amount = x
            \/ tx'[c].at = "idle"
<1>1. call[c].tok \in DOMAIN row
  BY TokenInHand DEF Working
<1>2. PgInv'
  BY <1>1, AskKeepsInv DEF AnyAmount, GuardInv
<1>3. row' = row
  BY DEF Ask, db
<1>4. /\ tx[c].at = "idle"
      /\ \/ tx' = [tx EXCEPT ![c] = [Idle EXCEPT !.at = "approved",
                                                 !.tok = call[c].tok,
                                                 !.amount = x]]
         \/ tx' = tx
  BY DEF Ask
<1>5. /\ \A d \in Caller \ {c} : tx'[d] = tx[d]
      /\ \/ /\ tx'[c].at = "approved" /\ tx'[c].tok = call[c].tok
            /\ tx'[c].amount = x
         \/ tx'[c].at = "idle"
  BY <1>4, InvTypes DEF GuardInv, Idle
<1> QED  BY <1>2, <1>3, <1>5

\* A running call settles at what it owes.
LEMMA BillSound ==
  ASSUME GuardInv, NEW c \in Caller, call[c].pc = "running",
         NEW error \in {"none", Exceeded, LoanDenied, OtherError},
         NEW spend \in Nat, Bill(c, spend, error),
         PgInv', row' = row, \A d \in Caller \ {c} : tx'[d] = tx[d],
         tx'[c].at = "idle",
         error = "none" => (HasReallocator => spend <= call[c].ceiling),
         error # "none" =>
           IF CostsCeiling(Kind[c], error) THEN spend = call[c].ceiling
           ELSE spend = 0 \/ (error = Exceeded /\ spend = call[c].ceiling)
  PROVE  SoundCall(c)
<1>1. /\ HandKept(c) /\ call'[c].pc = "release"
      /\ call'[c].error = error /\ call'[c].bill = spend
  <2>1. error \in Errors
    BY DEF Errors
  <2> QED  BY <2>1, BillCall
<1>2. /\ call[c].tok \in DOMAIN row /\ call[c].tok # NoToken
      /\ row[call[c].tok].status = "active"
      /\ row[call[c].tok].initial = call[c].ceiling
      /\ call[c].ceiling <= row[call[c].tok].ceiling
      /\ row[call[c].tok].ceiling \in Nat /\ call[c].ceiling \in Nat
      /\ call[c].model \in Requested /\ Listed(call[c].model)
  BY TokenInHand DEF Working
<1>3. /\ call'[c].tok = call[c].tok /\ call'[c].model = call[c].model
      /\ call'[c].ceiling = call[c].ceiling
  BY <1>1 DEF HandKept
<1>4. Owed(Kind[c], call'[c], row'[call'[c].tok])
  BY <1>1, <1>2, <1>3 DEF Owed
<1>5. CallOK(Kind[c], call'[c], tx'[c], row')
  <2>1. tx'[c].at \in TxPlaces(call'[c].pc)
    BY <1>1 DEF TxPlaces
  <2> QED  BY <1>1, <1>2, <1>3, <1>4, <2>1 DEF CallOK, Working, Borrowing
<1>6. StagedOK(call'[c], tx'[c], row')
  BY DEF StagedOK
<1> QED  BY <1>1, <1>5, <1>6, NotFaulted DEF SoundCall, TakesRow, HandKept

\* A running call waits for an approved loan.
LEMMA BorrowSound ==
  ASSUME GuardInv, NEW c \in Caller, call[c].pc = "running",
         HandKept(c), call'[c].error = call[c].error,
         \/ call'[c].pc = "rescue"
         \/ /\ call'[c].pc = "topup"
            /\ call'[c].bill <= row[call[c].tok].ceiling + tx'[c].amount,
         PgInv', row' = row, \A d \in Caller \ {c} : tx'[d] = tx[d],
         tx'[c].at = "approved", tx'[c].tok = call[c].tok
  PROVE  SoundCall(c)
<1>1. /\ call[c].tok \in DOMAIN row /\ call[c].tok # NoToken
      /\ row[call[c].tok].status = "active"
      /\ row[call[c].tok].initial = call[c].ceiling
      /\ call[c].ceiling <= row[call[c].tok].ceiling
      /\ call[c].model \in Requested /\ Listed(call[c].model)
  BY TokenInHand DEF Working
<1>2. /\ call'[c].tok = call[c].tok /\ call'[c].model = call[c].model
      /\ call'[c].ceiling = call[c].ceiling
  BY DEF HandKept
<1>3. call[c].error = "none"
  BY DEF GuardInv, CallsOK, CallOK
<1>4. CallOK(Kind[c], call'[c], tx'[c], row')
  <2>1. tx'[c].at \in TxPlaces(call'[c].pc)
    BY DEF TxPlaces
  <2> QED  BY <1>1, <1>2, <1>3, <2>1 DEF CallOK, Working, Borrowing
<1>5. StagedOK(call'[c], tx'[c], row')
  BY DEF StagedOK
<1> QED  BY <1>2, <1>4, <1>5, NotFaulted DEF SoundCall, TakesRow, HandKept

LEMMA ReturnsSound ==
  ASSUME AnyAmount, GuardInv, NEW c \in Caller, Returns(c)
  PROVE  SoundCall(c)
<1>1. call[c].pc = "running" /\ tx[c].at = "idle"
  BY TxIdle DEF Returns
<1>2. PICK r \in Result :
        /\ HasCost(r, call[c].model)
        /\ \/ /\ Overspends(c, r)
              /\ AskFor(c, r)
              /\ IF tx'[c].at = "approved"
                 THEN call' = [call EXCEPT ![c].pc = "topup",
                                           ![c].bill = Cost(c, r)]
                 ELSE Bill(c, call[c].ceiling, Exceeded)
           \/ /\ ~Overspends(c, r)
              /\ Bill(c, Cost(c, r), "none")
              /\ UNCHANGED pgVars
  BY DEF Returns, TopUp, Refused
<1>3. Cost(c, r) \in Nat /\ call[c].ceiling \in Nat
  BY <1>1, <1>2, CostType, TokenInHand DEF Working
<1>4. CASE ~Overspends(c, r) /\ Bill(c, Cost(c, r), "none") /\ UNCHANGED pgVars
  <2>1. HasReallocator => Cost(c, r) <= call[c].ceiling
    BY <1>3, <1>4 DEF Overspends
  <2>2. PgInv' /\ row' = row /\ tx' = tx
    BY <1>4, PgStutter
  <2> QED  BY <1>1, <1>3, <1>4, <2>1, <2>2, BillSound
<1>5. ASSUME Overspends(c, r),
             AskFor(c, r),
             IF tx'[c].at = "approved"
             THEN call' = [call EXCEPT ![c].pc = "topup", ![c].bill = Cost(c, r)]
             ELSE Bill(c, call[c].ceiling, Exceeded)
      PROVE  SoundCall(c)
  <2> DEFINE x == ExtensionFor(Cost(c, r) - call[c].ceiling)
  <2>1. x \in Nat /\ Cost(c, r) - call[c].ceiling <= x
    BY <1>3, <1>5, ExtensionCovers DEF Overspends
  <2>2. Ask(c, call[c].tok, x)
    BY <1>5 DEF AskFor
  <2> HIDE DEF x
  <2>3. /\ PgInv' /\ row' = row
        /\ \A d \in Caller \ {c} : tx'[d] = tx[d]
        /\ \/ /\ tx'[c].at = "approved" /\ tx'[c].tok = call[c].tok
              /\ tx'[c].amount = x
           \/ tx'[c].at = "idle"
    BY <1>1, <2>1, <2>2, AskEffect
  <2>4. CASE tx'[c].at = "approved"
    <3>1. /\ HandKept(c) /\ call'[c].pc = "topup"
          /\ call'[c].error = call[c].error /\ call'[c].bill = Cost(c, r)
      BY <1>3, <1>5, <2>4, TopUpCall
    <3>2. Cost(c, r) <= row[call[c].tok].ceiling + x
      <4>1. /\ call[c].ceiling <= row[call[c].tok].ceiling
            /\ row[call[c].tok].ceiling \in Nat
        BY <1>1, TokenInHand DEF Working
      <4> QED  BY <1>3, <2>1, <4>1
    <3> QED  BY <1>1, <2>3, <2>4, <3>1, <3>2, BorrowSound
  <2>5. CASE tx'[c].at # "approved"
    <3>1. Bill(c, call[c].ceiling, Exceeded)
      BY <1>5, <2>5
    <3>2. Exceeded # "none"
      BY DEF Exceeded
    <3> QED  BY <1>1, <1>3, <2>3, <2>5, <3>1, <3>2, BillSound
  <2> QED  BY <2>4, <2>5
<1> QED  BY <1>2, <1>4, <1>5

LEMMA UncostedSound ==
  ASSUME GuardInv, NEW c \in Caller, ReturnsUncosted(c)
  PROVE  SoundCall(c)
<1>1. call[c].pc = "running" /\ tx[c].at = "idle" /\ UNCHANGED pgVars
  BY TxIdle DEF ReturnsUncosted
<1>2. PICK r \in Result : End(c, CostError(r))
  BY DEF ReturnsUncosted
<1>3. CostError(r) \in {Unpriced, Unreadable} /\ CostError(r) \in Errors
  BY DEF CostError, Errors
<1> QED  BY <1>1, <1>2, <1>3, PgStutter, EndSound

LEMMA FailsSound ==
  ASSUME AnyAmount, GuardInv, NEW c \in Caller, Fails(c)
  PROVE  SoundCall(c)
<1>1. call[c].pc = "running" /\ tx[c].at = "idle" /\ call[c].ceiling \in Nat
  BY TxIdle, TokenInHand DEF Fails, Working
<1>2. PICK e \in Failure :
        \/ /\ Rescuable(Kind[c], e)
           /\ \E x \in Overrun : Ask(c, call[c].tok, x)
           /\ IF tx'[c].at = "approved" THEN Goto(c, "rescue")
              ELSE Bill(c, call[c].ceiling, LoanDenied)
        \/ /\ ~Rescuable(Kind[c], e)
           /\ Bill(c, FailureSpend(c, e), e)
           /\ UNCHANGED pgVars
  BY DEF Fails
<1>3. CASE /\ ~Rescuable(Kind[c], e) /\ Bill(c, FailureSpend(c, e), e)
           /\ UNCHANGED pgVars
  <2>1. PgInv' /\ row' = row /\ tx' = tx
    BY <1>3, PgStutter
  <2>2. e \in {Exceeded, LoanDenied, OtherError} /\ e # "none"
    BY WrapperAssumption DEF Exceeded, LoanDenied, OtherError
  <2>3. /\ FailureSpend(c, e) \in Nat
        /\ FailureSpend(c, e) = IF CostsCeiling(Kind[c], e) THEN call[c].ceiling ELSE 0
    BY <1>1 DEF FailureSpend
  <2> QED  BY <1>1, <1>3, <2>1, <2>2, <2>3, BillSound
<1>4. ASSUME Rescuable(Kind[c], e), NEW x \in Overrun, Ask(c, call[c].tok, x),
             IF tx'[c].at = "approved" THEN Goto(c, "rescue")
             ELSE Bill(c, call[c].ceiling, LoanDenied)
      PROVE  SoundCall(c)
  <2>1. /\ PgInv' /\ row' = row
        /\ \A d \in Caller \ {c} : tx'[d] = tx[d]
        /\ \/ tx'[c].at = "approved" /\ tx'[c].tok = call[c].tok
           \/ tx'[c].at = "idle"
    BY <1>1, <1>4, WrapperAssumption, AskEffect
  <2>2. CASE tx'[c].at = "approved"
    <3>1. /\ HandKept(c) /\ call'[c].pc = "rescue"
          /\ call'[c].error = call[c].error
      BY <1>4, <2>2, GotoCall DEF Moves
    <3> QED  BY <1>1, <2>1, <2>2, <3>1, BorrowSound
  <2>3. CASE tx'[c].at # "approved"
    <3>1. Bill(c, call[c].ceiling, LoanDenied)
      BY <1>4, <2>3
    <3>2. LoanDenied # "none" /\ CostsCeiling(Kind[c], LoanDenied)
      BY <1>4 DEF LoanDenied, Rescuable, CostsCeiling
    <3> QED  BY <1>1, <2>1, <2>3, <3>1, <3>2, BillSound
  <2> QED  BY <2>2, <2>3
<1> QED  BY <1>2, <1>3, <1>4

LEMMA FailsAgainSound ==
  ASSUME GuardInv, NEW c \in Caller, FailsAgain(c)
  PROVE  SoundCall(c)
<1>1. /\ call[c].pc = "running" /\ tx[c].at = "idle" /\ UNCHANGED pgVars
      /\ call[c].runs = 2
  BY TxIdle DEF FailsAgain
<1>2. PICK e \in Failure : End(c, e)
  BY DEF FailsAgain
<1>3. e \in Errors
  BY WrapperAssumption DEF Errors
<1> QED  BY <1>1, <1>2, <1>3, PgStutter, EndSound
-----------------------------------------------------------------------------
\* The writes of an approved loan are those StagedOK names.
LEMMA ExtendSound ==
  ASSUME GuardInv, NEW c \in Caller, call[c].pc \in Borrowing, Extend(c),
         UNCHANGED call
  PROVE  SoundCall(c)
<1> DEFINE t == call[c].tok
           x == tx[c].amount
<1>1. /\ t \in DOMAIN row /\ t # NoToken /\ row[t].status = "active"
  BY TokenInHand DEF Working
<1>2. /\ CallOK(Kind[c], call[c], tx[c], row)
      /\ tx[c].at = "approved" /\ tx[c].tok = t /\ x \in Nat
  <2>1. CallOK(Kind[c], call[c], tx[c], row) /\ tx[c].at = "approved"
    BY DEF GuardInv, CallsOK, Extend
  <2>2. tx[c] \in Transaction
    BY InvTypes DEF GuardInv
  <2> QED  BY <2>1, <2>2 DEF CallOK, Transaction
<1>3. PgInv' /\ row' = row
  <2>1. PgInv'
    BY ExtendKeepsInv DEF GuardInv
  <2>2. row' = row
    BY DEF Extend, db
  <2> QED  BY <2>1, <2>2
<1>4. Stage(c, [session EXCEPT !.committed = @ + x], RaisedTo(t, x),
            "extended", t, x, 0)
  <2>1. row[tx[c].tok].status # "settled"
    BY <1>1, <1>2
  <2> QED  BY <1>2, <2>1 DEF Extend, RaisedTo
<1>5. /\ tx'[c].at = "staged" /\ tx'[c].row = RaisedTo(t, x)
      /\ \A d \in Caller \ {c} : tx'[d] = tx[d]
  BY <1>4, StageEffect
<1>6. StagedOK(call'[c], tx'[c], row')
  <2>1. tx'[c].row = [row EXCEPT ![call[c].tok].ceiling = @ + x,
                                 ![call[c].tok].extensions = @ + x]
    BY <1>5 DEF RaisedTo
  <2>2. call[c].pc = "topup" => call[c].bill <= row[call[c].tok].ceiling + x
    BY <1>2 DEF CallOK, Borrowing
  <2>3. call[c].pc \notin {"acquire", "release"}
    BY DEF Borrowing
  <2> HIDE DEF x, t
  <2>4. \E y \in Nat :
          /\ tx'[c].row = [row EXCEPT ![call[c].tok].ceiling = @ + y,
                                      ![call[c].tok].extensions = @ + y]
          /\ call[c].pc = "topup" => call[c].bill <= row[call[c].tok].ceiling + y
    BY <1>2, <2>1, <2>2
  <2>5. StagedOK(call[c], tx'[c], row)
    BY <2>3, <2>4 DEF StagedOK
  <2> QED  BY <1>3, <2>5
<1>7. CallOK(Kind[c], call'[c], tx'[c], row')
  <2>1. tx'[c].at \in TxPlaces(call[c].pc)
    BY <1>5 DEF TxPlaces, Borrowing
  <2>2. CallOK(Kind[c], call[c], tx'[c], row)
    BY <1>2, <1>5, <2>1 DEF CallOK
  <2> QED  BY <1>3, <2>2
<1>8. call[c].error \notin FaultErrors
  BY NotFaulted DEF Borrowing
<1> QED  BY <1>3, <1>5, <1>6, <1>7, <1>8 DEF SoundCall, TakesRow, GuardInv

LEMMA SettleSound ==
  ASSUME AnyAmount, GuardInv, NEW c \in Caller, call[c].pc = "release",
         Settle(c, call[c].tok, call[c].bill), UNCHANGED call
  PROVE  SoundCall(c)
<1> DEFINE t == call[c].tok
           s == Smaller(call[c].bill, row[t].ceiling)
<1>1. /\ t \in DOMAIN row /\ call[c].bill \in Nat
      /\ CallOK(Kind[c], call[c], tx[c], row)
  BY TokenInHand DEF Working, GuardInv, CallsOK
<1>2. PgInv' /\ row' = row
  <2>1. PgInv'
    BY <1>1, SettleKeepsInv DEF AnyAmount, GuardInv
  <2>2. row' = row
    BY DEF Settle, db
  <2> QED  BY <2>1, <2>2
<1>3. Smaller(Larger(call[c].bill, 0), row[t].ceiling) = s
  BY <1>1 DEF Larger
<1>4. Stage(c, [committed |-> session.committed - row[t].ceiling,
                spent |-> session.spent + s],
            [row EXCEPT ![t].status = "settled", ![t].spent = s],
            "released", t, s, row[t].ceiling - s)
  BY <1>3 DEF Settle
<1>5. /\ tx'[c].at = "staged"
      /\ tx'[c].row = [row EXCEPT ![t].status = "settled", ![t].spent = s]
      /\ \A d \in Caller \ {c} : tx'[d] = tx[d]
  BY <1>4, StageEffect, SMTT(20)
<1>6. StagedOK(call[c], tx'[c], row)
  <2>1. call[c].pc \notin Borrowing /\ call[c].pc # "acquire"
    BY DEF Borrowing
  <2> QED  BY <1>5, <2>1 DEF StagedOK
<1>7. CallOK(Kind[c], call[c], tx'[c], row)
  <2>1. tx'[c].at \in TxPlaces(call[c].pc)
    BY <1>5 DEF TxPlaces
  <2> QED  BY <1>1, <1>5, <2>1 DEF CallOK
<1> QED  BY <1>2, <1>5, <1>6, <1>7, NotFaulted DEF SoundCall, TakesRow, GuardInv

LEMMA BeginSound ==
  ASSUME AnyAmount, GuardInv, NEW c \in Caller, Begin(c)
  PROVE  SoundCall(c)
BY ExtendSound, SettleSound DEF Begin, Borrowing
-----------------------------------------------------------------------------
\* A commit makes the staged rows the table; no other write was under way.
LEMMA CommitEffect ==
  ASSUME GuardInv, NEW c \in Caller, Commit(c)
  PROVE  /\ PgInv' /\ row' = tx[c].row /\ row \in Seq(Row)
         /\ tx[c].at = "staged" /\ tx'[c].at = "idle"
         /\ \A d \in Caller \ {c} : tx'[d] = tx[d] /\ tx[d].at # "staged"
         /\ CallOK(Kind[c], call[c], tx[c], row) /\ StagedOK(call[c], tx[c], row)
         /\ call[c].pc # "ended"
<1>1. PgInv'
  BY CommitKeepsInv DEF GuardInv
<1>2. /\ row' = tx[c].row /\ tx[c].at = "staged" /\ tx' = [tx EXCEPT ![c] = Idle]
  BY DEF Commit
<1>3. tx'[c].at = "idle" /\ \A d \in Caller \ {c} : tx'[d] = tx[d]
  BY <1>2, InvTypes, IdleType DEF GuardInv
<1>4. \A d \in Caller \ {c} : tx[d].at # "staged"
  BY <1>2, InvTypes DEF GuardInv, PgInv, OneHolder
<1>5. CallOK(Kind[c], call[c], tx[c], row) /\ StagedOK(call[c], tx[c], row)
  BY DEF GuardInv, CallsOK
<1>6. call[c].pc # "ended"
  BY <1>2, <1>5 DEF CallOK, TxPlaces
<1> QED  BY <1>1, <1>2, <1>3, <1>4, <1>5, <1>6, InvTypes DEF GuardInv

\* An allocation: the call runs, or was never told of its token.
LEMMA AllocatedSound ==
  ASSUME GuardInv, NEW c \in Caller, Commit(c), call[c].pc = "acquire",
         Replied(c) \/ End(c, DatabaseError)
  PROVE  SoundCall(c)
<1> DEFINE n == Len(row) + 1
           x == call[c].ceiling
<1>1. /\ call[c].tok = NoToken /\ call[c].error = "none"
      /\ call[c].model \in Requested /\ Listed(call[c].model)
      /\ tx[c].tok = n /\ row' = Append(row, NewRow(x)) /\ x \in Nat
  <2>1. x \in Nat
    BY DEF GuardInv, CallState
  <2> QED  BY <2>1, CommitEffect DEF CallOK, StagedOK
<1>2. /\ n \in Nat /\ n # NoToken
      /\ DOMAIN row' = DOMAIN row \cup {n} /\ n \notin DOMAIN row
      /\ \A u \in DOMAIN row : row'[u] = row[u]
      /\ row'[n] = NewRow(x)
  <2>1. Len(row) \in Nat
    BY CommitEffect, TableRows
  <2>2. n \in Nat /\ n # NoToken
    BY <2>1 DEF NoToken
  <2> QED  BY <1>1, <2>2, CommitEffect, OpenedRows
<1>3. /\ row'[n].initial = x /\ row'[n].ceiling = x /\ row'[n].status = "active"
  BY <1>2 DEF NewRow
<1>4. StagedOK(call'[c], tx'[c], row')
  BY CommitEffect DEF StagedOK
<1>5. call[c].error \notin FaultErrors
  BY NotFaulted
<1>6. CASE Replied(c)
  <2>1. call' = [call EXCEPT ![c].pc = "running", ![c].runs = 1,
                             ![c].tok = tx[c].tok]
    BY <1>6 DEF Replied
  <2>2. tx[c].tok = n
    BY <1>1
  <2> HIDE DEF n, x
  <2>3. /\ call' \in [Caller -> CallState]
        /\ \A d \in Caller \ {c} : call'[d] = call[d]
        /\ call'[c].tok = n /\ call'[c].model = call[c].model
        /\ call'[c].ceiling = call[c].ceiling /\ call'[c].pc = "running"
        /\ call'[c].error = call[c].error
    BY <1>2, <2>1, <2>2, RunCall
  <2>4. CallOK(Kind[c], call'[c], tx'[c], row')
    <3>1. tx'[c].at \in TxPlaces(call'[c].pc)
      BY <2>3, CommitEffect DEF TxPlaces
    <3>2. call'[c].ceiling = x /\ x <= x
      BY <1>1, <2>3 DEF x
    <3> QED  BY <1>1, <1>2, <1>3, <2>3, <3>1, <3>2 DEF CallOK, Borrowing
  <2>5. TakesRow(c)
    BY <1>1, <1>2, <2>3 DEF TakesRow
  <2> QED  BY <1>2, <1>4, <1>5, <2>3, <2>4, <2>5, CommitEffect DEF SoundCall
<1>7. CASE End(c, DatabaseError)
  <2> HIDE DEF n, x
  <2>1. /\ HandKept(c) /\ call'[c].pc = "ended"
        /\ call'[c].error = DatabaseError
    BY <1>7, EndCall DEF Errors
  <2>2. call'[c].tok = NoToken
    BY <1>1, <2>1 DEF HandKept
  <2>3. CallOK(Kind[c], call'[c], tx'[c], row')
    <3>1. tx'[c].at \in TxPlaces(call'[c].pc)
      BY <2>1, CommitEffect DEF TxPlaces
    <3> QED  BY <2>1, <2>2, <3>1 DEF CallOK, Working, Borrowing
  <2>4. TakesRow(c)
    BY <1>1, <1>2, <2>1, <2>2 DEF TakesRow, FaultErrors
  <2> QED  BY <1>2, <1>4, <1>5, <2>1, <2>3, <2>4, CommitEffect
           DEF SoundCall, HandKept
<1> QED  BY <1>6, <1>7

\* A commit of a call with a row keeps the table's length and the other rows.
LEMMA OwnCommitSound ==
  ASSUME GuardInv, NEW c \in Caller, Commit(c), HandKept(c),
         DOMAIN row' = DOMAIN row,
         \A u \in DOMAIN row \ {call[c].tok} : row'[u] = row[u],
         CallOK(Kind[c], call'[c], tx'[c], row')
  PROVE  SoundCall(c)
<1>1. StagedOK(call'[c], tx'[c], row')
  BY CommitEffect DEF StagedOK
<1>2. call[c].error \notin FaultErrors
  BY CommitEffect, NotFaulted
<1>3. TakesRow(c)
  BY DEF TakesRow, HandKept
<1> QED  BY <1>1, <1>2, <1>3, CommitEffect DEF SoundCall, HandKept

LEMMA RaisedSound ==
  ASSUME GuardInv, NEW c \in Caller, Commit(c), call[c].pc \in Borrowing,
         Replied(c) \/ End(c, DatabaseError)
  PROVE  SoundCall(c)
<1> DEFINE t == call[c].tok
<1>1. /\ t \in DOMAIN row /\ t # NoToken /\ row[t].status = "active"
      /\ row[t].initial = call[c].ceiling /\ call[c].ceiling <= row[t].ceiling
      /\ row[t].ceiling \in Nat /\ call[c].ceiling \in Nat
      /\ call[c].bill \in Nat
      /\ call[c].model \in Requested /\ Listed(call[c].model)
      /\ call[c].error = "none"
  <2>1. call[c].error = "none"
    BY CommitEffect DEF CallOK, Borrowing
  <2> QED  BY <2>1, TokenInHand DEF Working
<1>2. PICK x \in Nat :
        /\ row' = RaisedTo(t, x)
        /\ call[c].pc = "topup" => call[c].bill <= row[t].ceiling + x
  BY CommitEffect DEF StagedOK, RaisedTo
<1>3. /\ DOMAIN row' = DOMAIN row
      /\ \A u \in DOMAIN row \ {t} : row'[u] = row[u]
      /\ row'[t].ceiling = row[t].ceiling + x
      /\ row'[t].status = "active" /\ row'[t].initial = call[c].ceiling
  <2>1. row \in Seq(Row) /\ t \in DOMAIN row /\ row' = RaisedTo(t, x)
    BY <1>1, <1>2, CommitEffect
  <2> HIDE DEF t
  <2>2. /\ DOMAIN row' = DOMAIN row
        /\ \A u \in DOMAIN row \ {t} : row'[u] = row[u]
        /\ row'[t].ceiling = row[t].ceiling + x
        /\ row'[t].status = row[t].status /\ row'[t].initial = row[t].initial
    BY <2>1, RaisedRows
  <2> QED  BY <1>1, <2>2
<1>4. call[c].ceiling <= row'[t].ceiling
  BY <1>1, <1>3
<1> HIDE DEF t
<1>5. ASSUME HandKept(c), tx'[c].at \in TxPlaces(call'[c].pc),
             \/ call'[c].pc = "running" /\ call'[c].error = "none"
             \/ call'[c].pc = "ended" /\ call'[c].error = DatabaseError
             \/ /\ call'[c].pc = "release" /\ call'[c].error = "none"
                /\ call'[c].bill <= row'[t].ceiling
      PROVE  CallOK(Kind[c], call'[c], tx'[c], row')
  <2>1. /\ call'[c].tok = t /\ call'[c].model = call[c].model
        /\ call'[c].ceiling = call[c].ceiling
    BY <1>5 DEF HandKept, t
  <2>2. call'[c].error = DatabaseError => LeakExplained(call'[c])
    BY DEF LeakExplained, FaultErrors
  <2>3. call'[c].error = "none" /\ call'[c].bill <= row'[t].ceiling
          => Owed(Kind[c], call'[c], row'[t])
    BY DEF Owed
  <2> QED  BY <1>1, <1>3, <1>4, <1>5, <2>1, <2>2, <2>3
           DEF CallOK, Working, Borrowing
<1>6. CASE End(c, DatabaseError)
  <2>1. /\ HandKept(c) /\ call'[c].pc = "ended"
        /\ call'[c].error = DatabaseError
    BY <1>6, EndCall DEF Errors
  <2>2. tx'[c].at \in TxPlaces(call'[c].pc)
    BY <2>1, CommitEffect DEF TxPlaces
  <2> QED  BY <1>3, <1>5, <2>1, <2>2, OwnCommitSound DEF t
<1>7. CASE Replied(c) /\ call[c].pc = "rescue"
  <2>1. call' = [call EXCEPT ![c].pc = "running", ![c].runs = 2]
    BY <1>7 DEF Replied
  <2>2. HandKept(c) /\ call'[c].pc = "running" /\ call'[c].error = "none"
    BY <1>1, <2>1, RunAgainCall
  <2>3. tx'[c].at \in TxPlaces(call'[c].pc)
    BY <2>2, CommitEffect DEF TxPlaces
  <2> QED  BY <1>3, <1>5, <2>2, <2>3, OwnCommitSound DEF t
<1>8. CASE Replied(c) /\ call[c].pc = "topup"
  <2>1. Goto(c, "release")
    BY <1>8 DEF Replied
  <2>2. /\ HandKept(c) /\ call'[c].pc = "release" /\ call'[c].error = "none"
        /\ call'[c].bill <= row'[t].ceiling
    BY <1>1, <1>2, <1>3, <1>8, <2>1, GotoCall DEF Moves
  <2>3. tx'[c].at \in TxPlaces(call'[c].pc)
    BY <2>2, CommitEffect DEF TxPlaces
  <2> QED  BY <1>3, <1>5, <2>2, <2>3, OwnCommitSound DEF t
<1> QED  BY <1>6, <1>7, <1>8 DEF Borrowing

\* What a settlement charges is what was owed.
LEMMA OwedIsPaid ==
  ASSUME NEW kind, NEW k, NEW t, NEW later, k.bill \in Nat, k.ceiling \in Nat,
         t.ceiling \in Nat, k.ceiling <= t.ceiling, Owed(kind, k, t),
         later.ceiling = t.ceiling, later.initial = k.ceiling,
         later.spent = Smaller(k.bill, t.ceiling)
  PROVE  PaidExactly(kind, k, later)
<1>1. k.error \notin FaultErrors
  BY DEF Owed, FaultErrors, DatabaseError, Crashed, Exceeded, LoanDenied, OtherError
<1>2. CASE k.error = "none"
  <2>1. later.spent = IF HasReallocator THEN k.bill
                                        ELSE Smaller(k.bill, later.ceiling)
    BY <1>2 DEF Owed, Smaller
  <2> QED  BY <1>1, <1>2, <2>1
           DEF PaidExactly, CostsCeiling, Exceeded, LoanDenied
<1>3. CASE k.error # "none" /\ CostsCeiling(kind, k.error)
  <2>1. later.spent = later.initial
    BY <1>3 DEF Owed, Smaller
  <2> QED  BY <1>1, <1>3, <2>1 DEF PaidExactly
<1>4. CASE k.error # "none" /\ ~CostsCeiling(kind, k.error)
  <2>1. later.spent = 0 \/ (k.error = Exceeded /\ later.spent = later.initial)
    BY <1>4 DEF Owed, Smaller
  <2> QED  BY <1>1, <1>4, <2>1 DEF PaidExactly
<1> QED  BY <1>2, <1>3, <1>4

LEMMA SettledSound ==
  ASSUME GuardInv, NEW c \in Caller, Commit(c), call[c].pc = "release",
         Replied(c) \/ End(c, DatabaseError)
  PROVE  SoundCall(c)
<1> DEFINE t == call[c].tok
           s == Smaller(call[c].bill, row[t].ceiling)
<1>1. /\ t \in DOMAIN row /\ t # NoToken
      /\ row[t].initial = call[c].ceiling /\ call[c].ceiling <= row[t].ceiling
      /\ row[t].ceiling \in Nat /\ call[c].ceiling \in Nat
      /\ call[c].bill \in Nat
  BY TokenInHand DEF Working
<1>2. row' = ClosedTo(t, s) /\ s \in Nat
  <2>1. s \in Nat
    BY <1>1 DEF Smaller
  <2> QED  BY <2>1, CommitEffect DEF StagedOK, ClosedTo
<1>3. /\ DOMAIN row' = DOMAIN row
      /\ \A u \in DOMAIN row \ {t} : row'[u] = row[u]
      /\ row'[t].ceiling = row[t].ceiling /\ row'[t].spent = s
      /\ row'[t].status = "settled" /\ row'[t].initial = call[c].ceiling
  <2> HIDE DEF s
  <2> QED  BY <1>1, <1>2, CommitEffect, ClosedRows
<1>4. Owed(Kind[c], call[c], row[t])
  BY CommitEffect DEF CallOK
<1>5. ASSUME HandKept(c), call'[c].pc = "ended",
             PaidExactly(Kind[c], call'[c], row'[t])
      PROVE  SoundCall(c)
  <2>1. call'[c].tok = t /\ call'[c].ceiling = call[c].ceiling
    BY <1>5 DEF HandKept
  <2>2. tx'[c].at \in TxPlaces(call'[c].pc)
    BY <1>5, CommitEffect DEF TxPlaces
  <2> HIDE DEF t, s
  <2>3. CallOK(Kind[c], call'[c], tx'[c], row')
    BY <1>1, <1>3, <1>5, <2>1, <2>2 DEF CallOK, Working, Borrowing
  <2> QED  BY <1>3, <1>5, <2>3, OwnCommitSound DEF t
<1>6. CASE Replied(c)
  <2>1. Goto(c, "ended")
    BY <1>6 DEF Replied
  <2>2. /\ HandKept(c) /\ call'[c].pc = "ended"
        /\ call'[c].error = call[c].error /\ call'[c].bill = call[c].bill
    BY <2>1, GotoCall DEF Moves
  <2>3. call'[c].ceiling = call[c].ceiling
    BY <2>2 DEF HandKept
  <2>4. Owed(Kind[c], call'[c], row[t])
    BY <1>4, <2>2, <2>3 DEF Owed
  <2>5. row'[t].spent = Smaller(call'[c].bill, row[t].ceiling)
    BY <1>3, <2>2
  <2>6. PaidExactly(Kind[c], call'[c], row'[t])
    BY <1>1, <1>3, <2>2, <2>3, <2>4, <2>5, OwedIsPaid
  <2> QED  BY <1>5, <2>2, <2>6
<1>7. CASE End(c, DatabaseError)
  <2>1. /\ HandKept(c) /\ call'[c].pc = "ended"
        /\ call'[c].error = DatabaseError /\ call'[c].bill = call[c].bill
    BY <1>7, EndCall DEF Errors
  <2>2. PaidExactly(Kind[c], call'[c], row'[t])
    <3>1. call'[c].error \in FaultErrors
      BY <2>1 DEF FaultErrors
    <3>2. row'[t].spent = Smaller(call'[c].bill, row'[t].ceiling)
      BY <1>3, <2>1
    <3>3. call'[c].error # "none" /\ call'[c].error # Exceeded
          /\ ~CostsCeiling(Kind[c], call'[c].error)
      BY <2>1 DEF DatabaseError, Exceeded, LoanDenied, CostsCeiling
    <3> QED  BY <3>1, <3>2, <3>3 DEF PaidExactly
  <2> QED  BY <1>5, <2>1, <2>2
<1> QED  BY <1>6, <1>7

LEMMA AnswerSound ==
  ASSUME GuardInv, NEW c \in Caller, Answer(c)
  PROVE  SoundCall(c)
<1>1. ASSUME Commit(c), Replied(c) \/ End(c, DatabaseError) PROVE SoundCall(c)
  <2>1. call[c].pc \in {"acquire", "release"} \cup Borrowing
    <3>1. tx[c].at = "staged" /\ tx[c].at \in TxPlaces(call[c].pc)
      BY <1>1, CommitEffect DEF CallOK
    <3> QED  BY <3>1 DEF TxPlaces, Borrowing
  <2> QED  BY <1>1, <2>1, AllocatedSound, RaisedSound, SettledSound
<1>2. ASSUME tx[c].at \in {"staged", "denied"}, lock' = lock \ {c},
             tx' = [tx EXCEPT ![c] = Idle], UNCHANGED <<db, cache, denial>>
      PROVE  /\ PgInv' /\ row' = row /\ tx'[c].at = "idle"
             /\ \A d \in Caller \ {c} : tx'[d] = tx[d]
             /\ call[c].pc # "ended"
             /\ tx[c].at = "denied" => ~HasToken(c)
  <2>1. PgInv'
    BY <1>2, IdleStep, InvTypes DEF GuardInv
  <2>2. row' = row
    BY <1>2 DEF db
  <2>3. tx'[c].at = "idle" /\ \A d \in Caller \ {c} : tx'[d] = tx[d]
    BY <1>2, InvTypes, IdleType DEF GuardInv
  <2>4. tx[c].at \in TxPlaces(call[c].pc) /\ CallOK(Kind[c], call[c], tx[c], row)
    BY DEF GuardInv, CallsOK, CallOK
  <2>5. call[c].pc # "ended" /\ (tx[c].at = "denied" => call[c].pc = "acquire")
    BY <1>2, <2>4 DEF TxPlaces
  <2> QED  BY <2>1, <2>2, <2>3, <2>4, <2>5 DEF CallOK, HasToken
<1>3. CASE Rollback(c) /\ End(c, DatabaseError)
  <2>1. DatabaseError \in Errors \cap FaultErrors
    BY DEF Errors, FaultErrors
  <2>2. /\ PgInv' /\ row' = row /\ tx'[c].at = "idle"
        /\ \A d \in Caller \ {c} : tx'[d] = tx[d] /\ call[c].pc # "ended"
        /\ call[c].pc # "ended"
    BY <1>2, <1>3 DEF Rollback
  <2> QED  BY <1>3, <2>1, <2>2, EndSound
<1>4. CASE RaiseDenied(c) /\ End(c, "DeniedAllocation")
  <2>1. "DeniedAllocation" \in Errors
    BY DEF Errors
  <2>2. /\ PgInv' /\ row' = row /\ tx'[c].at = "idle"
        /\ \A d \in Caller \ {c} : tx'[d] = tx[d]
        /\ call[c].pc # "ended" /\ ~HasToken(c)
    BY <1>2, <1>4 DEF RaiseDenied
  <2> QED  BY <1>4, <2>1, <2>2, EndSound
<1> QED  BY <1>1, <1>3, <1>4 DEF Answer
-----------------------------------------------------------------------------
\* The steps that are not of one call: the background log and the crashes.
LEMMA LogKeepsCalls ==
  ASSUME GuardInv, NEW c \in Caller, Log(c)
  PROVE  GuardInv'
<1>1. PgInv'
  BY LogKeepsInv DEF GuardInv, Log
<1>2. row' = row /\ tx' = tx /\ call' = call
  BY DEF Log, ReadForLog, LogDenial, db
<1>3. CallsOK' /\ OwnTokens' /\ call' \in [Caller -> CallState]
  BY <1>2 DEF GuardInv, CallsOK, OwnTokens, HasToken
<1> QED  BY <1>1, <1>3 DEF GuardInv

LEMMA CrashEffect ==
  ASSUME GuardInv, NEW w \in Worker, CrashCalls(w)
  PROVE  /\ PgInv' /\ row' = row /\ session' = session
         /\ call' \in [Caller -> CallState]
         /\ \A d \in Caller :
              \/ call'[d] = call[d] /\ tx'[d] = tx[d]
              \/ call'[d] = call[d] /\ tx'[d].at = "idle" /\ tx[d].at = "idle"
              \/ /\ call[d].pc # "ended" /\ tx'[d].at = "idle"
                 /\ call'[d] = [call[d] EXCEPT !.pc = "ended", !.error = Crashed]
<1>1. PgInv'
  BY CrashKeepsInv DEF GuardInv, CrashCalls
<1>2. row' = row /\ session' = session
  BY DEF CrashCalls, Crash, db
<1>3. \A k \in CallState : [k EXCEPT !.pc = "ended", !.error = Crashed] \in CallState
  BY DEF CallState
<1>4. call' \in [Caller -> CallState]
  BY <1>3 DEF CrashCalls, GuardInv
<1>5. ASSUME NEW d \in Caller
      PROVE  \/ call'[d] = call[d] /\ tx'[d] = tx[d]
             \/ call'[d] = call[d] /\ tx'[d].at = "idle" /\ tx[d].at = "idle"
             \/ /\ call[d].pc # "ended" /\ tx'[d].at = "idle"
                /\ call'[d] = [call[d] EXCEPT !.pc = "ended", !.error = Crashed]
  <2>1. /\ tx' = [e \in Caller |-> IF e \in {f \in Caller : WorkerOf[f] = w}
                                   THEN Idle ELSE tx[e]]
        /\ call' = [e \in Caller |->
                      IF WorkerOf[e] = w /\ Started(e)
                      THEN [call[e] EXCEPT !.pc = "ended", !.error = Crashed]
                      ELSE call[e]]
    BY DEF CrashCalls, Crash
  <2>2. CASE WorkerOf[d] # w
    BY <2>1, <2>2
  <2>3. CASE WorkerOf[d] = w /\ Started(d)
    BY <2>1, <2>3, IdleType DEF Started
  <2>4. CASE WorkerOf[d] = w /\ ~Started(d)
    <3>1. call'[d] = call[d] /\ tx'[d].at = "idle"
      BY <2>1, <2>4, IdleType
    <3>2. tx[d].at \in TxPlaces(call[d].pc) /\ call[d].pc \in {"idle", "ended"}
      BY <2>4 DEF GuardInv, CallsOK, CallOK, Started
    <3>3. tx[d].at = "idle"
      BY <3>2 DEF TxPlaces
    <3> QED  BY <3>1, <3>3
  <2> QED  BY <2>2, <2>3, <2>4
<1> QED  BY <1>1, <1>2, <1>4, <1>5

LEMMA CrashKeepsCalls ==
  ASSUME GuardInv, NEW w \in Worker, CrashCalls(w)
  PROVE  GuardInv'
<1>1. \A d \in Caller :
        /\ call[d] \in CallState
        /\ CallOK(Kind[d], call[d], tx[d], row) /\ StagedOK(call[d], tx[d], row)
  BY DEF GuardInv, CallsOK
<1>2. \A d \in Caller : call'[d].tok = call[d].tok
  BY <1>1, CrashEffect, ZenonT(30) DEF CallState
<1>3. OwnTokens'
  BY <1>2 DEF GuardInv, OwnTokens, HasToken
<1>4. ASSUME NEW d \in Caller
      PROVE  /\ CallOK(Kind[d], call'[d], tx'[d], row)
             /\ StagedOK(call'[d], tx'[d], row)
  <2>1. CASE call'[d] = call[d] /\ tx'[d] = tx[d]
    BY <1>1, <2>1
  <2>2. CASE call'[d] = call[d] /\ tx'[d].at = "idle" /\ tx[d].at = "idle"
    <3>1. ASSUME NEW kind, NEW k, NEW p, NEW q, p.at = "idle", q.at = "idle",
                 CallOK(kind, k, q, row)
          PROVE  CallOK(kind, k, p, row)
      <4>1. p.at \in TxPlaces(k.pc)
        BY <3>1 DEF CallOK
      <4> QED  BY <3>1, <4>1 DEF CallOK
    <3>2. StagedOK(call'[d], tx'[d], row)
      BY <2>2 DEF StagedOK
    <3>3. CallOK(Kind[d], call[d], tx'[d], row)
      BY <1>1, <2>2, <3>1
    <3> QED  BY <2>2, <3>2, <3>3
  <2>3. CASE /\ call[d].pc # "ended" /\ tx'[d].at = "idle"
             /\ call'[d] = [call[d] EXCEPT !.pc = "ended", !.error = Crashed]
    <3>1. /\ call'[d].pc = "ended" /\ call'[d].error = Crashed
          /\ call'[d].tok = call[d].tok /\ call'[d].ceiling = call[d].ceiling
      BY <1>1, <2>3 DEF CallState
    <3>2. LeakExplained(call'[d])
      BY <3>1 DEF LeakExplained, FaultErrors
    <3>3. call[d].tok # NoToken =>
            /\ call[d].tok \in DOMAIN row /\ row[call[d].tok].status = "active"
            /\ row[call[d].tok].initial = call[d].ceiling
            /\ call[d].ceiling <= row[call[d].tok].ceiling
      BY <2>3, TokensWork, TokenInHand DEF HasToken
    <3>4. tx'[d].at \in TxPlaces(call'[d].pc)
      BY <2>3, <3>1 DEF TxPlaces
    <3> QED  BY <2>3, <3>1, <3>2, <3>3, <3>4
             DEF CallOK, StagedOK, Working, Borrowing
  <2> QED  BY <2>1, <2>2, <2>3, CrashEffect
<1>5. CallsOK'
  BY <1>4, CrashEffect DEF CallsOK
<1> QED  BY <1>3, <1>5, CrashEffect DEF GuardInv

LEMMA StutterKeepsCalls ==
  ASSUME GuardInv, UNCHANGED pgGuardVars
  PROVE  GuardInv'
<1>1. UNCHANGED pgVars /\ call' = call
  BY DEF pgGuardVars
<1>2. PgInv' /\ row' = row /\ tx' = tx
  BY <1>1, PgStutter
<1>3. CallsOK' /\ OwnTokens' /\ call' \in [Caller -> CallState]
  BY <1>1, <1>2 DEF GuardInv, CallsOK, OwnTokens, HasToken
<1> QED  BY <1>2, <1>3 DEF GuardInv

\* Every step is a sound one of one call, or one of the two above.
LEMMA GuardStepKinds ==
  ASSUME AnyAmount, GuardInv, PgGuardNext
  PROVE  \/ \E c \in Caller : SoundCall(c)
         \/ \E c \in Caller : Log(c)
         \/ \E w \in Worker : CrashCalls(w)
BY AcquireSound, ReturnsSound, UncostedSound, FailsSound, FailsAgainSound,
   BeginSound, AnswerSound
DEF PgGuardNext, RunEnds

LEMMA GuardInvStep ==
  ASSUME AnyAmount, GuardInv, [PgGuardNext]_pgGuardVars
  PROVE  GuardInv'
BY GuardStepKinds, SoundCallKeepsInv, LogKeepsCalls, CrashKeepsCalls,
   StutterKeepsCalls

LEMMA GuardInvInit == PgGuardInit => GuardInv
<1> SUFFICES ASSUME PgGuardInit PROVE GuardInv
  OBVIOUS
<1> DEFINE start == [pc |-> "idle", tok |-> NoToken, model |-> NoModel,
                     ceiling |-> 0, runs |-> 0, bill |-> 0, error |-> "none"]
<1>1. PgInv /\ \A c \in Caller : tx[c].at = "idle"
  BY InvInit, IdleType DEF PgGuardInit, PgInit
<1>2. /\ start \in CallState /\ start.pc = "idle" /\ start.tok = NoToken
      /\ start.error = "none"
  BY DEF CallState, NoToken
<1>3. call = [c \in Caller |-> start]
  BY DEF PgGuardInit
<1> HIDE DEF start
<1>4. call \in [Caller -> CallState] /\ \A c \in Caller : call[c] = start
  BY <1>2, <1>3
<1>5. OwnTokens
  BY <1>2, <1>4 DEF OwnTokens, HasToken
<1>6. CallsOK
  <2>1. SUFFICES ASSUME NEW c \in Caller
                 PROVE  /\ CallOK(Kind[c], start, tx[c], row)
                        /\ StagedOK(start, tx[c], row)
    BY <1>4 DEF CallsOK
  <2>2. tx[c].at \in TxPlaces(start.pc)
    BY <1>1, <1>2 DEF TxPlaces
  <2> QED  BY <1>1, <1>2, <2>2 DEF CallOK, StagedOK, Working, Borrowing
<1> QED  BY <1>1, <1>4, <1>5, <1>6 DEF GuardInv

LEMMA GuardInvariant ==
  ASSUME AnyAmount
  PROVE  PgGuardSpec => []GuardInv
<1>1. GuardInv /\ [PgGuardNext]_pgGuardVars => GuardInv'
  BY GuardInvStep
<1> QED  BY <1>1, GuardInvInit, PTL DEF PgGuardSpec
-----------------------------------------------------------------------------
(* A guarded call keeps its type, and its place in the wrapper says what its *)
(* transaction can be.                                                       *)
THEOREM PgGuardTypeCorrect ==
  ASSUME AnyAmount
  PROVE  PgGuardSpec => []PgGuardTypeOK
<1>1. GuardInv => PgGuardTypeOK
  <2> SUFFICES ASSUME GuardInv PROVE PgGuardTypeOK
    OBVIOUS
  <2>1. PgTypeOK /\ call \in [Caller -> CallState]
    BY DEF GuardInv, PgInv, MemoryOK
  <2>2. \A c \in Caller : tx[c].at \in TxPlaces(call[c].pc)
    BY DEF GuardInv, CallsOK, CallOK
  <2> QED  BY <2>1, <2>2 DEF PgGuardTypeOK, TxPlaces
<1> QED  BY <1>1, GuardInvariant, PTL

(* A settled call was charged its bill, its ceiling or nothing, whatever     *)
(* happened to its workers; a node refused after a rescue is left open.      *)
THEOREM PgBillsAreExact ==
  ASSUME AnyAmount
  PROVE  PgGuardSpec => []PgBilledExactly
<1>1. GuardInv => PgBilledExactly
  <2>1. ASSUME GuardInv, NEW c \in Caller, Ended(c), HasToken(c),
               row[call[c].tok].status = "settled"
        PROVE  PaidExactly(Kind[c], call[c], row[call[c].tok])
    BY <2>1 DEF GuardInv, CallsOK, CallOK, Ended, HasToken
  <2> QED  BY <2>1 DEF PgBilledExactly, PaidExactly, Faulted, FaultErrors
<1> QED  BY <1>1, GuardInvariant, PTL
-----------------------------------------------------------------------------
\* The rows no call knows of, and the calls that may have lost one.
Orphans == DOMAIN row \ {call[c].tok : c \in Caller}
Lost == {c \in Caller : Faulted(c) /\ ~HasToken(c)}

FewOrphans ==
  /\ IsFiniteSet(Orphans) /\ IsFiniteSet(Lost)
  /\ Cardinality(Orphans) <= Cardinality(Lost)

LEMMA SameOrphans ==
  ASSUME IsFiniteSet(Caller), FewOrphans,
         Orphans' \subseteq Orphans, Lost \subseteq Lost'
  PROVE  FewOrphans'
<1>1. Lost' \subseteq Caller
  BY DEF Lost
<1>2. IsFiniteSet(Orphans') /\ IsFiniteSet(Lost')
  BY <1>1, FS_Subset DEF FewOrphans
<1>3. /\ Cardinality(Orphans') <= Cardinality(Orphans)
      /\ Cardinality(Lost) <= Cardinality(Lost')
      /\ Cardinality(Orphans') \in Nat /\ Cardinality(Orphans) \in Nat
      /\ Cardinality(Lost) \in Nat /\ Cardinality(Lost') \in Nat
  BY <1>2, FS_Subset, FS_CardinalityType DEF FewOrphans
<1> QED  BY <1>2, <1>3 DEF FewOrphans

LEMMA OneMoreOrphan ==
  ASSUME IsFiniteSet(Caller), FewOrphans, NEW n, NEW c \in Caller,
         Orphans' \subseteq Orphans \cup {n},
         c \notin Lost, Lost \cup {c} \subseteq Lost'
  PROVE  FewOrphans'
<1>1. Lost' \subseteq Caller
  BY DEF Lost
<1>2. /\ IsFiniteSet(Orphans \cup {n})
      /\ Cardinality(Orphans \cup {n}) <= Cardinality(Orphans) + 1
      /\ Cardinality(Orphans) \in Nat
  <2>1. IsFiniteSet(Orphans) /\ Cardinality(Orphans) \in Nat
    BY FS_CardinalityType DEF FewOrphans
  <2>2. /\ IsFiniteSet(Orphans \cup {n})
        /\ Cardinality(Orphans \cup {n})
             = IF n \in Orphans THEN Cardinality(Orphans)
                                ELSE Cardinality(Orphans) + 1
    BY <2>1, FS_AddElement
  <2> QED  BY <2>1, <2>2
<1>3. /\ IsFiniteSet(Orphans') /\ Cardinality(Orphans') \in Nat
      /\ Cardinality(Orphans') <= Cardinality(Orphans \cup {n})
      /\ Cardinality(Orphans \cup {n}) \in Nat
  BY <1>2, FS_Subset, FS_CardinalityType
<1>4. IsFiniteSet(Lost') /\ Cardinality(Lost') \in Nat
  BY <1>1, FS_Subset, FS_CardinalityType
<1>5. Cardinality(Lost \cup {c}) = Cardinality(Lost) + 1 /\ Cardinality(Lost) \in Nat
  <2>1. IsFiniteSet(Lost) /\ Cardinality(Lost) \in Nat
    BY FS_CardinalityType DEF FewOrphans
  <2> QED  BY <2>1, FS_AddElement
<1>6. Cardinality(Lost \cup {c}) <= Cardinality(Lost')
  BY <1>4, FS_Subset
<1> QED  BY <1>2, <1>3, <1>4, <1>5, <1>6 DEF FewOrphans

LEMMA SoundCallOrphans ==
  ASSUME IsFiniteSet(Caller), GuardInv, FewOrphans, NEW c \in Caller, SoundCall(c)
  PROVE  FewOrphans'
<1>1. /\ \A d \in Caller \ {c} : call'[d] = call[d]
      /\ call[c].error \notin FaultErrors
  BY DEF SoundCall
<1>2. c \notin Lost /\ Lost \subseteq Lost'
  BY <1>1 DEF Lost, Faulted, FaultErrors, HasToken
<1>3. NoToken \notin DOMAIN row
  BY InvTypes, NoRowZero DEF GuardInv
<1>4. CASE DOMAIN row' = DOMAIN row /\ call'[c].tok = call[c].tok
  <2>1. \A d \in Caller : call'[d].tok = call[d].tok
    BY <1>1, <1>4
  <2>2. Orphans' \subseteq Orphans
    BY <1>4, <2>1 DEF Orphans
  <2> QED  BY <1>2, <2>2, SameOrphans
<1>5. ASSUME NEW n, call[c].tok = NoToken, DOMAIN row' = DOMAIN row \cup {n},
             call'[c].tok = n
      PROVE  FewOrphans'
  <2>1. Orphans' \subseteq Orphans
    <3>1. SUFFICES ASSUME NEW u \in DOMAIN row', \A d \in Caller : u # call'[d].tok
                   PROVE  u \in DOMAIN row /\ \A d \in Caller : u # call[d].tok
      BY DEF Orphans
    <3>2. u \in DOMAIN row
      BY <1>5, <3>1
    <3> QED  BY <1>1, <1>3, <1>5, <3>1, <3>2
  <2> QED  BY <1>2, <2>1, SameOrphans
<1>6. ASSUME NEW n, call[c].tok = NoToken, DOMAIN row' = DOMAIN row \cup {n},
             call'[c].tok = NoToken, call'[c].error \in FaultErrors
      PROVE  FewOrphans'
  <2>1. \A d \in Caller : call'[d].tok = call[d].tok
    BY <1>1, <1>6
  <2>2. Orphans' \subseteq Orphans \cup {n}
    BY <1>6, <2>1 DEF Orphans
  <2>3. Lost \cup {c} \subseteq Lost'
    BY <1>2, <1>6 DEF Lost, Faulted, FaultErrors, HasToken
  <2> QED  BY <1>2, <2>2, <2>3, OneMoreOrphan
<1> QED  BY <1>4, <1>5, <1>6 DEF SoundCall, TakesRow

LEMMA OrphansStep ==
  ASSUME AnyAmount, IsFiniteSet(Caller), GuardInv, FewOrphans,
         [PgGuardNext]_pgGuardVars
  PROVE  FewOrphans'
<1>1. ASSUME row' = row, \A d \in Caller : \/ call'[d] = call[d]
                                           \/ /\ call'[d].tok = call[d].tok
                                              /\ Faulted(d)'
      PROVE  FewOrphans'
  <2>1. \A d \in Caller : call'[d].tok = call[d].tok
    BY <1>1
  <2>2. Orphans' \subseteq Orphans
    BY <1>1, <2>1 DEF Orphans
  <2>3. Lost \subseteq Lost'
    BY <1>1 DEF Lost, Faulted, HasToken
  <2> QED  BY <2>2, <2>3, SameOrphans
<1>2. ASSUME NEW c \in Caller, Log(c) PROVE FewOrphans'
  <2>1. row' = row /\ call' = call
    BY <1>2 DEF Log, ReadForLog, LogDenial, db
  <2> QED  BY <1>1, <2>1
<1>3. ASSUME NEW w \in Worker, CrashCalls(w) PROVE FewOrphans'
  <2>1. \A d \in Caller :
          \/ call'[d] = call[d]
          \/ call'[d] = [call[d] EXCEPT !.pc = "ended", !.error = Crashed]
    BY <1>3, CrashEffect
  <2>2. \A d \in Caller : call[d] \in CallState
    BY DEF GuardInv
  <2>3. \A d \in Caller : \/ call'[d] = call[d]
                          \/ /\ call'[d].tok = call[d].tok
                             /\ Faulted(d)'
    BY <2>1, <2>2 DEF CallState, Faulted
  <2> QED  BY <1>1, <1>3, <2>3, CrashEffect
<1>4. ASSUME UNCHANGED pgGuardVars PROVE FewOrphans'
  BY <1>1, <1>4 DEF pgGuardVars, pgVars, db
<1> QED  BY <1>2, <1>3, <1>4, GuardStepKinds, SoundCallOrphans

(* Money stays committed only through faults, results without a cost and     *)
(* second failures, and an allocation nobody knows of is one lost reply.     *)
THEOREM PgLeaksAreExplained ==
  ASSUME AnyAmount, IsFiniteSet(Caller)
  PROVE  PgGuardSpec => []OnlyFaultsLeak
<1>1. PgGuardInit => FewOrphans
  <2> SUFFICES ASSUME PgGuardInit PROVE FewOrphans
    OBVIOUS
  <2>1. Orphans = {}
    BY DEF PgGuardInit, PgInit, Orphans
  <2>2. IsFiniteSet(Orphans) /\ Cardinality(Orphans) = 0
    BY <2>1, FS_EmptySet
  <2>3. IsFiniteSet(Lost) /\ Cardinality(Lost) \in Nat
    BY FS_Subset, FS_CardinalityType DEF Lost
  <2> QED  BY <2>2, <2>3 DEF FewOrphans
<1>2. GuardInv /\ FewOrphans /\ [PgGuardNext]_pgGuardVars => FewOrphans'
  BY OrphansStep
<1>3. GuardInv /\ FewOrphans => OnlyFaultsLeak
  <2> SUFFICES ASSUME GuardInv, FewOrphans PROVE OnlyFaultsLeak
    OBVIOUS
  <2>1. \A c \in Caller :
          HasToken(c) /\ Ended(c) /\ row[call[c].tok].status = "active"
            => LeakExplained(call[c])
    BY DEF GuardInv, CallsOK, CallOK, Ended, HasToken
  <2> QED  BY <2>1 DEF OnlyFaultsLeak, LeakExplained, FaultErrors, Faulted,
                       FewOrphans, Orphans, Lost
<1> QED  BY <1>1, <1>2, <1>3, GuardInvariant, PTL DEF PgGuardSpec
-----------------------------------------------------------------------------
\* A refused call goes on to settle and ends: while its refusal waits to be
\* logged, it asks for nothing more.
RefusedOnce ==
  \A c \in Caller : denial[c].at # "none" => call[c].pc \in {"release", "ended"}

\* What a step of c's wrapper is to the database: one step of its caller c, or
\* none, that leaves the other calls alone.
AsCaller(c) ==
  /\ Request(c) \/ Proceed(c) \/ UNCHANGED pgVars
  /\ \A d \in Caller \ {c} : denial'[d] = denial[d] /\ call'[d] = call[d]
  /\ denial'[c].at # "none" => call'[c].pc \in {"release", "ended"}

LEMMA AsCallerRefines ==
  ASSUME RefusedOnce, NEW c \in Caller, AsCaller(c)
  PROVE  [PgNext]_pgVars /\ RefusedOnce'
<1>1. [PgNext]_pgVars
  BY DEF AsCaller, PgNext
<1>2. RefusedOnce'
  BY DEF AsCaller, RefusedOnce
<1> QED  BY <1>1, <1>2

\* A wrapper at one of its earlier places has no refusal behind it.
LEMMA NoRefusal ==
  ASSUME RefusedOnce, NEW c \in Caller, call[c].pc \notin {"release", "ended"}
  PROVE  denial[c].at = "none" /\ c \notin Logging
BY DEF RefusedOnce, Logging

LEMMA AcquireRefines ==
  ASSUME AnyAmount, GuardInv, RefusedOnce, NEW c \in Caller, Acquire(c)
  PROVE  AsCaller(c)
<1>1. denial[c].at = "none"
  BY NoRefusal DEF Acquire
<1>2. \A d \in Caller \ {c} : call'[d] = call[d]
  BY AcquireSound DEF SoundCall
<1>3. CASE UNCHANGED pgVars
  BY <1>1, <1>2, <1>3 DEF AsCaller, pgVars
<1>4. ASSUME NEW x \in Nat, Allocate(c, x) \/ AllocateDenied(c, x)
      PROVE  AsCaller(c)
  <2>1. Request(c)
    BY <1>4 DEF Request, AnyAmount
  <2>2. denial' = denial
    BY <1>4 DEF Allocate, AllocateDenied
  <2> QED  BY <1>1, <1>2, <2>1, <2>2 DEF AsCaller
<1>5. \A m \in Requested, chars \in Prompt : Listed(m) => Ceiling(chars, m) \in Nat
  BY CostsAreAmounts DEF Listed
<1> QED  BY <1>3, <1>4, <1>5 DEF Acquire

\* The wrapper asks the Reallocator for a loan on its own token.
LEMMA AskRefines ==
  ASSUME AnyAmount, GuardInv, RefusedOnce, NEW c \in Caller, SoundCall(c),
         NEW x \in Nat, call[c].pc = "running", Ask(c, call[c].tok, x),
         tx'[c].at # "approved" => call'[c].pc = "release"
  PROVE  AsCaller(c)
<1>1. denial[c].at = "none" /\ c \notin Logging
  BY NoRefusal
<1>2. Request(c)
  BY <1>1, TokenInHand DEF Request, AnyAmount, Working
<1>3. \A d \in Caller \ {c} : denial'[d] = denial[d] /\ call'[d] = call[d]
  BY InvTypes DEF GuardInv, SoundCall, Ask
<1>4. denial'[c].at # "none" => call'[c].pc \in {"release", "ended"}
  <2>1. tx'[c].at = "approved" => denial' = denial
    BY DEF Ask
  <2> QED  BY <1>1, <2>1
<1> QED  BY <1>2, <1>3, <1>4 DEF AsCaller

LEMMA ReturnsRefines ==
  ASSUME AnyAmount, GuardInv, RefusedOnce, NEW c \in Caller, Returns(c)
  PROVE  AsCaller(c)
<1>1. /\ call[c].pc = "running" /\ denial[c].at = "none" /\ SoundCall(c)
      /\ call[c].ceiling \in Nat
  BY NoRefusal, ReturnsSound, TokenInHand DEF Returns, Working
<1>2. PICK r \in Result :
        /\ HasCost(r, call[c].model)
        /\ \/ /\ Overspends(c, r)
              /\ AskFor(c, r)
              /\ tx'[c].at # "approved" => Bill(c, call[c].ceiling, Exceeded)
           \/ UNCHANGED pgVars
  BY DEF Returns, TopUp, Refused
<1>3. CASE UNCHANGED pgVars
  BY <1>1, <1>3 DEF AsCaller, SoundCall, pgVars
<1>4. ASSUME Overspends(c, r),
             AskFor(c, r),
             tx'[c].at # "approved" => Bill(c, call[c].ceiling, Exceeded)
      PROVE  AsCaller(c)
  <2>1. ExtensionFor(Cost(c, r) - call[c].ceiling) \in Nat
    BY <1>1, <1>2, <1>4, CostType, ExtensionCovers DEF Overspends
  <2>2. tx'[c].at # "approved" => call'[c].pc = "release"
    BY <1>1, <1>4, BillCall DEF Errors
  <2> QED  BY <1>1, <1>4, <2>1, <2>2, AskRefines DEF AskFor
<1> QED  BY <1>2, <1>3, <1>4

LEMMA FailsRefines ==
  ASSUME AnyAmount, GuardInv, RefusedOnce, NEW c \in Caller, Fails(c)
  PROVE  AsCaller(c)
<1>1. /\ call[c].pc = "running" /\ denial[c].at = "none" /\ SoundCall(c)
      /\ call[c].ceiling \in Nat
  BY NoRefusal, FailsSound, TokenInHand DEF Fails, Working
<1>2. CASE UNCHANGED pgVars
  BY <1>1, <1>2 DEF AsCaller, SoundCall, pgVars
<1>3. ASSUME NEW x \in Overrun, Ask(c, call[c].tok, x),
             tx'[c].at # "approved" => Bill(c, call[c].ceiling, LoanDenied)
      PROVE  AsCaller(c)
  <2>1. x \in Nat
    BY <1>3, WrapperAssumption
  <2>2. tx'[c].at # "approved" => call'[c].pc = "release"
    BY <1>1, <1>3, BillCall DEF Errors
  <2> QED  BY <1>1, <1>3, <2>1, <2>2, AskRefines
<1> QED  BY <1>2, <1>3 DEF Fails

\* The wrapper's own transactions; a committed one is followed by the reply.
LEMMA TransactionRefines ==
  ASSUME AnyAmount, GuardInv, RefusedOnce, NEW c \in Caller, Begin(c) \/ Answer(c)
  PROVE  AsCaller(c)
<1>1. SoundCall(c)
  BY BeginSound, AnswerSound
<1>2. denial' = denial
  BY DEF Begin, Extend, Settle, Answer, Commit, Rollback, RaiseDenied
<1>3. CASE Begin(c)
  <2>1. Request(c) \/ Proceed(c)
    <3>1. CASE call[c].pc \in {"rescue", "topup"} /\ Extend(c)
      BY <3>1 DEF Proceed
    <3>2. CASE call[c].pc = "release" /\ Settle(c, call[c].tok, call[c].bill)
      BY <3>2, TokenInHand DEF Request, AnyAmount, Working
    <3> QED  BY <1>3, <3>1, <3>2 DEF Begin
  <2>2. call'[c].pc = call[c].pc
    BY <1>3 DEF Begin
  <2> QED  BY <1>1, <1>2, <2>1, <2>2 DEF AsCaller, SoundCall, RefusedOnce
<1>4. CASE Answer(c)
  <2>1. Proceed(c)
    BY <1>4 DEF Answer, Proceed
  <2>2. denial[c].at # "none" => call'[c].pc = "ended"
    <3>1. tx[c].at # "idle"
      BY <1>4 DEF Answer, Commit, Rollback, RaiseDenied
    <3>2. call[c].pc # "ended"
      BY <3>1 DEF GuardInv, CallsOK, CallOK, TxPlaces
    <3>3. ASSUME call[c].pc = "release" PROVE call'[c].pc = "ended"
      BY <1>4, <3>3, EndCall, GotoCall
      DEF Answer, Replied, Moves, Errors
    <3> QED  BY <3>2, <3>3 DEF RefusedOnce
  <2> QED  BY <1>1, <1>2, <2>1, <2>2 DEF AsCaller, SoundCall
<1> QED  BY <1>3, <1>4

LEMMA GuardStepRefines ==
  ASSUME AnyAmount, GuardInv, RefusedOnce, [PgGuardNext]_pgGuardVars
  PROVE  [PgNext]_pgVars /\ RefusedOnce'
<1>1. ASSUME NEW c \in Caller, ReturnsUncosted(c) \/ FailsAgain(c) PROVE AsCaller(c)
  <2>1. /\ call[c].pc = "running" /\ UNCHANGED pgVars /\ SoundCall(c)
    BY <1>1, UncostedSound, FailsAgainSound DEF ReturnsUncosted, FailsAgain
  <2>2. denial[c].at = "none"
    BY <2>1, NoRefusal
  <2> QED  BY <2>1, <2>2 DEF AsCaller, SoundCall, pgVars
<1>2. ASSUME NEW c \in Caller, Log(c) PROVE AsCaller(c)
  <2>1. Proceed(c) /\ call' = call
    BY <1>2 DEF Log, Proceed
  <2>2. denial[c].at # "none" /\ \A d \in Caller \ {c} : denial'[d] = denial[d]
    BY <1>2, InvTypes DEF Log, ReadForLog, LogDenial, GuardInv
  <2> QED  BY <2>1, <2>2 DEF AsCaller, RefusedOnce
<1>3. ASSUME NEW c \in Caller,
             Acquire(c) \/ RunEnds(c) \/ Begin(c) \/ Answer(c) \/ Log(c)
      PROVE  AsCaller(c)
  BY <1>1, <1>2, <1>3, AcquireRefines, ReturnsRefines, FailsRefines,
     TransactionRefines DEF RunEnds
<1>4. ASSUME NEW w \in Worker, CrashCalls(w)
      PROVE  [PgNext]_pgVars /\ RefusedOnce'
  <2>1. [PgNext]_pgVars
    BY <1>4 DEF CrashCalls, PgNext
  <2>2. \A d \in Caller : denial'[d].at # "none" => denial[d].at # "none"
    BY <1>4 DEF CrashCalls, Crash, NoLog
  <2>3. \A d \in Caller : call'[d] = call[d] \/ call'[d].pc = "ended"
    <3>1. \A d \in Caller :
            \/ call'[d] = call[d]
            \/ call'[d] = [call[d] EXCEPT !.pc = "ended", !.error = Crashed]
      BY <1>4, CrashEffect
    <3>2. \A d \in Caller : call[d] \in CallState
      BY DEF GuardInv
    <3> QED  BY <3>1, <3>2 DEF CallState
  <2>4. RefusedOnce'
    BY <2>2, <2>3 DEF RefusedOnce
  <2> QED  BY <2>1, <2>4
<1>5. ASSUME UNCHANGED pgGuardVars PROVE [PgNext]_pgVars /\ RefusedOnce'
  BY <1>5 DEF pgGuardVars, pgVars, RefusedOnce
<1> QED  BY <1>3, <1>4, <1>5, AsCallerRefines DEF PgGuardNext

(* The guarded calls use the database only as its callers may: every step of *)
(* a wrapper, and of a worker that dies under it, is one that the database   *)
(* was proved correct for.                                                   *)
THEOREM PgGuardRefines ==
  ASSUME AnyAmount
  PROVE  PgGuardSpec => ImplementsPgTreasury
<1>1. PgGuardInit => PgInit /\ RefusedOnce
  BY DEF PgGuardInit, PgInit, RefusedOnce, NoLog
<1>2. GuardInv /\ RefusedOnce /\ [PgGuardNext]_pgGuardVars
        => [PgNext]_pgVars /\ RefusedOnce'
  BY GuardStepRefines
<1> QED  BY <1>1, <1>2, GuardInvariant, PTL
         DEF PgGuardSpec, ImplementsPgTreasury, PgSpec

(* So what was proved of the database holds under the guarded calls of any   *)
(* number of workers, and through their faults: its balance and its audit    *)
(* trail agree with its rows, and it implements the clearinghouse of the     *)
(* in-memory treasury.                                                       *)
THEOREM PgGuardImplements ==
  ASSUME AnyAmount
  PROVE  PgGuardSpec => /\ []PgConservation
                        /\ []PgAuditReplays
                        /\ PgImplementsClearinghouse
BY PgGuardRefines, PgMoneyConserved, PgAuditTrailReplays, PgImplements, PTL
DEF ImplementsPgTreasury
=============================================================================
