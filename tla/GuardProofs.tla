----------------------------- MODULE GuardProofs -----------------------------
(* The guarded calls for every number of calls, event loops and models, and  *)
(* for every result and every exception of the wrapped functions.            *)
(*                                                                           *)
(* The invariant follows one call through its wrapper (CallOK).  It rests on *)
(* the calls not sharing tokens: what the other calls do to the treasury     *)
(* leaves a call's token, and so its ceiling and its bill, as they were.     *)
EXTENDS LedgerGuard, LendingProofs

Borrowing == {"rescue", "topup"}
Working == {"running", "release"} \cup Borrowing

LeakExplained(k) ==
  \/ k.error \in {Unpriced, Unreadable}
  \/ k.runs = 2 /\ k.error \in Failure

PaidExactly(k, t) ==
  IF k.error = "none"
  THEN t.spent = IF HasReallocator THEN k.bill ELSE Smaller(k.bill, t.ceiling)
  ELSE t.spent \in {0, t.ceiling}

\* What a call k may rely on, given its request for a loan.
CallOK(k, request) ==
  /\ k.pc = "idle" => k.tok = NoToken
  /\ k.pc \in Working => k.tok \in active
  /\ k.tok # NoToken =>
       k.tok \in DOMAIN token /\ k.model \in Requested /\ Listed(k.model)
  /\ k.pc \in {"idle", "running"} \cup Borrowing => k.error = "none"
  /\ request.at # "idle" <=> k.pc \in Borrowing
  /\ k.pc \in Borrowing => request.tok = k.tok
  /\ k.pc = "topup" => k.bill <= token[k.tok].ceiling + request.extra
  /\ k.pc = "release" =>
       IF k.error = "none" THEN HasReallocator => k.bill <= token[k.tok].ceiling
                           ELSE k.bill \in {0, token[k.tok].ceiling}
  /\ k.pc = "ended" =>
       /\ k.tok \in active => LeakExplained(k)
       /\ k.tok \in settled => PaidExactly(k, token[k.tok])

OwnTokens ==
  \A c, d \in Caller : call[c].tok # NoToken /\ call[c].tok = call[d].tok => c = d

TypesOK == LendingTypeOK /\ call \in [Caller -> CallState]

CallsOK == \A c \in Caller : CallOK(call[c], lend[c])

GuardInv == TypesOK /\ OwnTokens /\ CallsOK
-----------------------------------------------------------------------------
\* A step of one call changes its own token only, or takes a new one.
OnlyTouches(t) ==
  /\ DOMAIN token \subseteq DOMAIN token'
  /\ \A u \in DOMAIN token \ {t} : /\ token'[u] = token[u]
                                   /\ u \in active' <=> u \in active
                                   /\ u \in settled' <=> u \in settled

SoundCall(c) ==
  /\ TypesOK'
  /\ OnlyTouches(call[c].tok)
  /\ \A d \in Caller \ {c} : call'[d] = call[d] /\ lend'[d] = lend[d]
  /\ \/ call'[c].tok = call[c].tok
     \/ call'[c].tok \notin DOMAIN token
  /\ CallOK(call[c], lend[c])'

LEMMA NoSuchToken == \A tokens \in Seq(AllocationToken) : NoToken \notin DOMAIN tokens
BY DEF NoToken

LEMMA SoundCallKeepsInv ==
  ASSUME GuardInv, NEW c \in Caller, SoundCall(c)
  PROVE  GuardInv'
<1>1. TypesOK'
  BY DEF SoundCall
<1>2. \A d \in Caller : call[d].tok # NoToken => call[d].tok \in DOMAIN token
  BY DEF GuardInv, CallsOK, CallOK
<1>3. OwnTokens'
  <2>1. \A d \in Caller \ {c} :
          call'[d].tok # NoToken => call'[c].tok # call'[d].tok
    BY <1>2 DEF SoundCall, GuardInv, OwnTokens
  <2> QED  BY <2>1 DEF SoundCall, GuardInv, OwnTokens
<1>4. ASSUME NEW d \in Caller, d # c
      PROVE  CallOK(call[d], lend[d])'
  <2> DEFINE k == call[d]
             q == lend[d]
  <2>1. k' = k /\ q' = q
    BY <1>4 DEF SoundCall
  <2>2. CallOK(k, q)
    BY DEF GuardInv, CallsOK
  <2>3. k.tok = NoToken =>
          k.tok \notin active /\ k.tok \notin settled /\ k.tok \notin active'
          /\ k.tok \notin settled'
    <3>1. NoToken \notin DOMAIN token /\ NoToken \notin DOMAIN token'
      BY <1>1, NoSuchToken DEF GuardInv, TypesOK, LendingTypeOK, TypeOK
    <3> QED  BY <1>1, <3>1 DEF GuardInv, TypesOK, LendingTypeOK, TypeOK
  <2>4. k.tok # NoToken =>
          /\ k.tok \in DOMAIN token /\ k.tok \in DOMAIN token'
          /\ token'[k.tok] = token[k.tok]
          /\ k.tok \in active' <=> k.tok \in active
          /\ k.tok \in settled' <=> k.tok \in settled
    BY <1>2, <1>4 DEF SoundCall, OnlyTouches, GuardInv, OwnTokens
  <2> HIDE DEF k, q
  <2>5. CallOK(k, q)'
    BY <2>1, <2>2, <2>3, <2>4
    DEF CallOK, LeakExplained, PaidExactly, Working, Borrowing
  <2> QED  BY <2>5 DEF k, q
<1>5. CallsOK'
  BY <1>4 DEF SoundCall, CallsOK
<1> QED  BY <1>1, <1>3, <1>5 DEF GuardInv
-----------------------------------------------------------------------------
\* The places of a usage dict, one by one.
LEMMA PlacesTuple ==
  /\ DOMAIN Places = 1 .. 5
  /\ Places[1] = "token_usage" /\ Places[2] = "usage"
  /\ Places[3] = "usage_metadata" /\ Places[4] = "entry"
  /\ Places[5] = "attribute"
BY DEF Places

\* The dict that is read is one of those found.
LEMMA DictIsFound ==
  ASSUME NEW r \in Result, HasUsage(r)
  PROVE  \E place \in DOMAIN r.usage : Found(r, place) /\ UsageDict(r) = r.usage[place]
<1>1. \E i \in 1 .. 5 : Found(r, Places[i])
  BY UsageAssumption, PlacesTuple DEF HasUsage
<1>2. \E i \in 1 .. 5 : FirstFound(r, i)
  BY <1>1, PlacesTuple DEF FirstFound
<1> DEFINE i == CHOOSE i \in DOMAIN Places : FirstFound(r, i)
<1>3. FirstFound(r, i)
  BY <1>2, PlacesTuple
<1> QED  BY <1>3 DEF UsageDict, FirstFound, Found

\* What is read of it are counts.
LEMMA DictCounts ==
  ASSUME NEW r \in Result, HasUsage(r)
  PROVE  /\ Tokens(UsageDict(r), "prompt_tokens", "input_tokens") \in Nat
         /\ Tokens(UsageDict(r), "completion_tokens", "output_tokens") \in Nat
<1>1. \A key \in TokenKey \cap DOMAIN UsageDict(r) : UsageDict(r)[key] \in Nat
  BY DictIsFound, UsageAssumption
<1> QED  BY <1>1 DEF Tokens, TokenKey

\* A cost is an amount.
LEMMA CostsAreAmounts ==
  ASSUME NEW m \in DOMAIN Table
  PROVE  /\ \A chars \in Prompt : Ceiling(chars, m) \in Nat
         /\ \A r \in Result : HasCost(r, m) => SettleCost(r, m) \in Nat
<1>1. \A x, y, n, k \in Nat : x * n + y * k \in Nat
  OBVIOUS
<1>2. ASSUME NEW model \in DOMAIN Table, NEW n \in Nat, NEW k \in Nat
      PROVE  CostOf(Table[model], n, k) \in Nat
  BY <1>1, UsageAssumption DEF CostOf
<1>3. ASSUME NEW chars \in Prompt PROVE Ceiling(chars, m) \in Nat
  <2>1. Larger(1, chars \div CharsPerToken) \in Nat
    BY WrapperAssumption DEF Larger, CharsPerToken
  <2> QED  BY <1>2, <2>1, WrapperAssumption
           DEF Ceiling, EstimatePreflightCost, Larger
<1>4. ASSUME NEW r \in Result, HasCost(r, m) PROVE SettleCost(r, m) \in Nat
  BY <1>2, <1>4, DictCounts DEF HasCost, Priced, SettleCost, CostOfDict
<1> QED  BY <1>3, <1>4

\* Of the two names of a count a dict has one at most, and that one is read.
LEMMA OneName ==
  ASSUME NEW dict, NEW key, NEW native, key # native,
         ~({key, native} \subseteq DOMAIN dict)
  PROVE  \/ /\ {key, native} \cap DOMAIN dict = {}
            /\ Tokens(dict, key, native) = 0
         \/ \E k \in {key, native} :
              /\ {key, native} \cap DOMAIN dict = {k}
              /\ Tokens(dict, key, native) = dict[k]
<1>1. CASE key \in DOMAIN dict
  <2>1. /\ {key, native} \cap DOMAIN dict = {key}
        /\ Tokens(dict, key, native) = dict[key]
    BY <1>1 DEF Tokens
  <2> QED  BY <2>1
<1>2. CASE key \notin DOMAIN dict /\ native \in DOMAIN dict
  <2>1. /\ {key, native} \cap DOMAIN dict = {native}
        /\ Tokens(dict, key, native) = dict[native]
    BY <1>2 DEF Tokens
  <2> QED  BY <2>1
<1>3. CASE key \notin DOMAIN dict /\ native \notin DOMAIN dict
  BY <1>3 DEF Tokens
<1> QED  BY <1>1, <1>2, <1>3

\* The part of a cost that one count makes: nothing without its key.
LEMMA OneCount ==
  ASSUME NEW f, NEW S, NEW T, IsFiniteSet(T), S \cap T = {},
         \A k \in S \cup T : f[k] \in Nat, NEW cost \in Nat,
         \/ S = {} /\ cost = 0
         \/ \E k \in S : S = {k} /\ cost = f[k]
  PROVE  SumOver(f, T \cup S) = SumOver(f, T) + cost
<1>1. CASE S = {} /\ cost = 0
  <2>1. T \cup S = T /\ SumOver(f, T) \in Nat
    BY <1>1, SumNat
  <2> QED  BY <1>1, <2>1
<1>2. ASSUME NEW k \in S, S = {k}, cost = f[k]
      PROVE  SumOver(f, T \cup S) = SumOver(f, T) + cost
  BY <1>2, SumAdd
<1> QED  BY <1>1, <1>2

\* What a dict is charged is what it reports.
LEMMA ChargedAsReported ==
  ASSUME NEW r \in Result, NEW place \in DOMAIN r.usage, ~NamesTwice(r),
         NEW model \in DOMAIN Table
  PROVE  CostOfDict(r.usage[place], model) = ReportedCost(r, place, model)
<1> DEFINE dict == r.usage[place]
           In == {"prompt_tokens", "input_tokens"}
           Out == {"completion_tokens", "output_tokens"}
           K == TokenKey \cap DOMAIN dict
           price == Table[model]
           in == Tokens(dict, "prompt_tokens", "input_tokens")
           out == Tokens(dict, "completion_tokens", "output_tokens")
           f == [key \in K |-> Rate(price, key) * dict[key]]
<1>1. price.input \in Nat /\ price.output \in Nat /\ \A k \in K : dict[k] \in Nat
  BY UsageAssumption
<1>2. /\ K = (In \cap DOMAIN dict) \cup (Out \cap DOMAIN dict)
      /\ (In \cap DOMAIN dict) \cap (Out \cap DOMAIN dict) = {}
  BY DEF TokenKey
<1>3. /\ \A k \in In \cap DOMAIN dict : f[k] = price.input * dict[k]
      /\ \A k \in Out \cap DOMAIN dict : f[k] = price.output * dict[k]
  BY DEF TokenKey, Rate
<1>4. \/ In \cap DOMAIN dict = {} /\ in = 0
      \/ \E k \in In \cap DOMAIN dict : In \cap DOMAIN dict = {k} /\ in = dict[k]
  BY OneName DEF NamesTwice
<1>5. \/ Out \cap DOMAIN dict = {} /\ out = 0
      \/ \E k \in Out \cap DOMAIN dict : Out \cap DOMAIN dict = {k} /\ out = dict[k]
  BY OneName DEF NamesTwice
<1>6. CostOfDict(dict, model) = price.input * in + price.output * out
  BY DEF CostOfDict, CostOf
<1>7. ReportedCost(r, place, model) = SumOver(f, K)
  BY DEF ReportedCost
<1> DEFINE D == DOMAIN dict
<1>8. in \in Nat /\ out \in Nat
  BY <1>1, <1>2, <1>4, <1>5
<1> HIDE DEF In, Out, in, out, f, price, dict, K, D
<1>9. \A x, y \in Nat : x * y \in Nat /\ x * 0 = 0
  OBVIOUS
<1> DEFINE inCost == price.input * in
           outCost == price.output * out
<1>10. inCost \in Nat /\ outCost \in Nat /\ \A k \in K : f[k] \in Nat
  BY <1>1, <1>2, <1>3, <1>8, <1>9 DEF K
<1>11. \/ In \cap DOMAIN dict = {} /\ inCost = 0
       \/ \E k \in In \cap DOMAIN dict : In \cap DOMAIN dict = {k} /\ inCost = f[k]
  BY <1>1, <1>3, <1>4, <1>9
<1>12. \/ Out \cap DOMAIN dict = {} /\ outCost = 0
       \/ \E k \in Out \cap DOMAIN dict : Out \cap DOMAIN dict = {k} /\ outCost = f[k]
  BY <1>1, <1>3, <1>5, <1>9
<1> HIDE DEF inCost, outCost
<1> DEFINE A == In \cap DOMAIN dict
           B == Out \cap DOMAIN dict
<1>13. /\ A \cap B = {} /\ K = A \cup B
       /\ \A k \in A \cup B : f[k] \in Nat
       /\ \/ A = {} /\ inCost = 0
          \/ \E k \in A : A = {k} /\ inCost = f[k]
       /\ \/ B = {} /\ outCost = 0
          \/ \E k \in B : B = {k} /\ outCost = f[k]
  BY <1>2, <1>10, <1>11, <1>12
<1> HIDE DEF A, B
<1>14. SumOver(f, {}) = 0 /\ IsFiniteSet({}) /\ IsFiniteSet(A)
  <2>1. SumOver(f, {}) = 0
    BY SumEmpty
  <2>2. IsFiniteSet({}) /\ \A k : IsFiniteSet({k})
    BY FS_EmptySet, FS_Singleton
  <2>3. A = {} \/ \E k : A = {k}
    BY <1>13
  <2> QED  BY <2>1, <2>2, <2>3
<1>15. SumOver(f, {} \cup A) = SumOver(f, {}) + inCost
  <2>1. A \cap {} = {} /\ \A k \in A \cup {} : f[k] \in Nat
    BY <1>13
  <2> QED  BY <1>10, <1>13, <1>14, <2>1, OneCount
<1>16. {} \cup A = A
  OBVIOUS
<1>17. SumOver(f, A) = inCost
  BY <1>10, <1>14, <1>15, <1>16
<1>18. SumOver(f, A \cup B) = SumOver(f, A) + outCost
  <2>1. B \cap A = {} /\ \A k \in B \cup A : f[k] \in Nat
    BY <1>13
  <2> QED  BY <1>10, <1>13, <1>14, <2>1, OneCount
<1> QED  BY <1>6, <1>7, <1>10, <1>13, <1>17, <1>18 DEF inCost, outCost, dict

\* A result is charged what a place that reports tokens says, and nothing if
\* none does.
LEMMA SettledAsReported ==
  ASSUME NEW r \in Result, NEW m, HasCost(r, m), ~HidesUsage(r), ~NamesTwice(r)
  PROVE  IF Reports(r) = {} THEN SettleCost(r, m) = 0
         ELSE \E place \in Reports(r) :
                SettleCost(r, m) = ReportedCost(r, place, UsageModel(r, m))
<1>1. CASE ~HasUsage(r)
  <2>1. \A place \in DOMAIN r.usage : place = "token_usage" /\ r.usage[place] = EmptyDict
    BY <1>1 DEF HasUsage, Found
  <2>2. DOMAIN EmptyDict = {}
    BY DEF EmptyDict
  <2>3. Reports(r) = {}
    BY <2>1, <2>2 DEF Reports
  <2> QED  BY <1>1, <2>3 DEF SettleCost
<1>2. CASE HasUsage(r)
  <2>1. PICK place \in DOMAIN r.usage : Found(r, place) /\ UsageDict(r) = r.usage[place]
    BY <1>2, DictIsFound
  <2>2. UsageModel(r, m) \in DOMAIN Table
    BY <1>2 DEF HasCost, Priced
  <2>3. SettleCost(r, m) = CostOfDict(r.usage[place], UsageModel(r, m))
    BY <1>2, <2>1 DEF SettleCost
  <2>4. CASE place \in Reports(r)
    BY <2>2, <2>3, <2>4, ChargedAsReported
  <2>5. CASE place \notin Reports(r)
    <3>1. Reports(r) = {}
      BY <2>1, <2>5 DEF HidesUsage, Found
    <3> DEFINE in == Tokens(UsageDict(r), "prompt_tokens", "input_tokens")
               out == Tokens(UsageDict(r), "completion_tokens", "output_tokens")
    <3>2. in \in Nat /\ out \in Nat
      BY <1>2, DictCounts
    <3>3. ~(in > 0) /\ ~(out > 0)
      BY <2>1, <2>5 DEF Reports, Tokens, TokenKey
    <3>4. SettleCost(r, m) = CostOf(Table[UsageModel(r, m)], in, out)
      BY <2>1, <2>3 DEF CostOfDict
    <3>5. in = 0 /\ out = 0
      BY <3>2, <3>3
    <3> HIDE DEF in, out
    <3>6. \A x, y \in Nat : x * 0 + y * 0 = 0
      OBVIOUS
    <3> QED  BY <2>2, <3>1, <3>4, <3>5, <3>6, UsageAssumption DEF CostOf
  <2> QED  BY <2>4, <2>5
<1> QED  BY <1>1, <1>2
-----------------------------------------------------------------------------
\* A working call holds an active token.
LEMMA TokenInHand ==
  ASSUME GuardInv, NEW c \in Caller, call[c].pc \in Working
  PROVE  /\ call[c].tok \in active /\ call[c].tok \in DOMAIN token
         /\ call[c].tok \notin settled /\ call[c].tok # NoToken
         /\ token[call[c].tok] \in AllocationToken /\ CurrentCeiling(c) \in Nat
         /\ call[c].model \in Requested /\ Listed(call[c].model)
<1>1. call[c].tok \in active
  BY DEF GuardInv, CallsOK, CallOK
<1>2. call[c].tok \in DOMAIN token /\ call[c].tok \notin settled
  BY <1>1 DEF GuardInv, TypesOK, LendingTypeOK, TypeOK
<1>3. call[c].tok # NoToken
  BY <1>2, NoSuchToken DEF GuardInv, TypesOK, LendingTypeOK, TypeOK
<1>4. token[call[c].tok] \in AllocationToken
  BY <1>2, Registry DEF GuardInv, TypesOK, LendingTypeOK
<1>5. CurrentCeiling(c) \in Nat
  BY <1>4 DEF CurrentCeiling, AllocationToken
<1> QED  BY <1>1, <1>2, <1>3, <1>4, <1>5 DEF GuardInv, CallsOK, CallOK

LEMMA CostType ==
  ASSUME GuardInv, NEW c \in Caller, call[c].pc = "running", NEW r \in Result,
         HasCost(r, call[c].model)
  PROVE  Cost(c, r) \in Nat
<1>1. call[c].model \in Requested /\ Listed(call[c].model)
  BY TokenInHand DEF Working
<1> QED  BY <1>1, CostsAreAmounts DEF Cost, Listed

\* The call is now r; nobody else's is another.
LEMMA CallBecomes ==
  ASSUME TypesOK, NEW c \in Caller, NEW r \in CallState,
         call' = [call EXCEPT ![c] = r]
  PROVE  /\ call' \in [Caller -> CallState] /\ call'[c] = r
         /\ \A d \in Caller \ {c} : call'[d] = call[d]
BY DEF TypesOK

\* What a call has in hand: its token, and the model it was priced for.
HandKept(c) ==
  /\ call' \in [Caller -> CallState]
  /\ call'[c].tok = call[c].tok /\ call'[c].model = call[c].model
  /\ \A d \in Caller \ {c} : call'[d] = call[d]

LEMMA GotoCall ==
  ASSUME TypesOK, NEW c \in Caller, NEW place \in Place, Goto(c, place)
  PROVE  /\ HandKept(c) /\ call'[c].pc = place
         /\ call'[c].error = call[c].error /\ call'[c].bill = call[c].bill
<1> DEFINE r == [call[c] EXCEPT !.pc = place]
<1>1. /\ r \in CallState /\ r.tok = call[c].tok /\ r.model = call[c].model
      /\ r.pc = place /\ r.error = call[c].error /\ r.bill = call[c].bill
  BY DEF TypesOK, CallState
<1>2. call' = [call EXCEPT ![c] = r]
  BY DEF Goto
<1> HIDE DEF r
<1> QED  BY <1>1, <1>2, CallBecomes DEF HandKept

LEMMA EndCall ==
  ASSUME TypesOK, NEW c \in Caller, NEW error \in Raised, End(c, error)
  PROVE  /\ HandKept(c) /\ call'[c].pc = "ended" /\ call'[c].error = error
         /\ call'[c].runs = call[c].runs /\ call'[c].bill = call[c].bill
<1> DEFINE r == [call[c] EXCEPT !.pc = "ended", !.error = error]
<1>1. /\ r \in CallState /\ r.tok = call[c].tok /\ r.model = call[c].model
      /\ r.pc = "ended" /\ r.error = error
      /\ r.runs = call[c].runs /\ r.bill = call[c].bill
  BY DEF TypesOK, CallState, Place
<1>2. call' = [call EXCEPT ![c] = r]
  BY DEF End
<1> HIDE DEF r
<1> QED  BY <1>1, <1>2, CallBecomes DEF HandKept

LEMMA BillCall ==
  ASSUME TypesOK, NEW c \in Caller, NEW error \in Raised, NEW spend \in Nat,
         Bill(c, spend, error)
  PROVE  /\ HandKept(c) /\ call'[c].pc = "release"
         /\ call'[c].error = error /\ call'[c].bill = spend
<1> DEFINE r == [call[c] EXCEPT !.pc = "release", !.bill = spend, !.error = error]
<1>1. /\ r \in CallState /\ r.tok = call[c].tok /\ r.model = call[c].model
      /\ r.pc = "release" /\ r.error = error /\ r.bill = spend
  BY DEF TypesOK, CallState, Place
<1>2. call' = [call EXCEPT ![c] = r]
  BY DEF Bill
<1> HIDE DEF r
<1> QED  BY <1>1, <1>2, CallBecomes DEF HandKept

LEMMA DueCall ==
  ASSUME TypesOK, NEW c \in Caller, NEW result \in Result,
         NEW place \in {"topup", "release"}, Cost(c, result) \in Nat,
         Due(c, result, place)
  PROVE  /\ HandKept(c) /\ call'[c].pc = place
         /\ call'[c].bill = Cost(c, result) /\ call'[c].error = call[c].error
<1> DEFINE cost == Cost(c, result)
           r == [call[c] EXCEPT !.pc = place, !.result = result, !.bill = cost]
<1>1. call' = [call EXCEPT ![c] = r] /\ cost \in Nat
  BY DEF Due
<1> HIDE DEF cost
<1>2. /\ r \in CallState /\ r.tok = call[c].tok /\ r.model = call[c].model
      /\ r.pc = place /\ r.error = call[c].error /\ r.bill = cost
  BY <1>1 DEF TypesOK, CallState, Place
<1> HIDE DEF r
<1> QED  BY <1>1, <1>2, CallBecomes DEF HandKept, cost
-----------------------------------------------------------------------------
LEMMA QuietStep ==
  ASSUME TypesOK, UNCHANGED accounts \/ UNCHANGED treasuryVars, NEW t
  PROVE  OnlyTouches(t) /\ UNCHANGED <<token, active, settled>>
BY DEF accounts, treasuryVars, OnlyTouches

\* A call that has no token, or whose token is explained, just ends.
LEMMA EndSound ==
  ASSUME GuardInv, NEW c \in Caller, NEW error \in Raised, End(c, error),
         UNCHANGED accounts, TypeOK', progress' = progress, lend' = lend,
         call[c].pc \notin Borrowing,
         \/ call[c].tok = NoToken
         \/ /\ call[c].tok \in active
            /\ error \in {Unpriced, Unreadable}
                 \/ (call[c].runs = 2 /\ error \in Failure)
  PROVE  SoundCall(c)
<1>1. /\ HandKept(c) /\ call'[c].pc = "ended" /\ call'[c].error = error
      /\ call'[c].runs = call[c].runs
  BY EndCall DEF GuardInv
<1>2. OnlyTouches(call[c].tok) /\ UNCHANGED <<token, active, settled>>
  BY QuietStep DEF GuardInv
<1>3. TypesOK'
  BY <1>1 DEF HandKept, GuardInv, TypesOK, LendingTypeOK
<1>4. call[c].tok = NoToken => call[c].tok \notin active /\ call[c].tok \notin settled
  BY NoSuchToken DEF GuardInv, TypesOK, LendingTypeOK, TypeOK
<1>5. call[c].tok \in active => call[c].tok \notin settled
  BY DEF GuardInv, TypesOK, LendingTypeOK, TypeOK
<1>6. LeakExplained(call[c])' \/ call[c].tok = NoToken
  BY <1>1 DEF LeakExplained
<1>7. /\ lend[c].at = "idle"
      /\ call[c].tok # NoToken =>
           /\ call[c].tok \in DOMAIN token
           /\ call[c].model \in Requested /\ Listed(call[c].model)
  BY DEF GuardInv, CallsOK, CallOK
<1>8. (call[c].tok)' = call[c].tok /\ (call[c].model)' = call[c].model
  BY <1>1 DEF HandKept
<1>9. CallOK(call[c], lend[c])'
  BY <1>1, <1>2, <1>4, <1>5, <1>6, <1>7, <1>8
  DEF CallOK, Working, Borrowing, Listed
<1> QED  BY <1>1, <1>2, <1>3, <1>9 DEF SoundCall, HandKept

LEMMA AcquireSound ==
  ASSUME GuardInv, NEW c \in Caller, Acquire(c)
  PROVE  SoundCall(c)
<1>1. /\ call[c].pc = "idle" /\ call[c].tok = NoToken /\ lend[c].at = "idle"
      /\ UNCHANGED <<progress, lend>>
  BY DEF Acquire, GuardInv, CallsOK, CallOK, Borrowing
<1>2. TypeOK /\ {Unpriced, "DeniedAllocation"} \subseteq Raised
      /\ "idle" \notin Borrowing
  BY DEF GuardInv, TypesOK, LendingTypeOK, Raised, Borrowing
<1>3. PICK m \in Requested :
        \/ ~Listed(m) /\ End(c, Unpriced) /\ UNCHANGED treasuryVars
        \/ /\ Listed(m)
           /\ \E chars \in Prompt :
                \/ /\ AllocateGranted(Ceiling(chars, m))
                   /\ call' = [call EXCEPT ![c].pc = "running", ![c].runs = 1,
                                           ![c].model = m,
                                           ![c].tok = Len(token) + 1]
                \/ /\ AllocateDenied(Ceiling(chars, m))
                   /\ End(c, "DeniedAllocation")
  BY DEF Acquire
<1>4. CASE End(c, Unpriced) /\ UNCHANGED treasuryVars
  <2>1. UNCHANGED accounts /\ TypeOK'
    BY <1>2, <1>4, StutterType DEF treasuryVars, accounts
  <2> QED  BY <1>1, <1>2, <1>4, <2>1, EndSound
<1>5. ASSUME NEW x \in Nat, AllocateDenied(x), End(c, "DeniedAllocation")
      PROVE  SoundCall(c)
  <2>1. UNCHANGED accounts /\ TypeOK'
    BY <1>2, <1>5, DenialEffect
  <2> QED  BY <1>1, <1>2, <1>5, <2>1, EndSound
<1>6. ASSUME NEW x \in Nat, AllocateGranted(x), Listed(m),
             call' = [call EXCEPT ![c].pc = "running", ![c].runs = 1,
                                  ![c].model = m, ![c].tok = Len(token) + 1]
      PROVE  SoundCall(c)
  <2> DEFINE t == Len(token) + 1
             r == [call[c] EXCEPT !.pc = "running", !.runs = 1, !.model = m,
                                  !.tok = t]
  <2>1. t \in Nat
    BY <1>2, Registry
  <2>2. /\ r \in CallState /\ r.tok = t /\ r.model = m /\ r.pc = "running"
        /\ r.error = call[c].error
    <3>1. call[c] \in CallState
      BY DEF GuardInv, TypesOK
    <3>2. \A n \in Nat, k \in CallState :
            [k EXCEPT !.pc = "running", !.runs = 1, !.model = m, !.tok = n]
              \in CallState
      <4>1. "running" \in Place /\ 1 \in 0 .. 2 /\ m \in Requested \cup {NoModel}
        BY DEF Place
      <4> HIDE DEF Place
      <4> QED  BY <4>1 DEF CallState
    <3>3. \A n \in Nat, k \in CallState :
            LET s == [k EXCEPT !.pc = "running", !.runs = 1, !.model = m, !.tok = n]
            IN s.tok = n /\ s.model = m /\ s.pc = "running" /\ s.error = k.error
      BY DEF CallState
    <3> HIDE DEF t
    <3> QED  BY <2>1, <3>1, <3>2, <3>3
  <2>3. call' = [call EXCEPT ![c] = r]
    BY <1>6
  <2>4. /\ DOMAIN token' = DOMAIN token \cup {t} /\ t \notin DOMAIN token
        /\ \A u \in DOMAIN token : token'[u] = token[u]
        /\ TypeOK'
    BY <1>2, <1>6, GrantedEffect
  <2>5. active' = active \cup {t} /\ settled' = settled
    BY <1>6 DEF AllocateGranted
  <2> HIDE DEF r, t
  <2>6. /\ call' \in [Caller -> CallState]
        /\ call'[c].tok = t /\ call'[c].model = m /\ call'[c].pc = "running"
        /\ call'[c].error = call[c].error
        /\ \A d \in Caller \ {c} : call'[d] = call[d]
    BY <2>2, <2>3, CallBecomes DEF GuardInv
  <2>7. TypesOK'
    BY <1>1, <2>4, <2>6 DEF GuardInv, TypesOK, LendingTypeOK
  <2>8. OnlyTouches(call[c].tok)
    BY <2>4, <2>5 DEF OnlyTouches
  <2>9. call[c].error = "none"
    BY <1>1 DEF GuardInv, CallsOK, CallOK
  <2>10. CallOK(call[c], lend[c])'
    BY <1>1, <1>6, <2>4, <2>5, <2>6, <2>9 DEF CallOK, Working, Borrowing, Listed
  <2> QED  BY <1>1, <2>4, <2>6, <2>7, <2>8, <2>10 DEF SoundCall
<1>7. \A chars \in Prompt : Listed(m) => Ceiling(chars, m) \in Nat
  BY CostsAreAmounts DEF Listed
<1> QED  BY <1>3, <1>4, <1>5, <1>6, <1>7
-----------------------------------------------------------------------------
\* A request for a loan is one for the call's own token.
LEMMA AskSound ==
  ASSUME TypesOK, NEW c \in Caller, NEW t \in Nat, NEW x \in Nat, Ask(c, t, x, TRUE)
  PROVE  /\ lend' \in [Caller -> Request] /\ lend'[c].at # "idle"
         /\ lend'[c].tok = t /\ lend'[c].extra = x
         /\ \A d \in Caller \ {c} : lend'[d] = lend[d]
         /\ UNCHANGED <<treasuryVars, progress>>
<1> DEFINE q == [at |-> "read", tok |-> t, extra |-> x, force |-> TRUE,
                 seen |-> progress[c], outcome |-> "none"]
<1>1. lend' = [lend EXCEPT ![c] = q] /\ UNCHANGED <<treasuryVars, progress>>
  BY DEF Ask
<1>2. q \in Request /\ q.at = "read" /\ q.tok = t /\ q.extra = x
  <2>1. progress[c] \in 0 .. Full
    BY DEF TypesOK, LendingTypeOK
  <2> QED  BY <2>1 DEF Request, Stage, Outcome
<1> HIDE DEF q
<1>3. lend \in [Caller -> Request]
  BY DEF TypesOK, LendingTypeOK
<1> QED  BY <1>1, <1>2, <1>3

\* The loan covers the shortfall it was asked for.
LEMMA LoanCovers ==
  ASSUME GuardInv, NEW c \in Caller, call[c].pc = "running", NEW r \in Result,
         HasCost(r, call[c].model), Overspends(c, r)
  PROVE  /\ Loan(c, r) \in Nat
         /\ Cost(c, r) <= CurrentCeiling(c) + Loan(c, r)
<1>1. Cost(c, r) \in Nat /\ CurrentCeiling(c) \in Nat
  BY CostType, TokenInHand DEF Working
<1>2. Cost(c, r) > CurrentCeiling(c)
  BY DEF Overspends, WouldExceed, CurrentCeiling
<1>3. \A n, m \in Nat : (n * m) \div 100 \in Nat
  <2>1. \A n \in Nat : n \div 100 \in Nat
    OBVIOUS
  <2>2. \A n, m \in Nat : n * m \in Nat
    OBVIOUS
  <2> QED  BY <2>1, <2>2
<1>4. Multiplier \in Nat
  BY WrapperAssumption
<1> DEFINE short == Cost(c, r) - CurrentCeiling(c)
<1>5. short \in Nat /\ Cost(c, r) = CurrentCeiling(c) + short
  BY <1>1, <1>2
<1>6. Loan(c, r) = short + (short * Multiplier) \div 100
  BY DEF Loan, ExtensionFor
<1> HIDE DEF short
<1>7. (short * Multiplier) \div 100 \in Nat
  BY <1>3, <1>4, <1>5
<1> DEFINE more == (short * Multiplier) \div 100
<1> HIDE DEF more
<1>8. more \in Nat /\ Loan(c, r) = short + more
  BY <1>6, <1>7 DEF more
<1> QED  BY <1>1, <1>5, <1>8

LEMMA ReturnsSound ==
  ASSUME GuardInv, NEW c \in Caller, Returns(c)
  PROVE  SoundCall(c)
<1>1. PICK r \in Result :
        /\ HasCost(r, call[c].model)
        /\ \/ /\ Overspends(c, r)
              /\ Ask(c, call[c].tok, Loan(c, r), TRUE)
              /\ Due(c, r, "topup")
           \/ /\ ~Overspends(c, r)
              /\ Due(c, r, "release")
              /\ UNCHANGED lendingVars
  BY DEF Returns
<1>2. call[c].pc = "running" /\ call[c].error = "none" /\ lend[c].at = "idle"
  BY DEF Returns, GuardInv, CallsOK, CallOK, Borrowing
<1>3. /\ call[c].tok \in active /\ call[c].tok \in DOMAIN token
      /\ call[c].model \in Requested /\ Listed(call[c].model)
      /\ CurrentCeiling(c) \in Nat /\ call[c].tok # NoToken
  BY <1>2, TokenInHand DEF Working
<1>4. Cost(c, r) \in Nat /\ call[c].tok \in Nat
  BY <1>1, <1>2, CostType DEF GuardInv, TypesOK, CallState
<1>5. UNCHANGED treasuryVars /\ UNCHANGED progress
  BY <1>1 DEF Ask, lendingVars
<1>6. OnlyTouches(call[c].tok) /\ UNCHANGED <<token, active, settled>>
  BY <1>5, QuietStep DEF GuardInv
<1>7. TypeOK'
  BY <1>5, StutterType DEF GuardInv, TypesOK, LendingTypeOK
<1>8. CASE Overspends(c, r) /\ Ask(c, call[c].tok, Loan(c, r), TRUE)
           /\ Due(c, r, "topup")
  <2>1. Loan(c, r) \in Nat /\ Cost(c, r) <= CurrentCeiling(c) + Loan(c, r)
    BY <1>1, <1>2, <1>8, LoanCovers
  <2>2. /\ HandKept(c) /\ call'[c].pc = "topup"
        /\ call'[c].bill = Cost(c, r) /\ call'[c].error = "none"
    BY <1>2, <1>4, <1>8, DueCall DEF GuardInv
  <2>3. /\ lend' \in [Caller -> Request] /\ lend'[c].at # "idle"
        /\ lend'[c].tok = call[c].tok /\ lend'[c].extra = Loan(c, r)
        /\ \A d \in Caller \ {c} : lend'[d] = lend[d]
    <3> DEFINE x == Loan(c, r)
               t == call[c].tok
    <3>1. x \in Nat /\ t \in Nat /\ Ask(c, t, x, TRUE)
      BY <1>4, <1>8, <2>1
    <3> HIDE DEF x, t
    <3>2. /\ lend' \in [Caller -> Request] /\ lend'[c].at # "idle"
          /\ lend'[c].tok = t /\ lend'[c].extra = x
          /\ \A d \in Caller \ {c} : lend'[d] = lend[d]
      BY <3>1, AskSound DEF GuardInv
    <3> QED  BY <3>2 DEF x, t
  <2>4. TypesOK'
    BY <1>5, <1>7, <2>2, <2>3 DEF HandKept, GuardInv, TypesOK, LendingTypeOK
  <2>5. call'[c].bill <= token'[call'[c].tok].ceiling + lend'[c].extra
    BY <1>6, <2>1, <2>2, <2>3 DEF HandKept, CurrentCeiling
  <2>6. CallOK(call[c], lend[c])'
    BY <1>3, <1>6, <2>2, <2>3, <2>5 DEF HandKept, CallOK, Working, Borrowing, Listed
  <2> QED  BY <1>6, <2>2, <2>3, <2>4, <2>6 DEF SoundCall, HandKept
<1>9. CASE ~Overspends(c, r) /\ Due(c, r, "release") /\ UNCHANGED lendingVars
  <2>1. /\ HandKept(c) /\ call'[c].pc = "release"
        /\ call'[c].bill = Cost(c, r) /\ call'[c].error = "none"
    BY <1>2, <1>4, <1>9, DueCall DEF GuardInv
  <2>2. lend' = lend
    BY <1>9 DEF lendingVars
  <2>3. TypesOK'
    BY <1>5, <1>7, <2>1, <2>2 DEF HandKept, GuardInv, TypesOK, LendingTypeOK
  <2>4. HasReallocator => call'[c].bill <= token'[call'[c].tok].ceiling
    BY <1>3, <1>4, <1>6, <1>9, <2>1
    DEF HandKept, Overspends, WouldExceed, CurrentCeiling
  <2>5. CallOK(call[c], lend[c])'
    BY <1>2, <1>3, <1>6, <2>1, <2>2, <2>4
    DEF HandKept, CallOK, Working, Borrowing, Listed
  <2> QED  BY <1>6, <2>1, <2>2, <2>3, <2>5 DEF SoundCall, HandKept
<1> QED  BY <1>1, <1>8, <1>9

LEMMA ErrorNames ==
  /\ Failure \subseteq Raised \ {"none"}
  /\ {Unpriced, Unreadable, Exceeded, LoanDenied} \subseteq Raised \ {"none"}
BY WrapperAssumption
DEF Raised, Unpriced, Unreadable, Exceeded, LoanDenied, OtherError

LEMMA ReturnsUncostedSound ==
  ASSUME GuardInv, NEW c \in Caller, ReturnsUncosted(c)
  PROVE  SoundCall(c)
<1>1. PICK r \in Result : End(c, CostError(r))
  BY DEF ReturnsUncosted
<1>2. /\ call[c].pc = "running" /\ call[c].pc \notin Borrowing
      /\ UNCHANGED lendingVars
  BY DEF ReturnsUncosted, Borrowing
<1>3. call[c].tok \in active
  BY <1>2, TokenInHand DEF Working
<1>4. CostError(r) \in {Unpriced, Unreadable}
  BY DEF CostError
<1>5. /\ UNCHANGED accounts /\ TypeOK' /\ progress' = progress /\ lend' = lend
  BY <1>2, StutterType
  DEF lendingVars, treasuryVars, accounts, GuardInv, TypesOK, LendingTypeOK
<1> HIDE DEF CostError
<1> QED  BY <1>1, <1>2, <1>3, <1>4, <1>5, ErrorNames, EndSound

LEMMA FailsAgainSound ==
  ASSUME GuardInv, NEW c \in Caller, FailsAgain(c)
  PROVE  SoundCall(c)
<1>1. PICK e \in Failure : End(c, e)
  BY DEF FailsAgain
<1>2. /\ call[c].pc = "running" /\ call[c].pc \notin Borrowing
      /\ call[c].runs = 2 /\ UNCHANGED lendingVars
  BY DEF FailsAgain, Borrowing
<1>3. call[c].tok \in active
  BY <1>2, TokenInHand DEF Working
<1>4. /\ UNCHANGED accounts /\ TypeOK' /\ progress' = progress /\ lend' = lend
  BY <1>2, StutterType
  DEF lendingVars, treasuryVars, accounts, GuardInv, TypesOK, LendingTypeOK
<1> QED  BY <1>1, <1>2, <1>3, <1>4, ErrorNames, EndSound

\* A call that failed is charged nothing or its ceiling.
LEMMA BillSound ==
  ASSUME GuardInv, NEW c \in Caller, call[c].pc \in Working,
         NEW error \in Raised \ {"none"},
         NEW spend \in Nat, spend \in {0, CurrentCeiling(c)},
         Bill(c, spend, error), UNCHANGED accounts, TypeOK',
         progress' = progress, lend' \in [Caller -> Request],
         lend'[c].at = "idle", \A d \in Caller \ {c} : lend'[d] = lend[d]
  PROVE  SoundCall(c)
<1>1. /\ HandKept(c) /\ call'[c].pc = "release"
      /\ call'[c].error = error /\ call'[c].bill = spend
  BY BillCall DEF GuardInv
<1>2. OnlyTouches(call[c].tok) /\ UNCHANGED <<token, active, settled>>
  BY QuietStep DEF GuardInv
<1>3. TypesOK'
  BY <1>1 DEF HandKept, GuardInv, TypesOK, LendingTypeOK
<1>4. /\ call[c].tok \in active /\ call[c].tok \in DOMAIN token
      /\ call[c].model \in Requested /\ Listed(call[c].model)
  BY TokenInHand
<1>5. call'[c].bill \in {0, token'[call'[c].tok].ceiling}
  BY <1>1, <1>2 DEF HandKept, CurrentCeiling
<1>6. CallOK(call[c], lend[c])'
  BY <1>1, <1>2, <1>4, <1>5 DEF HandKept, CallOK, Working, Borrowing, Listed
<1> QED  BY <1>1, <1>2, <1>3, <1>6 DEF SoundCall, HandKept

LEMMA FailsSound ==
  ASSUME GuardInv, NEW c \in Caller, Fails(c)
  PROVE  SoundCall(c)
<1>1. PICK e \in Failure :
        \/ /\ \E x \in Overrun : Ask(c, call[c].tok, x, TRUE)
           /\ Goto(c, "rescue")
        \/ /\ Bill(c, FailureSpend(c, e), e)
           /\ UNCHANGED lendingVars
  BY DEF Fails
<1>2. call[c].pc = "running" /\ call[c].error = "none" /\ lend[c].at = "idle"
  BY DEF Fails, GuardInv, CallsOK, CallOK, Borrowing
<1>3. /\ call[c].tok \in active /\ call[c].tok \in DOMAIN token
      /\ call[c].model \in Requested /\ Listed(call[c].model)
      /\ CurrentCeiling(c) \in Nat
  BY <1>2, TokenInHand DEF Working
<1>4. UNCHANGED treasuryVars /\ UNCHANGED progress
  BY <1>1 DEF Ask, lendingVars
<1>5. /\ OnlyTouches(call[c].tok) /\ UNCHANGED <<token, active, settled>>
      /\ UNCHANGED accounts /\ TypeOK'
  BY <1>4, QuietStep, StutterType
  DEF treasuryVars, accounts, GuardInv, TypesOK, LendingTypeOK
<1>6. ASSUME NEW x \in Overrun, Ask(c, call[c].tok, x, TRUE), Goto(c, "rescue")
      PROVE  SoundCall(c)
  <2>1. x \in Nat /\ call[c].tok \in Nat /\ "rescue" \in Place
    BY WrapperAssumption DEF GuardInv, TypesOK, CallState, Place
  <2>2. /\ HandKept(c) /\ call'[c].pc = "rescue" /\ call'[c].error = "none"
    BY <1>2, <1>6, <2>1, GotoCall DEF GuardInv
  <2> DEFINE t == call[c].tok
  <2>3. t \in Nat /\ Ask(c, t, x, TRUE)
    BY <1>6, <2>1
  <2> HIDE DEF t
  <2>4. /\ lend' \in [Caller -> Request] /\ lend'[c].at # "idle"
        /\ lend'[c].tok = t
        /\ \A d \in Caller \ {c} : lend'[d] = lend[d]
    BY <2>1, <2>3, AskSound DEF GuardInv
  <2>5. TypesOK'
    BY <1>4, <1>5, <2>2, <2>4 DEF HandKept, GuardInv, TypesOK, LendingTypeOK
  <2>6. CallOK(call[c], lend[c])'
    BY <1>3, <1>5, <2>2, <2>4 DEF t, HandKept, CallOK, Working, Borrowing, Listed
  <2> QED  BY <1>5, <2>2, <2>4, <2>5, <2>6 DEF SoundCall, HandKept
<1>7. CASE Bill(c, FailureSpend(c, e), e) /\ UNCHANGED lendingVars
  <2>1. FailureSpend(c, e) \in {0, CurrentCeiling(c)} /\ FailureSpend(c, e) \in Nat
    BY <1>3 DEF FailureSpend
  <2>2. lend' = lend /\ lend' \in [Caller -> Request] /\ e \in Raised \ {"none"}
    BY <1>7, ErrorNames DEF lendingVars, GuardInv, TypesOK, LendingTypeOK
  <2> DEFINE spend == FailureSpend(c, e)
  <2>3. /\ spend \in Nat /\ spend \in {0, CurrentCeiling(c)} /\ Bill(c, spend, e)
    BY <1>7, <2>1
  <2> HIDE DEF spend
  <2> QED  BY <1>2, <1>4, <1>5, <2>2, <2>3, BillSound DEF Working
<1> QED  BY <1>1, <1>6, <1>7

\* What a call that is borrowing knows of its request.
LEMMA RequestInHand ==
  ASSUME GuardInv, NEW c \in Caller, call[c].pc \in Borrowing
  PROVE  /\ lend[c] \in Request /\ lend[c].tok = call[c].tok
         /\ lend[c].extra \in Nat /\ call[c].error = "none"
         /\ call[c].tok \in active /\ call[c].tok \in DOMAIN token
         /\ CurrentCeiling(c) \in Nat
         /\ call[c].model \in Requested /\ Listed(call[c].model)
         /\ call[c].pc \in Working
<1>1. lend[c] \in Request
  BY DEF GuardInv, TypesOK, LendingTypeOK
<1>2. lend[c].extra \in Nat
  BY <1>1 DEF Request
<1>3. call[c].pc \in Working
  BY DEF Working
<1> QED  BY <1>1, <1>2, <1>3, TokenInHand DEF GuardInv, CallsOK, CallOK

LEMMA BorrowReadSound ==
  ASSUME GuardInv, NEW c \in Caller, call[c].pc \in Borrowing,
         ReadAvailable(c), UNCHANGED call
  PROVE  SoundCall(c)
<1> DEFINE stage == IF Fits(lend[c].extra) THEN "approved" ELSE "refuse"
<1>1. /\ lend' = [lend EXCEPT ![c].at = stage] /\ stage \in {"approved", "refuse"}
      /\ UNCHANGED <<treasuryVars, progress>>
  BY DEF ReadAvailable
<1> HIDE DEF stage
<1>2. lend[c] \in Request /\ lend \in [Caller -> Request]
  BY DEF GuardInv, TypesOK, LendingTypeOK
<1>3. /\ lend' \in [Caller -> Request] /\ lend'[c].at \in {"approved", "refuse"}
      /\ lend'[c].tok = lend[c].tok /\ lend'[c].extra = lend[c].extra
      /\ \A d \in Caller \ {c} : lend'[d] = lend[d]
  BY <1>1, <1>2 DEF Request, Stage
<1>4. OnlyTouches(call[c].tok) /\ UNCHANGED <<token, active, settled>> /\ TypeOK'
  BY <1>1, QuietStep, StutterType DEF GuardInv, TypesOK, LendingTypeOK
<1>5. TypesOK'
  BY <1>1, <1>3, <1>4 DEF GuardInv, TypesOK, LendingTypeOK
<1>6. CallOK(call[c], lend[c])
  BY DEF GuardInv, CallsOK
<1>7. call' = call
  OBVIOUS
<1>8. CallOK(call[c], lend[c])'
  BY <1>3, <1>4, <1>6, <1>7
  DEF CallOK, Working, Borrowing, LeakExplained, PaidExactly, Listed
<1> QED  BY <1>3, <1>4, <1>5, <1>8 DEF SoundCall

\* A denied loan costs the call its ceiling.
LEMMA BorrowRefusedSound ==
  ASSUME GuardInv, NEW c \in Caller, call[c].pc \in Borrowing, Refuse(c),
         IF call[c].pc = "rescue" THEN Rescued(c, lend'[c].outcome)
                                  ELSE ToppedUp(c, lend'[c].outcome)
  PROVE  SoundCall(c)
<1>1. /\ lend[c] \in Request /\ lend[c].tok = call[c].tok /\ lend[c].extra \in Nat
      /\ call[c].tok \in DOMAIN token /\ CurrentCeiling(c) \in Nat
      /\ call[c].pc \in Working
  BY RequestInHand
<1>2. /\ RecordExtensionDenial(lend[c].tok, lend[c].extra)
      /\ lend' = [lend EXCEPT ![c].at = "idle",
                              ![c].outcome = "CreditExtensionDeniedError"]
      /\ progress' = progress
  BY DEF Refuse
<1>3. lend \in [Caller -> Request] /\ TypeOK
  BY DEF GuardInv, TypesOK, LendingTypeOK
<1>4. /\ lend' \in [Caller -> Request] /\ lend'[c].at = "idle"
      /\ lend'[c].outcome = LoanDenied
      /\ \A d \in Caller \ {c} : lend'[d] = lend[d]
  BY <1>1, <1>2, <1>3 DEF Request, Stage, Outcome, LoanDenied
<1>5. UNCHANGED accounts /\ TypeOK'
  BY <1>1, <1>2, <1>3, DenialEffect
<1>6. Bill(c, CurrentCeiling(c), LoanDenied) \/ Bill(c, CurrentCeiling(c), Exceeded)
  BY <1>4 DEF Rescued, ToppedUp, LoanDenied
<1> DEFINE spend == CurrentCeiling(c)
<1>7. /\ spend \in Nat /\ spend \in {0, CurrentCeiling(c)}
      /\ Bill(c, spend, LoanDenied) \/ Bill(c, spend, Exceeded)
  BY <1>1, <1>6
<1> HIDE DEF spend
<1> QED  BY <1>1, <1>2, <1>4, <1>5, <1>7, ErrorNames, BillSound

\* A granted loan raises the ceiling by the amount asked for.
LEMMA BorrowFundedSound ==
  ASSUME GuardInv, NEW c \in Caller, call[c].pc \in Borrowing, Fund(c),
         IF call[c].pc = "rescue" THEN Rescued(c, lend'[c].outcome)
                                  ELSE ToppedUp(c, lend'[c].outcome)
  PROVE  SoundCall(c)
<1> DEFINE t == call[c].tok
           x == lend[c].extra
<1>1. /\ lend[c] \in Request /\ lend[c].tok = t /\ x \in Nat
      /\ call[c].error = "none"
      /\ t \in active /\ t \in DOMAIN token /\ CurrentCeiling(c) \in Nat
      /\ call[c].model \in Requested /\ Listed(call[c].model)
  BY RequestInHand
<1>2. /\ GrantExtension(t, x)
      /\ lend' = [lend EXCEPT ![c].at = "idle", ![c].outcome = "granted"]
      /\ progress' = progress
  BY <1>1 DEF Fund
<1>3. lend \in [Caller -> Request] /\ TypeOK
  BY DEF GuardInv, TypesOK, LendingTypeOK
<1>4. /\ lend' \in [Caller -> Request] /\ lend'[c].at = "idle"
      /\ lend'[c].outcome = "granted"
      /\ \A d \in Caller \ {c} : lend'[d] = lend[d]
  BY <1>1, <1>2, <1>3 DEF Request, Stage, Outcome
<1>5. token[t] \in AllocationToken /\ token[t].ceiling = CurrentCeiling(c)
  BY <1>1, <1>3, Registry DEF CurrentCeiling
<1> HIDE DEF t, x
<1>6. /\ DOMAIN token' = DOMAIN token
      /\ \A u \in DOMAIN token \ {t} : token'[u] = token[u]
      /\ token'[t] = [token[t] EXCEPT !.ceiling = @ + x, !.extensions = @ + x]
      /\ TypeOK' /\ active' = active /\ settled' = settled
  <2>1. active' = active /\ settled' = settled
    BY <1>2 DEF GrantExtension
  <2> QED  BY <1>1, <1>2, <1>3, <2>1, ExtensionEffect
<1>7. token'[t].ceiling = CurrentCeiling(c) + x
  BY <1>5, <1>6 DEF AllocationToken
<1>8. OnlyTouches(t)
  BY <1>6 DEF OnlyTouches
<1>9. CASE call[c].pc = "rescue"
  <2> DEFINE r == [call[c] EXCEPT !.pc = "running", !.runs = 2]
  <2>1. call' = [call EXCEPT ![c] = r]
    <3>1. call' = [call EXCEPT ![c].pc = "running", ![c].runs = 2]
      BY <1>4, <1>9 DEF Rescued, LoanDenied
    <3> QED  BY <3>1
  <2>2. /\ r \in CallState /\ r.tok = call[c].tok /\ r.model = call[c].model
        /\ r.pc = "running" /\ r.error = call[c].error
    <3>1. call[c] \in CallState /\ "running" \in Place /\ 2 \in 0 .. 2
      BY DEF GuardInv, TypesOK, Place
    <3> QED  BY <3>1 DEF CallState
  <2> HIDE DEF r
  <2>3. /\ HandKept(c) /\ call'[c].pc = "running" /\ call'[c].error = "none"
    BY <1>1, <2>1, <2>2, CallBecomes DEF HandKept, GuardInv
  <2>4. TypesOK'
    BY <1>2, <1>4, <1>6, <2>3 DEF HandKept, GuardInv, TypesOK, LendingTypeOK
  <2>5. CallOK(call[c], lend[c])'
    BY <1>1, <1>4, <1>6, <2>3 DEF t, HandKept, CallOK, Working, Borrowing, Listed
  <2> QED  BY <1>4, <1>8, <2>3, <2>4, <2>5 DEF t, SoundCall, HandKept
<1>10. CASE call[c].pc = "topup"
  <2>1. Goto(c, "release")
    BY <1>4, <1>10 DEF ToppedUp, LoanDenied
  <2>2. /\ HandKept(c) /\ call'[c].pc = "release" /\ call'[c].error = "none"
        /\ call'[c].bill = call[c].bill
    <3>1. "release" \in Place
      BY DEF Place
    <3> QED  BY <1>1, <2>1, <3>1, GotoCall DEF GuardInv
  <2>3. TypesOK'
    BY <1>2, <1>4, <1>6, <2>2 DEF HandKept, GuardInv, TypesOK, LendingTypeOK
  <2>4. call[c].bill <= CurrentCeiling(c) + x
    BY <1>10 DEF x, GuardInv, CallsOK, CallOK, CurrentCeiling
  <2>5. CallOK(call[c], lend[c])'
    BY <1>1, <1>4, <1>6, <1>7, <2>2, <2>4
    DEF t, HandKept, CallOK, Working, Borrowing, Listed
  <2> QED  BY <1>4, <1>8, <2>2, <2>3, <2>5 DEF t, SoundCall, HandKept
<1> QED  BY <1>9, <1>10 DEF Borrowing

\* What is booked is what was billed, or no more than the ceiling.
LEMMA SettleSound ==
  ASSUME GuardInv, NEW c \in Caller, Settle(c)
  PROVE  SoundCall(c)
<1> DEFINE t == call[c].tok
           s == call[c].bill
<1>1. /\ call[c].pc = "release" /\ lend[c].at = "idle"
      /\ UNCHANGED <<progress, lend>>
  BY DEF Settle, GuardInv, CallsOK, CallOK, Borrowing
<1>2. /\ t \in active /\ t \in DOMAIN token /\ t # NoToken
      /\ token[t] \in AllocationToken /\ token[t].ceiling \in Nat
      /\ call[c].model \in Requested /\ Listed(call[c].model)
  BY <1>1, TokenInHand DEF Working, CurrentCeiling
<1>3. Release(t, s) /\ End(c, call[c].error)
  BY <1>2 DEF Settle
<1>4. s \in Nat /\ call[c].error \in Raised /\ TypeOK
  BY DEF GuardInv, TypesOK, LendingTypeOK, CallState
<1>5. /\ HandKept(c) /\ call'[c].pc = "ended" /\ call'[c].error = call[c].error
      /\ call'[c].bill = s
  BY <1>3, <1>4, EndCall DEF GuardInv
<1>6. IF call[c].error = "none" THEN HasReallocator => s <= token[t].ceiling
                                ELSE s \in {0, token[t].ceiling}
  BY <1>1 DEF GuardInv, CallsOK, CallOK
<1> HIDE DEF t, s
<1>7. /\ DOMAIN token' = DOMAIN token
      /\ \A u \in DOMAIN token \ {t} : token'[u] = token[u]
      /\ token'[t] = [token[t] EXCEPT !.spent = Clamped(t, s),
                                      !.status = "settled"]
      /\ TypeOK'
  <2>1. s \in Int
    BY <1>4
  <2> QED  BY <1>2, <1>3, <1>4, <2>1, ReleaseEffect
<1>8. active' = active \ {t} /\ settled' = settled \cup {t}
  BY <1>3 DEF Release
<1>9. OnlyTouches(t)
  BY <1>7, <1>8 DEF OnlyTouches
<1>10. token'[t].ceiling = token[t].ceiling /\ token'[t].spent = Clamped(t, s)
  BY <1>2, <1>7 DEF AllocationToken
<1>11. Clamped(t, s) = Smaller(s, token[t].ceiling)
  BY <1>4 DEF Clamped, Smaller, Larger
<1>12. PaidExactly(call'[c], token'[t])
  <2>1. CASE call[c].error = "none"
    BY <1>2, <1>4, <1>5, <1>6, <1>10, <1>11, <2>1 DEF PaidExactly, Smaller
  <2>2. CASE call[c].error # "none"
    BY <1>2, <1>4, <1>5, <1>6, <1>10, <1>11, <2>2 DEF PaidExactly, Smaller
  <2> QED  BY <2>1, <2>2
<1>13. TypesOK'
  BY <1>1, <1>5, <1>7 DEF HandKept, GuardInv, TypesOK, LendingTypeOK
<1>14. PaidExactly(call[c], token[call[c].tok])'
  BY <1>5, <1>12 DEF PaidExactly, t, HandKept
<1>15. CallOK(call[c], lend[c])'
  BY <1>1, <1>2, <1>5, <1>7, <1>8, <1>14
  DEF t, HandKept, CallOK, Working, Borrowing, Listed
<1> QED  BY <1>1, <1>5, <1>9, <1>13, <1>15 DEF t, SoundCall, HandKept
-----------------------------------------------------------------------------
LEMMA StepSound ==
  ASSUME GuardInv, NEW c \in Caller, GuardStep(c)
  PROVE  SoundCall(c)
<1>1. ASSUME Borrow(c) PROVE SoundCall(c)
  <2>1. call[c].pc \in Borrowing
    BY <1>1 DEF Borrow, Borrowing
  <2>2. CASE ReadAvailable(c) /\ UNCHANGED call
    BY <2>1, <2>2, BorrowReadSound
  <2>3. CASE /\ Refuse(c) \/ Fund(c)
             /\ IF call[c].pc = "rescue" THEN Rescued(c, lend'[c].outcome)
                                         ELSE ToppedUp(c, lend'[c].outcome)
    BY <2>1, <2>3, BorrowRefusedSound, BorrowFundedSound
  <2> QED  BY <1>1, <2>2, <2>3 DEF Borrow
<1> QED
  BY <1>1, AcquireSound, ReturnsSound, ReturnsUncostedSound, FailsSound,
     FailsAgainSound, SettleSound
  DEF GuardStep

LEMMA GuardInvInit == GuardInit => GuardInv
<1> SUFFICES ASSUME GuardInit PROVE GuardInv
  OBVIOUS
<1>1. LendingTypeOK
  <2>1. TypeOK
    BY TypeInit DEF GuardInit, LendingInit
  <2>2. NoRequest \in Request
    BY DEF NoRequest, Request, Stage, Outcome, NoToken, Full
  <2> QED  BY <2>1, <2>2 DEF GuardInit, LendingInit, LendingTypeOK, Full
<1>2. /\ call \in [Caller -> CallState]
      /\ \A c \in Caller : /\ call[c].pc = "idle" /\ call[c].tok = NoToken
                           /\ call[c].error = "none"
  BY DEF GuardInit, CallState, Place, Raised, NoToken
<1>3. \A c \in Caller : lend[c].at = "idle"
  BY DEF GuardInit, LendingInit, NoRequest
<1>4. \A c \in Caller : CallOK(call[c], lend[c])
  BY <1>2, <1>3 DEF CallOK, Working, Borrowing
<1> QED  BY <1>1, <1>2, <1>4 DEF GuardInv, TypesOK, OwnTokens, CallsOK

LEMMA GuardInvariant == GuardSpec => []GuardInv
<1>1. GuardInv /\ [GuardNext]_guardVars => GuardInv'
  <2>1. ASSUME GuardInv, NEW c \in Caller, GuardStep(c)
        PROVE  GuardInv'
    BY <2>1, StepSound, SoundCallKeepsInv
  <2>2. ASSUME GuardInv, UNCHANGED guardVars
        PROVE  GuardInv'
    <3>1. UNCHANGED <<call, lend, progress, token, active, settled>>
          /\ UNCHANGED treasuryVars
      BY <2>2 DEF guardVars, lendingVars, treasuryVars
    <3>2. TypeOK'
      BY <2>2, <3>1, StutterType DEF GuardInv, TypesOK, LendingTypeOK
    <3> QED
      BY <2>2, <3>1, <3>2
      DEF GuardInv, TypesOK, LendingTypeOK, OwnTokens, CallsOK, CallOK,
          LeakExplained, PaidExactly
  <2> QED  BY <2>1, <2>2 DEF GuardNext
<1> QED  BY <1>1, GuardInvInit, PTL DEF GuardSpec
-----------------------------------------------------------------------------
(* Every guarded call keeps its type, and exactly the calls that are being   *)
(* rescued or topped up are inside the Reallocator.                          *)
THEOREM GuardTypeCorrect == GuardSpec => []GuardTypeOK
<1>1. GuardInv => GuardTypeOK
  BY DEF GuardInv, TypesOK, CallsOK, CallOK, Borrowing, GuardTypeOK, InFlight
<1> QED  BY <1>1, GuardInvariant, PTL

(* For any number of wrapped functions that return and raise what they like: *)
(* a token outlives its call only if the second run raised or the cost of    *)
(* the result could not be told.                                             *)
THEOREM LeaksAreExplained == GuardSpec => []OnlyRetriesLeak
<1>1. GuardInv => OnlyRetriesLeak
  BY DEF GuardInv, OwnTokens, CallsOK, CallOK, LeakExplained, OnlyRetriesLeak,
         HasToken, Ended
<1> QED  BY <1>1, GuardInvariant, PTL

-----------------------------------------------------------------------------
\* What a failed call is charged: its ceiling for a result that was too dear
\* and for a node's budget error, and nothing otherwise.
Charge(k, kind) ==
  IF k.result # NoResult \/ CostsCeiling(kind, k.error)
  THEN token[k.tok].ceiling ELSE 0

ChargeOK(k, kind) ==
  /\ k.pc \in {"idle", "running", "rescue"} => k.result = NoResult
  /\ k.pc = "topup" => k.result # NoResult
  /\ k.pc = "rescue" => kind = "node"
  /\ k.pc = "release" /\ k.error # "none" => k.bill = Charge(k, kind)
  /\ k.pc = "ended" /\ k.tok \in settled /\ k.error # "none"
       => token[k.tok].spent = Charge(k, kind)

ChargesOK == \A c \in Caller : ChargeOK(call[c], Kind[c])

\* A result that is worth a loan is not the lack of one.
LEMMA DearResult ==
  ASSUME GuardInv, NEW c \in Caller, call[c].pc = "running", NEW r \in Result,
         HasCost(r, call[c].model), Overspends(c, r)
  PROVE  r # NoResult
<1>1. CurrentCeiling(c) \in Nat /\ Cost(c, r) > CurrentCeiling(c)
  BY TokenInHand DEF Working, Overspends, WouldExceed, CurrentCeiling
<1>2. ASSUME r = NoResult PROVE FALSE
  <2>1. DOMAIN r.usage = {}
    BY <1>2 DEF NoResult, EmptyDict
  <2>2. Cost(c, r) = 0
    BY <2>1 DEF Cost, SettleCost, HasUsage
  <2> QED  BY <1>1, <2>2
<1> QED  BY <1>2

\* The fields of a call after each way it goes on.
LEMMA CallFields ==
  ASSUME TypesOK, NEW c \in Caller
  PROVE  /\ \A place : Goto(c, place) =>
              /\ call'[c].pc = place /\ call'[c].result = call[c].result
              /\ call'[c].error = call[c].error
         /\ \A e : End(c, e) =>
              /\ call'[c].pc = "ended" /\ call'[c].error = e
              /\ call'[c].result = call[c].result /\ call'[c].tok = call[c].tok
              /\ call'[c].bill = call[c].bill
         /\ \A s, e : Bill(c, s, e) =>
              /\ call'[c].pc = "release" /\ call'[c].error = e
              /\ call'[c].bill = s /\ call'[c].result = call[c].result
              /\ call'[c].tok = call[c].tok
<1>1. call[c] \in CallState /\ call \in [Caller -> CallState]
  BY DEF TypesOK
<1>2. ASSUME NEW place, Goto(c, place)
      PROVE  /\ call'[c].pc = place /\ call'[c].result = call[c].result
             /\ call'[c].error = call[c].error
  BY <1>1, <1>2 DEF Goto, CallState
<1>3. ASSUME NEW e, End(c, e)
      PROVE  /\ call'[c].pc = "ended" /\ call'[c].error = e
             /\ call'[c].result = call[c].result /\ call'[c].tok = call[c].tok
             /\ call'[c].bill = call[c].bill
  BY <1>1, <1>3 DEF End, CallState
<1>4. ASSUME NEW s, NEW e, Bill(c, s, e)
      PROVE  /\ call'[c].pc = "release" /\ call'[c].error = e
             /\ call'[c].bill = s /\ call'[c].result = call[c].result
             /\ call'[c].tok = call[c].tok
  BY <1>1, <1>4 DEF Bill, CallState
<1> QED  BY <1>2, <1>3, <1>4

\* A bill that is no more than the ceiling is booked as it is.
LEMMA SettledAsBilled ==
  ASSUME GuardInv, NEW c \in Caller, Settle(c)
  PROVE  /\ End(c, call[c].error)
         /\ token'[call[c].tok].ceiling = token[call[c].tok].ceiling
         /\ call[c].bill <= token[call[c].tok].ceiling =>
              token'[call[c].tok].spent = call[c].bill
<1> DEFINE t == call[c].tok
           s == call[c].bill
<1>1. call[c].pc = "release"
  BY DEF Settle
<1>2. /\ t \in active /\ t \in DOMAIN token
      /\ token[t] \in AllocationToken /\ token[t].ceiling \in Nat
  BY <1>1, TokenInHand DEF Working, CurrentCeiling
<1>3. Release(t, s) /\ End(c, call[c].error)
  BY <1>2 DEF Settle
<1>4. s \in Nat /\ s \in Int /\ TypeOK
  BY DEF GuardInv, TypesOK, LendingTypeOK, CallState
<1> HIDE DEF t, s
<1>5. token'[t] = [token[t] EXCEPT !.spent = Clamped(t, s), !.status = "settled"]
  BY <1>2, <1>3, <1>4, ReleaseEffect
<1>6. token'[t].ceiling = token[t].ceiling /\ token'[t].spent = Clamped(t, s)
  BY <1>2, <1>5 DEF AllocationToken
<1>7. s <= token[t].ceiling => Clamped(t, s) = s
  BY <1>2, <1>4 DEF Clamped, Smaller, Larger
<1> QED  BY <1>3, <1>6, <1>7 DEF t, s

\* Each step of a call leaves its own charge right.
LEMMA OwnCharge ==
  ASSUME GuardInv, NEW c \in Caller, ChargeOK(call[c], Kind[c]), GuardStep(c)
  PROVE  ChargeOK(call[c], Kind[c])'
<1>1. TypesOK /\ call[c] \in CallState /\ CallOK(call[c], lend[c])
  BY DEF GuardInv, TypesOK, CallsOK
<1>2. ASSUME NEW e, End(c, e), call[c].pc # "release",
             call[c].tok \notin settled'
      PROVE  ChargeOK(call[c], Kind[c])'
  BY <1>1, <1>2, CallFields DEF ChargeOK
<1>3. ASSUME NEW e, Bill(c, CurrentCeiling(c), e), UNCHANGED token,
             call[c].result # NoResult \/ CostsCeiling(Kind[c], e)
      PROVE  ChargeOK(call[c], Kind[c])'
  BY <1>1, <1>3, CallFields DEF ChargeOK, Charge, CurrentCeiling
<1>4. CASE Acquire(c)
  <2>1. call[c].pc = "idle" /\ call[c].result = NoResult /\ call[c].tok = NoToken
    BY <1>1, <1>4 DEF Acquire, CallOK, ChargeOK
  <2>2. NoToken \notin settled'
    BY StepSound, NoSuchToken
    DEF SoundCall, TypesOK, LendingTypeOK, TypeOK
  <2>3. PICK m \in Requested :
          \/ End(c, Unpriced) \/ End(c, "DeniedAllocation")
          \/ call' = [call EXCEPT ![c].pc = "running", ![c].runs = 1,
                                  ![c].model = m, ![c].tok = Len(token) + 1]
    BY <1>4 DEF Acquire
  <2>4. ASSUME NEW t, call' = [call EXCEPT ![c].pc = "running", ![c].runs = 1,
                                           ![c].model = m, ![c].tok = t]
        PROVE  ChargeOK(call[c], Kind[c])'
    <3>1. call'[c].pc = "running" /\ call'[c].result = call[c].result
      BY <1>1, <2>4 DEF TypesOK, CallState
    <3> QED  BY <2>1, <3>1 DEF ChargeOK
  <2> QED  BY <1>2, <2>1, <2>2, <2>3, <2>4
<1>5. CASE Returns(c)
  <2>1. PICK r \in Result :
          \/ Due(c, r, "topup") /\ r # NoResult
          \/ Due(c, r, "release")
    BY <1>5, DearResult DEF Returns
  <2>2. call[c].error = "none"
    BY <1>1, <1>5 DEF Returns, CallOK
  <2>3. ASSUME NEW place, Due(c, r, place)
        PROVE  call'[c].pc = place /\ call'[c].result = r /\ call'[c].error = "none"
    BY <1>1, <2>2, <2>3 DEF Due, TypesOK, CallState
  <2> QED  BY <2>1, <2>3 DEF ChargeOK
<1>6. CASE ReturnsUncosted(c) \/ FailsAgain(c)
  <2>1. /\ \E e : End(c, e)
        /\ call[c].pc = "running" /\ UNCHANGED treasuryVars
    BY <1>6 DEF ReturnsUncosted, FailsAgain, lendingVars
  <2>2. call[c].tok \notin settled /\ settled' = settled
    BY <2>1, TokenInHand, QuietStep DEF Working, GuardInv
  <2> QED  BY <1>2, <2>1, <2>2
<1>7. CASE Fails(c)
  <2>1. PICK e \in Failure :
          \/ Goto(c, "rescue") /\ Kind[c] = "node"
          \/ Bill(c, FailureSpend(c, e), e)
    BY <1>7 DEF Fails, Rescuable
  <2>2. /\ call[c].pc = "running" /\ call[c].result = NoResult
        /\ UNCHANGED token
    BY <1>7, QuietStep DEF Fails, ChargeOK, Ask, lendingVars, GuardInv
  <2>3. CASE Goto(c, "rescue") /\ Kind[c] = "node"
    BY <1>1, <2>2, <2>3, CallFields DEF ChargeOK
  <2>4. CASE Bill(c, FailureSpend(c, e), e) /\ CostsCeiling(Kind[c], e)
    BY <1>3, <2>2, <2>4 DEF FailureSpend
  <2>5. CASE Bill(c, FailureSpend(c, e), e) /\ ~CostsCeiling(Kind[c], e)
    <3>1. Bill(c, 0, e)
      BY <2>5 DEF FailureSpend
    <3> QED  BY <1>1, <2>2, <2>5, <3>1, CallFields DEF ChargeOK, Charge
  <2> QED  BY <2>1, <2>3, <2>4, <2>5
<1>8. CASE Borrow(c)
  <2>1. call[c].pc \in Borrowing
    BY <1>8 DEF Borrow, Borrowing
  <2>2. /\ call[c].pc = "rescue" => call[c].result = NoResult
        /\ call[c].pc = "topup" => call[c].result # NoResult
        /\ call[c].error = "none"
    BY <1>1, <2>1 DEF ChargeOK, CallOK
  <2>3. CASE UNCHANGED call
    BY <2>1, <2>3 DEF ChargeOK, Borrowing
  <2>4. ASSUME Refuse(c) \/ Fund(c),
               IF call[c].pc = "rescue" THEN Rescued(c, lend'[c].outcome)
                                        ELSE ToppedUp(c, lend'[c].outcome)
        PROVE  ChargeOK(call[c], Kind[c])'
    <3>1. lend \in [Caller -> Request] /\ call[c].tok \in active
      BY <1>1, <2>1 DEF GuardInv, TypesOK, LendingTypeOK, CallOK, Working, Borrowing
    <3>2. CASE Fund(c)
      <4>1. lend'[c].outcome = "granted"
        BY <1>1, <2>1, <3>1, <3>2, RequestInHand DEF Fund, Request
      <4>2. CASE call[c].pc = "rescue"
        <5>1. call' = [call EXCEPT ![c].pc = "running", ![c].runs = 2]
          BY <2>4, <4>1, <4>2 DEF Rescued, LoanDenied
        <5>2. call'[c].pc = "running" /\ call'[c].result = call[c].result
          BY <1>1, <5>1 DEF TypesOK, CallState
        <5> QED  BY <2>2, <4>2, <5>2 DEF ChargeOK
      <4>3. CASE call[c].pc = "topup"
        <5>1. Goto(c, "release")
          BY <2>4, <4>1, <4>3 DEF ToppedUp, LoanDenied
        <5> QED  BY <1>1, <2>2, <5>1, CallFields DEF ChargeOK
      <4> QED  BY <2>1, <4>2, <4>3 DEF Borrowing
    <3>3. CASE Refuse(c)
      <4>1. lend'[c].outcome = LoanDenied /\ token' = token
        BY <3>1, <3>3 DEF Refuse, Request, RecordExtensionDenial, accounts, LoanDenied
      <4>2. CASE call[c].pc = "rescue"
        <5>1. Bill(c, CurrentCeiling(c), LoanDenied)
          BY <2>4, <4>1, <4>2 DEF Rescued, LoanDenied
        <5>2. CostsCeiling(Kind[c], LoanDenied)
          BY <4>2 DEF ChargeOK, CostsCeiling
        <5> QED  BY <1>3, <4>1, <5>1, <5>2
      <4>3. CASE call[c].pc = "topup"
        <5>1. Bill(c, CurrentCeiling(c), Exceeded)
          BY <2>4, <4>1, <4>3 DEF ToppedUp, LoanDenied
        <5> QED  BY <1>3, <2>2, <4>1, <4>3, <5>1
      <4> QED  BY <2>1, <4>2, <4>3 DEF Borrowing
    <3> QED  BY <2>4, <3>2, <3>3
  <2> QED  BY <1>8, <2>3, <2>4 DEF Borrow
<1>9. CASE Settle(c)
  <2>1. /\ call[c].pc = "release"
        /\ call[c].error # "none" => call[c].bill = Charge(call[c], Kind[c])
    BY <1>9 DEF Settle, ChargeOK
  <2>2. CurrentCeiling(c) \in Nat
    BY <2>1, TokenInHand DEF Working
  <2>3. /\ call'[c].pc = "ended" /\ call'[c].error = call[c].error
        /\ call'[c].result = call[c].result /\ call'[c].tok = call[c].tok
    BY <1>1, <1>9, SettledAsBilled, CallFields
  <2>4. Charge(call[c], Kind[c])' = Charge(call[c], Kind[c])
    BY <1>9, <2>3, SettledAsBilled DEF Charge
  <2>5. Charge(call[c], Kind[c]) <= token[call[c].tok].ceiling
    BY <2>2 DEF Charge, CurrentCeiling
  <2>6. call[c].error # "none" =>
          token'[call[c].tok].spent = Charge(call[c], Kind[c])
    BY <1>9, <2>1, <2>5, SettledAsBilled
  <2> QED  BY <2>3, <2>4, <2>6 DEF ChargeOK
<1> QED  BY <1>4, <1>5, <1>6, <1>7, <1>8, <1>9 DEF GuardStep

LEMMA StepKeepsCharges ==
  ASSUME GuardInv, ChargesOK, NEW c \in Caller, GuardStep(c)
  PROVE  ChargesOK'
<1>1. SoundCall(c)
  BY StepSound
<1>2. ASSUME NEW d \in Caller, d # c PROVE ChargeOK(call[d], Kind[d])'
  <2> DEFINE k == call[d]
  <2>1. k' = k /\ ChargeOK(k, Kind[d])
    BY <1>1, <1>2 DEF SoundCall, ChargesOK
  <2>2. k.tok \in settled' =>
          k.tok \in settled /\ token'[k.tok] = token[k.tok]
    <3>1. k.tok # NoToken => k.tok \in DOMAIN token /\ k.tok # call[c].tok
      BY <1>2 DEF GuardInv, CallsOK, CallOK, OwnTokens
    <3>2. NoToken \notin settled'
      BY <1>1, NoSuchToken DEF SoundCall, TypesOK, LendingTypeOK, TypeOK
    <3> QED  BY <1>1, <3>1, <3>2 DEF SoundCall, OnlyTouches
  <2>3. k.pc = "release" => token'[k.tok] = token[k.tok]
    <3>1. k.pc = "release" => k.tok \in DOMAIN token /\ k.tok # NoToken
      BY TokenInHand DEF Working
    <3> QED  BY <1>1, <1>2, <3>1 DEF SoundCall, OnlyTouches, GuardInv, OwnTokens
  <2> HIDE DEF k
  <2>4. ChargeOK(k, Kind[d])'
    BY <2>1, <2>2, <2>3 DEF ChargeOK, Charge
  <2> QED  BY <2>4 DEF k
<1>3. ChargeOK(call[c], Kind[c])'
  BY OwnCharge DEF ChargesOK
<1> QED  BY <1>2, <1>3 DEF ChargesOK

(* Whoever borrows meanwhile, a result is returned only after its cost was   *)
(* booked, and a failure is charged the ceiling if its result was too dear   *)
(* or a node met a budget error, and nothing otherwise.                      *)
THEOREM BillsAreExact == GuardSpec => []BilledExactly
<1>1. GuardInit => ChargesOK
  BY DEF GuardInit, ChargesOK, ChargeOK
<1>2. GuardInv /\ ChargesOK /\ [GuardNext]_guardVars => ChargesOK'
  <2>1. ASSUME GuardInv, ChargesOK, UNCHANGED guardVars PROVE ChargesOK'
    BY <2>1 DEF guardVars, lendingVars, treasuryVars, ChargesOK, ChargeOK, Charge
  <2> QED  BY <2>1, StepKeepsCharges DEF GuardNext
<1>3. GuardInv /\ ChargesOK => BilledExactly
  BY DEF GuardInv, CallsOK, CallOK, PaidExactly, ChargesOK, ChargeOK, Charge,
         BilledExactly, Ended
<1> QED  BY <1>1, <1>2, <1>3, GuardInvariant, PTL DEF GuardSpec
-----------------------------------------------------------------------------
\* A call that pays without having failed keeps the result that it pays for.
ReportedBill(k) ==
  k.pc \in {"topup", "release", "ended"} /\ k.error = "none" =>
    /\ k.result \in Result /\ HasCost(k.result, k.model)
    /\ k.bill = SettleCost(k.result, k.model)

BillsReported == \A c \in Caller : ReportedBill(call[c])

\* A call that now fails, or has yet to return, has nothing to show.
LEMMA NoBill ==
  ASSUME GuardInv, NEW c \in Caller,
         \/ \E e : (End(c, e) \/ \E s : Bill(c, s, e)) /\ e # "none"
         \/ Goto(c, "rescue")
         \/ call'[c].pc = "running"
  PROVE  ReportedBill(call'[c])
<1>1. call \in [Caller -> CallState]
  BY DEF GuardInv, TypesOK
<1>2. ASSUME NEW e, e # "none", End(c, e) \/ \E s : Bill(c, s, e)
      PROVE  call'[c].error # "none"
  BY <1>1, <1>2 DEF End, Bill, CallState
<1>3. ASSUME Goto(c, "rescue") PROVE call'[c].pc = "rescue"
  BY <1>1, <1>3 DEF Goto, CallState
<1> QED  BY <1>2, <1>3 DEF ReportedBill

\* A call that pays what was reported, and goes on, still does.
LEMMA SameBill ==
  ASSUME GuardInv, NEW c \in Caller, ReportedBill(call[c]),
         call[c].pc \in {"topup", "release"},
         Goto(c, "release") \/ End(c, call[c].error)
  PROVE  ReportedBill(call'[c])
<1> DEFINE k == call[c]
<1>1. call \in [Caller -> CallState] /\ k \in CallState
  BY DEF GuardInv, TypesOK
<1>2. /\ call'[c].error = k.error /\ call'[c].result = k.result
      /\ call'[c].model = k.model /\ call'[c].bill = k.bill
  BY <1>1 DEF Goto, End, CallState
<1> QED  BY <1>2 DEF ReportedBill

LEMMA StepKeepsBills ==
  ASSUME GuardInv, BillsReported, NEW c \in Caller, GuardStep(c)
  PROVE  BillsReported'
<1>1. SoundCall(c)
  BY StepSound
<1>2. /\ call \in [Caller -> CallState] /\ call[c] \in CallState
      /\ ReportedBill(call[c])
  BY DEF GuardInv, TypesOK, BillsReported
<1>3. SUFFICES ReportedBill(call'[c])
  BY <1>1 DEF SoundCall, BillsReported
<1>4. CASE Acquire(c)
  <2>1. \/ End(c, Unpriced) \/ End(c, "DeniedAllocation")
        \/ \E m \in Requested :
             call' = [call EXCEPT ![c].pc = "running", ![c].runs = 1,
                                  ![c].model = m, ![c].tok = Len(token) + 1]
    BY <1>4 DEF Acquire
  <2>2. ASSUME NEW m, NEW t,
               call' = [call EXCEPT ![c].pc = "running", ![c].runs = 1,
                                    ![c].model = m, ![c].tok = t]
        PROVE  call'[c].pc = "running"
    <3>1. [call[c] EXCEPT !.pc = "running", !.runs = 1, !.model = m, !.tok = t].pc
            = "running"
      BY <1>2 DEF CallState
    <3> QED  BY <1>2, <2>2, <3>1
  <2>3. (\E e : End(c, e) /\ e # "none") \/ call'[c].pc = "running"
    <3>1. Unpriced # "none" /\ "DeniedAllocation" # "none"
      BY DEF Unpriced
    <3>2. CASE End(c, Unpriced) \/ End(c, "DeniedAllocation")
      BY <3>1, <3>2
    <3> QED  BY <2>1, <2>2, <3>2
  <2> QED  BY <2>3, NoBill
<1>5. CASE Returns(c)
  <2>1. PICK r \in Result :
          /\ HasCost(r, call[c].model)
          /\ Due(c, r, "topup") \/ Due(c, r, "release")
    BY <1>5 DEF Returns
  <2>2. /\ call'[c].result = r /\ call'[c].model = call[c].model
        /\ call'[c].bill = SettleCost(r, call[c].model)
    BY <1>2, <2>1 DEF Due, Cost, CallState
  <2> QED  BY <2>1, <2>2 DEF ReportedBill
<1>6. CASE ReturnsUncosted(c) \/ FailsAgain(c)
  <2>1. \E e : End(c, e) /\ e # "none"
    BY <1>6, ErrorNames DEF ReturnsUncosted, FailsAgain, CostError
  <2> QED  BY <2>1, NoBill
<1>7. CASE Fails(c)
  <2>1. Goto(c, "rescue") \/ \E e, s : Bill(c, s, e) /\ e # "none"
    BY <1>7, ErrorNames DEF Fails
  <2> QED  BY <2>1, NoBill
<1>8. CASE Borrow(c)
  <2>1. CASE UNCHANGED call
    BY <1>2, <2>1
  <2>2. ASSUME Refuse(c) \/ Fund(c),
               IF call[c].pc = "rescue" THEN Rescued(c, lend'[c].outcome)
                                        ELSE ToppedUp(c, lend'[c].outcome)
        PROVE  ReportedBill(call'[c])
    <3> DEFINE outcome == lend'[c].outcome
    <3>1. outcome # "none"
      <4>1. lend \in [Caller -> Request]
        BY DEF GuardInv, TypesOK, LendingTypeOK
      <4> QED  BY <2>2, <4>1 DEF Refuse, Fund, ExtensionError, Request
    <3> HIDE DEF outcome
    <3>2. CASE call[c].pc = "rescue"
      <4>1. Rescued(c, outcome)
        BY <2>2, <3>2 DEF outcome
      <4>2. \/ call'[c].pc = "running"
            \/ \E e : (End(c, e) \/ \E s : Bill(c, s, e)) /\ e # "none"
        BY <1>2, <3>1, <4>1 DEF Rescued, LoanDenied, CallState
      <4> QED  BY <4>2, NoBill
    <3>3. CASE call[c].pc # "rescue"
      <4>1. ToppedUp(c, outcome) /\ call[c].pc = "topup"
        BY <1>8, <2>2, <3>3 DEF outcome, Borrow
      <4>2. \/ Goto(c, "release")
            \/ \E e : (End(c, e) \/ \E s : Bill(c, s, e)) /\ e # "none"
        <5>1. CASE outcome = "granted"
          <6>1. Goto(c, "release")
            BY <4>1, <5>1 DEF ToppedUp, LoanDenied
          <6> QED  BY <6>1
        <5>2. CASE outcome = LoanDenied
          <6>1. Bill(c, CurrentCeiling(c), Exceeded)
            BY <4>1, <5>2 DEF ToppedUp, LoanDenied
          <6> QED  BY <6>1 DEF Exceeded
        <5>3. CASE outcome # "granted" /\ outcome # LoanDenied
          BY <3>1, <4>1, <5>3 DEF ToppedUp
        <5> QED  BY <5>1, <5>2, <5>3
      <4> QED  BY <1>2, <4>1, <4>2, NoBill, SameBill
    <3> QED  BY <3>2, <3>3
  <2> QED  BY <1>8, <2>1, <2>2 DEF Borrow
<1>9. CASE Settle(c)
  <2>1. \/ End(c, call[c].error)
        \/ End(c, ReleaseError(call[c].tok))
    BY <1>9 DEF Settle
  <2>2. call[c].pc = "release" /\ ReleaseError(call[c].tok) # "none"
    BY <1>9 DEF Settle, ReleaseError
  <2> QED  BY <1>2, <2>1, <2>2, SameBill, NoBill
<1> QED  BY <1>4, <1>5, <1>6, <1>7, <1>8, <1>9 DEF GuardStep

(* Whatever a function reports, in whichever of the places and under either  *)
(* naming: a call that returns its result was billed the tokens of one place *)
(* that reports any, at their price, and nothing only if no place does.      *)
THEOREM BillsAreReported == GuardSpec => []BilledAsReported
<1>1. GuardInit => BillsReported
  BY DEF GuardInit, BillsReported, ReportedBill
<1>2. GuardInv /\ BillsReported /\ [GuardNext]_guardVars => BillsReported'
  <2>1. ASSUME BillsReported, UNCHANGED guardVars PROVE BillsReported'
    BY <2>1 DEF guardVars, BillsReported
  <2> QED  BY <2>1, StepKeepsBills DEF GuardNext
<1>3. BillsReported => BilledAsReported
  BY SettledAsReported DEF BillsReported, ReportedBill, BilledAsReported, Ended
<1> QED  BY <1>1, <1>2, <1>3, GuardInvariant, PTL DEF GuardSpec
-----------------------------------------------------------------------------
\* The callers of Lending may ask for what the wrappers ask for: ceilings, the
\* overrun a node reports, and loans for any part of a cost; and may report any
\* spend.
CallersMayAsk ==
  /\ Overrun \subseteq Amount /\ Nat \subseteq Spend
  /\ \A m \in Requested :
       Listed(m) =>
         /\ \A chars \in Prompt : Ceiling(chars, m) \in Amount
         /\ \A r \in Result :
              HasCost(r, m) =>
                \A short \in 1 .. SettleCost(r, m) : ExtensionFor(short) \in Amount

\* A call that is not borrowing is outside the Reallocator; a loop that runs no
\* other wrapper runs no other request.
LEMMA OutsideReallocator ==
  ASSUME GuardInv, NEW c \in Caller, HasLoop(c)
  PROVE  LoopFree(c) /\ (call[c].pc \notin Borrowing => c \notin InFlight)
<1>1. \A d \in Caller : d \in InFlight <=> call[d].pc \in Borrowing
  BY DEF GuardInv, CallsOK, CallOK, InFlight
<1>2. LoopFree(c)
  BY <1>1 DEF LoopFree, HasLoop, OnLoop, InFlight, Borrowing
<1> QED  BY <1>1, <1>2

LEMMA AskRefines ==
  ASSUME GuardInv, NEW c \in Caller, HasLoop(c), call[c].pc = "running",
         NEW x \in Amount, Ask(c, call[c].tok, x, TRUE)
  PROVE  LendingNext
<1>1. call[c].tok \in DOMAIN token
  BY TokenInHand DEF Working
<1>2. LoopFree(c) /\ c \notin InFlight
  BY OutsideReallocator DEF Borrowing
<1> QED  BY <1>1, <1>2 DEF CallerStep, LendingNext

LEMMA AcquireRefines ==
  ASSUME CallersMayAsk, GuardInv, NEW c \in Caller, HasLoop(c), Acquire(c)
  PROVE  [LendingNext]_lendingVars
<1>1. LoopFree(c) /\ c \notin InFlight /\ UNCHANGED <<progress, lend>>
  BY OutsideReallocator DEF Acquire, Borrowing
<1>2. CASE UNCHANGED treasuryVars
  BY <1>1, <1>2 DEF lendingVars
<1>3. ASSUME NEW x \in Amount, AllocateGranted(x) \/ AllocateDenied(x)
      PROVE  LendingNext
  BY <1>1, <1>3 DEF UseTreasury, CallerStep, LendingNext
<1>4. \A m \in Requested, chars \in Prompt : Listed(m) => Ceiling(chars, m) \in Amount
  BY DEF CallersMayAsk
<1> QED  BY <1>2, <1>3, <1>4 DEF Acquire

LEMMA ReturnsRefines ==
  ASSUME CallersMayAsk, GuardInv, NEW c \in Caller, HasLoop(c), Returns(c)
  PROVE  [LendingNext]_lendingVars
<1>1. call[c].pc = "running"
  BY DEF Returns
<1>2. PICK r \in Result :
        /\ HasCost(r, call[c].model)
        /\ \/ Overspends(c, r) /\ Ask(c, call[c].tok, Loan(c, r), TRUE)
           \/ UNCHANGED lendingVars
  BY DEF Returns
<1>3. ASSUME Overspends(c, r) PROVE Loan(c, r) \in Amount
  <2>1. /\ Cost(c, r) \in Nat /\ CurrentCeiling(c) \in Nat
        /\ call[c].model \in Requested /\ Listed(call[c].model)
    BY <1>1, <1>2, CostType, TokenInHand DEF Working
  <2>2. Cost(c, r) > CurrentCeiling(c)
    BY <1>3 DEF Overspends, WouldExceed, CurrentCeiling
  <2>3. Cost(c, r) - CurrentCeiling(c) \in 1 .. Cost(c, r)
    BY <2>1, <2>2
  <2> QED  BY <1>2, <2>1, <2>3 DEF CallersMayAsk, Loan, Cost
<1> QED  BY <1>1, <1>2, <1>3, AskRefines

LEMMA FailsRefines ==
  ASSUME CallersMayAsk, GuardInv, NEW c \in Caller, HasLoop(c), Fails(c)
  PROVE  [LendingNext]_lendingVars
<1>1. call[c].pc = "running"
  BY DEF Fails
<1>2. \A x \in Overrun : x \in Amount
  BY DEF CallersMayAsk
<1> QED  BY <1>1, <1>2, AskRefines DEF Fails

LEMMA SettleRefines ==
  ASSUME CallersMayAsk, GuardInv, NEW c \in Caller, HasLoop(c), Settle(c)
  PROVE  [LendingNext]_lendingVars
<1>1. /\ LoopFree(c) /\ c \notin InFlight /\ UNCHANGED <<progress, lend>>
      /\ call[c].tok \in DOMAIN token
  BY OutsideReallocator, TokenInHand DEF Settle, Borrowing, Working
<1>2. call[c].bill \in Spend
  BY DEF GuardInv, TypesOK, CallState, CallersMayAsk
<1>3. CASE Release(call[c].tok, call[c].bill)
  BY <1>1, <1>2, <1>3 DEF UseTreasury, CallerStep, LendingNext
<1>4. CASE UNCHANGED treasuryVars
  BY <1>1, <1>4 DEF lendingVars
<1> QED  BY <1>3, <1>4 DEF Settle

LEMMA GuardStepRefines ==
  ASSUME CallersMayAsk, GuardInv, [GuardNext]_guardVars
  PROVE  [LendingNext]_lendingVars
<1>1. ASSUME NEW c \in Caller, HasLoop(c), Borrow(c) PROVE [LendingNext]_lendingVars
  <2>1. LoopFree(c) /\ (ReadAvailable(c) \/ Refuse(c) \/ Fund(c))
    BY <1>1, OutsideReallocator DEF Borrow
  <2> QED  BY <2>1 DEF CallerStep, LendingNext
<1>2. ASSUME NEW c \in Caller, GuardStep(c) PROVE [LendingNext]_lendingVars
  BY <1>1, <1>2, AcquireRefines, ReturnsRefines, FailsRefines, SettleRefines
  DEF GuardStep, ReturnsUncosted, FailsAgain
<1> QED  BY <1>2 DEF GuardNext, guardVars

(* Every step of a wrapper is one that a caller of the Reallocator may take, *)
(* so all that was proved of lending holds under the guarded calls.          *)
THEOREM GuardRefinesLending ==
  ASSUME CallersMayAsk
  PROVE  GuardSpec => ImplementsLending
<1>1. GuardInit => LendingInit
  BY DEF GuardInit
<1>2. GuardInv /\ [GuardNext]_guardVars => [LendingNext]_lendingVars
  BY GuardStepRefines
<1> QED  BY <1>1, <1>2, GuardInvariant, PTL
         DEF GuardSpec, ImplementsLending, LendingSpec

(* Guarded calls on one event loop never oversubscribe the pool, and         *)
(* implement the clearinghouse in which every loan is covered.               *)
THEOREM GuardedLoopIsSolvent ==
  ASSUME CallersMayAsk, Cardinality(Loop) = 1
  PROVE  GuardSpec => []NeverOversubscribed /\ ImplementsSolvent
BY GuardRefinesLending, OneLoopIsSolvent, OneLoopImplementsSolvent, PTL
DEF ImplementsLending

(* On several loops they can oversubscribe it, by one loan for every loop    *)
(* but one; the books stay right.                                            *)
THEOREM GuardedOverdraftIsBounded ==
  ASSUME CallersMayAsk
  PROVE  GuardSpec => []OverdraftBounded /\ []Conservation
BY GuardRefinesLending, OverdraftIsBounded, LendingConserves, PTL
DEF ImplementsLending
-----------------------------------------------------------------------------
\* The loans on a token, by their entries, and how many a call may have had.
LoansOn(t) == EntriesIn(ledger, t, {Extended})

Unsettled == {"running"} \cup Borrowing

Allowance(k) == IF k.pc \in Unsettled THEN k.runs - 1 ELSE k.runs

LoanInv ==
  /\ EntriesKnown
  /\ \A c \in Caller :
       /\ call[c].pc = "rescue" => call[c].runs = 1
       /\ HasToken(c) => Cardinality(LoansOn(call[c].tok)) <= Allowance(call[c])

\* Nothing but an extension is a loan.
NoLoan ==
  EntriesKnown' /\ \A u : EntriesIn(ledger', u, {Extended}) = LoansOn(u)

LEMMA OtherOperationsLendNothing ==
  ASSUME TypeOK, EntriesKnown,
         \/ UNCHANGED treasuryVars
         \/ \E x \in Nat : AllocateGranted(x) \/ AllocateDenied(x)
         \/ \E t \in active, s \in Int : Release(t, s)
         \/ \E t \in DOMAIN token, x \in Nat : RecordExtensionDenial(t, x)
  PROVE  NoLoan
<1>1. ASSUME NEW event \in {Granted, Denied, Released, Refused},
             NEW t \in Nat, NEW amount \in Nat, NEW yielded \in Nat,
             Record(event, t, amount, yielded),
             committed' \in Int, settledSpent' \in Int,
             t \in DOMAIN token' \cup {NoToken}, DOMAIN token \subseteq DOMAIN token'
      PROVE  NoLoan
  <2>1. Appended(event, t, amount, yielded)
    BY <1>1, EventTypes, EntriesAfter
  <2>2. event \notin {Extended}
    BY DEF Granted, Denied, Released, Refused, Extended
  <2> QED  BY <1>1, <2>1, <2>2 DEF NoLoan, LoansOn, Appended, EntriesKnown
<1>2. CASE UNCHANGED treasuryVars
  BY <1>2 DEF treasuryVars, NoLoan, LoansOn, EntriesKnown
<1>3. ASSUME NEW x \in Nat, AllocateGranted(x) PROVE NoLoan
  <2> DEFINE t == Len(token) + 1
  <2>1. DOMAIN token' = DOMAIN token \cup {t} /\ TypeOK'
    BY <1>3, GrantedEffect
  <2>2. /\ t \in Nat /\ Record(Granted, t, x, 0)
        /\ committed' \in Int /\ settledSpent' \in Int
    BY <1>3, <2>1, Registry DEF AllocateGranted, TypeOK
  <2> HIDE DEF t
  <2> QED  BY <1>1, <2>1, <2>2
<1>4. ASSUME NEW x \in Nat, AllocateDenied(x) PROVE NoLoan
  <2>1. /\ UNCHANGED accounts /\ Record(Denied, NoToken, x, 0)
        /\ committed' \in Int /\ settledSpent' \in Int /\ NoToken \in Nat
    BY <1>4 DEF AllocateDenied, accounts, TypeOK, NoToken
  <2> QED  BY <1>1, <2>1 DEF accounts
<1>5. ASSUME NEW t \in DOMAIN token, NEW x \in Nat, RecordExtensionDenial(t, x)
      PROVE  NoLoan
  <2>1. /\ UNCHANGED accounts /\ Record(Refused, t, x, 0)
        /\ committed' \in Int /\ settledSpent' \in Int /\ t \in Nat
    BY <1>5, Registry DEF RecordExtensionDenial, accounts, TypeOK
  <2> QED  BY <1>1, <2>1 DEF accounts
<1>6. ASSUME NEW t \in active, NEW s \in Int, Release(t, s) PROVE NoLoan
  <2> DEFINE spend == Clamped(t, s)
             yield == token[t].ceiling - Clamped(t, s)
  <2>1. t \in DOMAIN token /\ DOMAIN token' = DOMAIN token /\ TypeOK'
    BY <1>6, ReleaseEffect
  <2>2. /\ t \in Nat /\ Record(Released, t, spend, yield)
        /\ spend \in Nat /\ yield \in Nat
        /\ committed' \in Int /\ settledSpent' \in Int
    BY <1>6, <2>1, Registry, ClampedRange DEF Release, TypeOK
  <2> HIDE DEF spend, yield
  <2> QED  BY <1>1, <2>1, <2>2
<1> QED  BY <1>2, <1>3, <1>4, <1>5, <1>6

LEMMA ExtensionIsOneLoan ==
  ASSUME TypeOK, EntriesKnown, NEW t \in active, NEW x \in Nat, GrantExtension(t, x)
  PROVE  /\ EntriesKnown'
         /\ \A u : u # t => EntriesIn(ledger', u, {Extended}) = LoansOn(u)
         /\ Cardinality(EntriesIn(ledger', t, {Extended}))
              = Cardinality(LoansOn(t)) + 1
<1> DEFINE n == Len(ledger) + 1
<1>1. /\ DOMAIN token' = DOMAIN token /\ TypeOK' /\ t \in Nat
      /\ Record(Extended, t, x, 0) /\ committed' \in Int /\ settledSpent' \in Int
  <2>1. DOMAIN token' = DOMAIN token /\ TypeOK' /\ t \in DOMAIN token
    BY ExtensionEffect
  <2>2. Record(Extended, t, x, 0) /\ committed' = committed + x
        /\ settledSpent' = settledSpent
    BY DEF GrantExtension
  <2>3. t \in Nat
    BY <2>1, Registry
  <2>4. committed \in Int /\ settledSpent \in Int
    BY DEF TypeOK
  <2> QED  BY <2>1, <2>2, <2>3, <2>4
<1>2. Appended(Extended, t, x, 0)
  BY <1>1, EventTypes, EntriesAfter
<1>3. t \in DOMAIN token
  BY DEF TypeOK
<1>4. EntriesKnown'
  BY <1>1, <1>2, <1>3 DEF EntriesKnown, Appended
<1>5. /\ EntriesIn(ledger', t, {Extended}) = LoansOn(t) \cup {n}
      /\ \A u : u # t => EntriesIn(ledger', u, {Extended}) = LoansOn(u)
  BY <1>2 DEF Appended, LoansOn
<1>6. IsFiniteSet(LoansOn(t)) /\ n \notin LoansOn(t)
  BY <1>2, EntriesFinite DEF LoansOn, Appended
<1> HIDE DEF n
<1> QED  BY <1>4, <1>5, <1>6, FS_AddElement, ZenonT(30)

LEMMA CountedLoans ==
  ASSUME TypeOK, NEW t
  PROVE  Cardinality(LoansOn(t)) \in Nat
BY EntriesFinite, FS_CardinalityType DEF LoansOn

\* A call goes on to this place, with its token and after as many runs.
GoesOn(c, place) ==
  /\ call'[c].tok = call[c].tok /\ call'[c].runs = call[c].runs
  /\ call'[c].pc = place

LEMMA CallGoesOn ==
  ASSUME TypesOK, NEW c \in Caller, NEW place,
         \/ Goto(c, place)
         \/ place = "ended" /\ \E e : End(c, e)
         \/ place = "release" /\ \E s, e : Bill(c, s, e)
         \/ \E r : Due(c, r, place)
  PROVE  GoesOn(c, place)
<1>1. call[c] \in CallState /\ c \in DOMAIN call
  BY DEF TypesOK
<1>2. DOMAIN call[c] = {"pc", "tok", "model", "runs", "result", "bill", "error"}
  BY <1>1 DEF CallState
<1>3. CASE Goto(c, place)
  BY <1>1, <1>2, <1>3 DEF Goto, GoesOn
<1>4. ASSUME NEW e, End(c, e), place = "ended" PROVE GoesOn(c, place)
  BY <1>1, <1>2, <1>4 DEF End, GoesOn
<1>5. ASSUME NEW s, NEW e, Bill(c, s, e), place = "release" PROVE GoesOn(c, place)
  BY <1>1, <1>2, <1>5 DEF Bill, GoesOn
<1>6. ASSUME NEW r, Due(c, r, place) PROVE GoesOn(c, place)
  <2> DEFINE cost == Cost(c, r)
  <2>1. call' = [call EXCEPT ![c].pc = place, ![c].result = r, ![c].bill = cost]
    BY <1>6 DEF Due
  <2> HIDE DEF cost
  <2> QED  BY <1>1, <1>2, <2>1 DEF GoesOn
<1> QED  BY <1>3, <1>4, <1>5, <1>6

\* The calls that keep their token and have no new loan keep their bound.
LEMMA NoLoanStep ==
  ASSUME GuardInv, LoanInv, NEW c \in Caller, SoundCall(c), NoLoan,
         call'[c].tok = call[c].tok,
         Allowance(call[c]) <= Allowance(call[c])',
         (call[c].pc = "rescue" => call[c].runs = 1)'
  PROVE  LoanInv'
<1>1. \A u : LoansOn(u)' = LoansOn(u)
  BY DEF NoLoan, LoansOn
<1>2. \A d \in Caller : Allowance(call[d]) \in Int /\ Allowance(call[d])' \in Int
  BY DEF SoundCall, GuardInv, TypesOK, CallState, Allowance
<1>3. TypeOK
  BY DEF GuardInv, TypesOK, LendingTypeOK
<1>4. \A u : Cardinality(LoansOn(u)) \in Nat
  BY <1>3, CountedLoans
<1>5. ASSUME NEW d \in Caller, HasToken(d)'
      PROVE  Cardinality(LoansOn(call[d].tok))' <= Allowance(call[d])'
  <2>1. call'[d].tok = call[d].tok /\ HasToken(d)
        /\ Allowance(call[d]) <= Allowance(call[d])'
    BY <1>2, <1>5 DEF SoundCall, HasToken, Allowance
  <2>2. Cardinality(LoansOn(call[d].tok)) <= Allowance(call[d])
    BY <2>1 DEF LoanInv
  <2>3. Cardinality(LoansOn(call[d].tok))' = Cardinality(LoansOn(call[d].tok))
    BY <1>1, <2>1
  <2> QED  BY <1>2, <1>4, <2>1, <2>2, <2>3
<1>6. \A d \in Caller : (call[d].pc = "rescue" => call[d].runs = 1)'
  BY DEF SoundCall, LoanInv
<1> QED  BY <1>5, <1>6 DEF NoLoan, LoanInv

\* A new token has no loans.
LEMMA AcquireLoans ==
  ASSUME GuardInv, LoanInv, NEW c \in Caller, SoundCall(c), Acquire(c)
  PROVE  LoanInv'
<1>1. TypesOK /\ TypeOK /\ call[c] \in CallState /\ c \in DOMAIN call
  BY DEF GuardInv, TypesOK, LendingTypeOK
<1>2. /\ call[c].pc = "idle" /\ call[c].tok = NoToken /\ EntriesKnown
      /\ call[c].runs \in Int
  BY <1>1 DEF Acquire, GuardInv, CallsOK, CallOK, LoanInv, CallState
<1>3. ASSUME NoLoan, NEW e, End(c, e) PROVE LoanInv'
  <2>1. GoesOn(c, "ended")
    BY <1>1, <1>3, CallGoesOn
  <2>2. /\ call'[c].tok = call[c].tok
        /\ Allowance(call[c]) <= Allowance(call[c])'
        /\ (call[c].pc = "rescue" => call[c].runs = 1)'
    BY <1>2, <2>1 DEF GoesOn, Allowance, Unsettled, Borrowing
  <2> QED  BY <1>3, <2>2, NoLoanStep
<1>4. ASSUME NEW e, End(c, e), UNCHANGED treasuryVars PROVE LoanInv'
  BY <1>1, <1>2, <1>3, <1>4, OtherOperationsLendNothing
<1>5. ASSUME NEW e, End(c, e), NEW x \in Nat, AllocateDenied(x) PROVE LoanInv'
  BY <1>1, <1>2, <1>3, <1>5, OtherOperationsLendNothing
<1>6. ASSUME NEW x \in Nat, AllocateGranted(x), NEW m,
             call' = [call EXCEPT ![c].pc = "running", ![c].runs = 1,
                                  ![c].model = m, ![c].tok = Len(token) + 1]
      PROVE  LoanInv'
  <2> DEFINE t == Len(token) + 1
  <2>1. /\ call'[c].pc = "running" /\ call'[c].runs = 1 /\ call'[c].tok = t
    <3>1. DOMAIN call[c] = {"pc", "tok", "model", "runs", "result", "bill", "error"}
      BY <1>1 DEF CallState
    <3> HIDE DEF t
    <3>2. call' = [call EXCEPT ![c].pc = "running", ![c].runs = 1,
                               ![c].model = m, ![c].tok = t]
      BY <1>6 DEF t
    <3> QED  BY <1>1, <3>1, <3>2
  <2>2. t \notin DOMAIN token /\ t # NoToken
    BY <1>1, Registry DEF NoToken
  <2>3. NoLoan
    BY <1>1, <1>2, <1>6, OtherOperationsLendNothing
  <2> HIDE DEF t
  <2>4. \A u : LoansOn(u)' = LoansOn(u)
    BY <2>3 DEF NoLoan, LoansOn
  <2>5. LoansOn(t) = {}
    BY <1>2, <2>2 DEF LoansOn, EntriesIn, EntriesKnown
  <2>6. Cardinality(LoansOn(t)) = 0
    BY <2>5, FS_EmptySet
  <2>7. Cardinality(LoansOn(call[c].tok))' <= Allowance(call[c])'
    <3>1. LoansOn(call[c].tok)' = LoansOn(t)
      BY <2>1, <2>4
    <3> QED  BY <2>1, <2>6, <3>1 DEF Allowance, Unsettled
  <2>8. ASSUME NEW d \in Caller \ {c}, HasToken(d)'
        PROVE  Cardinality(LoansOn(call[d].tok))' <= Allowance(call[d])'
    <3>1. call'[d] = call[d]
      BY DEF SoundCall
    <3>2. LoansOn(call[d].tok)' = LoansOn(call[d].tok)
      BY <2>4, <3>1
    <3> QED  BY <2>8, <3>1, <3>2 DEF LoanInv, HasToken, Allowance
  <2>9. \A d \in Caller : (call[d].pc = "rescue" => call[d].runs = 1)'
    BY <2>1 DEF SoundCall, LoanInv
  <2> QED  BY <2>3, <2>7, <2>8, <2>9 DEF NoLoan, LoanInv
<1>7. \A m \in Requested, chars \in Prompt : Listed(m) => Ceiling(chars, m) \in Nat
  BY CostsAreAmounts DEF Listed
<1> QED  BY <1>4, <1>5, <1>6, <1>7 DEF Acquire

\* The loan a call was waiting for is the one its bound allows for.
LEMMA FundLoans ==
  ASSUME GuardInv, LoanInv, NEW c \in Caller, SoundCall(c),
         call[c].pc \in Borrowing, Fund(c),
         IF call[c].pc = "rescue" THEN Rescued(c, lend'[c].outcome)
                                  ELSE ToppedUp(c, lend'[c].outcome)
  PROVE  LoanInv'
<1> DEFINE t == call[c].tok
           x == lend[c].extra
<1>1. /\ lend[c].tok = t /\ x \in Nat /\ t \in active
      /\ lend \in [Caller -> Request] /\ lend[c] \in Request
  BY RequestInHand DEF GuardInv, TypesOK, LendingTypeOK
<1>2. GrantExtension(t, x) /\ lend'[c].outcome = "granted"
  BY <1>1 DEF Fund, Request
<1>3. TypesOK /\ TypeOK /\ call[c] \in CallState /\ c \in DOMAIN call /\ EntriesKnown
  BY DEF GuardInv, TypesOK, LendingTypeOK, LoanInv
<1>4. t # NoToken
  BY <1>1, <1>3, Registry DEF TypeOK, NoToken
<1> HIDE DEF t, x
<1>5. /\ EntriesKnown'
      /\ \A u : u # t => EntriesIn(ledger', u, {Extended}) = LoansOn(u)
      /\ Cardinality(EntriesIn(ledger', t, {Extended})) = Cardinality(LoansOn(t)) + 1
  BY <1>1, <1>2, <1>3, ExtensionIsOneLoan
<1>6. Cardinality(LoansOn(t)) \in Nat
  BY <1>3, CountedLoans
<1>7. Cardinality(LoansOn(t)) <= Allowance(call[c])
  BY <1>4 DEF t, HasToken, LoanInv
<1>8. /\ call'[c].tok = t /\ call'[c].pc # "rescue"
      /\ Allowance(call[c]) + 1 <= Allowance(call[c])'
  <2>1. call[c].runs \in Int
    BY <1>3 DEF CallState
  <2>2. CASE call[c].pc = "rescue"
    <3>1. call' = [call EXCEPT ![c].pc = "running", ![c].runs = 2]
      BY <1>2, <2>2 DEF Rescued, LoanDenied
    <3>2. DOMAIN call[c] = {"pc", "tok", "model", "runs", "result", "bill", "error"}
      BY <1>3 DEF CallState
    <3>3. call'[c].pc = "running" /\ call'[c].runs = 2 /\ call'[c].tok = call[c].tok
      BY <1>3, <3>1, <3>2
    <3>4. call[c].runs = 1
      BY <2>2 DEF LoanInv
    <3> QED  BY <2>2, <3>3, <3>4 DEF t, Allowance, Unsettled, Borrowing
  <2>3. CASE call[c].pc = "topup"
    <3>1. Goto(c, "release")
      BY <1>2, <2>3 DEF ToppedUp, LoanDenied
    <3>2. GoesOn(c, "release")
      BY <1>3, <3>1, CallGoesOn
    <3> QED  BY <2>1, <2>3, <3>2 DEF t, GoesOn, Allowance, Unsettled, Borrowing
  <2> QED  BY <2>2, <2>3 DEF Borrowing
<1>9. Allowance(call[c]) \in Int /\ Allowance(call[c])' \in Int
  BY DEF SoundCall, GuardInv, TypesOK, CallState, Allowance
<1>10. Cardinality(LoansOn(call[c].tok))' <= Allowance(call[c])'
  <2>1. Cardinality(LoansOn(call[c].tok))' = Cardinality(LoansOn(t)) + 1
    BY <1>5, <1>8 DEF LoansOn
  <2> QED  BY <1>6, <1>7, <1>8, <1>9, <2>1
<1>11. ASSUME NEW d \in Caller \ {c}, HasToken(d)'
       PROVE  Cardinality(LoansOn(call[d].tok))' <= Allowance(call[d])'
  <2>1. call'[d] = call[d] /\ HasToken(d)
    BY <1>11 DEF SoundCall, HasToken
  <2>2. call[d].tok # t
    BY <1>4 DEF t, GuardInv, OwnTokens
  <2>3. LoansOn(call[d].tok)' = LoansOn(call[d].tok)
    BY <1>5, <2>1, <2>2 DEF LoansOn
  <2> QED  BY <2>1, <2>3 DEF LoanInv, Allowance
<1>12. \A d \in Caller : (call[d].pc = "rescue" => call[d].runs = 1)'
  BY <1>8 DEF SoundCall, LoanInv
<1> QED  BY <1>5, <1>10, <1>11, <1>12 DEF LoanInv

LEMMA StepLoans ==
  ASSUME GuardInv, LoanInv, NEW c \in Caller, GuardStep(c)
  PROVE  LoanInv'
<1>1. SoundCall(c)
  BY StepSound
<1>2. /\ TypesOK /\ TypeOK /\ EntriesKnown /\ call[c] \in CallState
      /\ call[c].runs \in Int /\ (call[c].pc = "rescue" => call[c].runs = 1)
  BY DEF GuardInv, TypesOK, LendingTypeOK, LoanInv, CallState
<1>3. ASSUME NEW place, GoesOn(c, place), NoLoan,
             place \in Unsettled => call[c].pc \in Unsettled,
             place = "rescue" => call[c].runs = 1
      PROVE  LoanInv'
  <2>1. /\ call'[c].tok = call[c].tok
        /\ Allowance(call[c]) <= Allowance(call[c])'
        /\ (call[c].pc = "rescue" => call[c].runs = 1)'
    BY <1>2, <1>3 DEF GoesOn, Allowance
  <2> QED  BY <1>1, <1>3, <2>1, NoLoanStep
<1>4. ASSUME UNCHANGED treasuryVars PROVE NoLoan
  BY <1>2, <1>4, OtherOperationsLendNothing
<1>5. "release" \notin Unsettled /\ "ended" \notin Unsettled
      /\ "running" \in Unsettled /\ Borrowing \subseteq Unsettled
  BY DEF Unsettled, Borrowing
<1>6. ASSUME Returns(c) PROVE LoanInv'
  <2>1. PICK r \in Result :
          /\ Due(c, r, "topup") \/ Due(c, r, "release")
          /\ UNCHANGED treasuryVars /\ call[c].pc = "running"
    BY <1>6 DEF Returns, Ask, lendingVars
  <2>2. GoesOn(c, "topup") \/ GoesOn(c, "release")
    BY <1>2, <2>1, CallGoesOn
  <2> QED  BY <1>3, <1>4, <1>5, <2>1, <2>2
<1>7. ASSUME ReturnsUncosted(c) \/ FailsAgain(c) PROVE LoanInv'
  <2>1. PICK e : End(c, e) /\ UNCHANGED treasuryVars
    BY <1>7 DEF ReturnsUncosted, FailsAgain, lendingVars
  <2>2. GoesOn(c, "ended")
    BY <1>2, <2>1, CallGoesOn
  <2> QED  BY <1>3, <1>4, <1>5, <2>1, <2>2
<1>8. ASSUME Fails(c) PROVE LoanInv'
  <2>1. PICK e \in Failure :
          /\ Goto(c, "rescue") \/ Bill(c, FailureSpend(c, e), e)
          /\ UNCHANGED treasuryVars /\ call[c].pc = "running" /\ call[c].runs = 1
    BY <1>8 DEF Fails, Ask, lendingVars
  <2>2. GoesOn(c, "rescue") \/ GoesOn(c, "release")
    BY <1>2, <2>1, CallGoesOn
  <2> QED  BY <1>3, <1>4, <1>5, <2>1, <2>2
<1>9. ASSUME Settle(c) PROVE LoanInv'
  <2>1. PICK e : End(c, e)
    BY <1>9 DEF Settle
  <2>2. GoesOn(c, "ended")
    BY <1>2, <2>1, CallGoesOn
  <2>3. call[c].tok \in active /\ call[c].bill \in Nat
    BY <1>9, TokenInHand DEF Settle, Working, GuardInv, TypesOK, CallState
  <2>4. NoLoan
    <3> DEFINE t == call[c].tok
               s == call[c].bill
    <3>1. Release(t, s) /\ t \in active /\ s \in Int
      BY <1>9, <2>3 DEF Settle
    <3> HIDE DEF t, s
    <3> QED  BY <1>2, <3>1, OtherOperationsLendNothing
  <2> QED  BY <1>3, <1>5, <2>2, <2>4
<1>10. ASSUME Borrow(c) PROVE LoanInv'
  <2>1. call[c].pc \in Borrowing
    BY <1>10 DEF Borrow, Borrowing
  <2>2. CASE ReadAvailable(c) /\ UNCHANGED call
    <3>1. GoesOn(c, call[c].pc) /\ UNCHANGED treasuryVars
      BY <2>2 DEF ReadAvailable, GoesOn
    <3> QED  BY <1>2, <1>3, <1>4, <3>1
  <2>3. CASE Fund(c) /\ IF call[c].pc = "rescue" THEN Rescued(c, lend'[c].outcome)
                                                 ELSE ToppedUp(c, lend'[c].outcome)
    BY <1>1, <2>1, <2>3, FundLoans
  <2>4. CASE Refuse(c) /\ IF call[c].pc = "rescue" THEN Rescued(c, lend'[c].outcome)
                                                   ELSE ToppedUp(c, lend'[c].outcome)
    <3>1. lend'[c].outcome = LoanDenied
      <4>1. lend[c] \in Request /\ lend \in [Caller -> Request]
        BY <1>2, <2>1, RequestInHand DEF TypesOK, LendingTypeOK
      <4> QED  BY <2>4, <4>1 DEF Refuse, Request, LoanDenied
    <3>2. \E e : Bill(c, CurrentCeiling(c), e)
      BY <2>4, <3>1 DEF Rescued, ToppedUp, LoanDenied
    <3>3. GoesOn(c, "release")
      BY <1>2, <3>2, CallGoesOn
    <3>4. NoLoan
      <4> DEFINE t == lend[c].tok
                 x == lend[c].extra
      <4>1. t \in DOMAIN token /\ x \in Nat
        BY <2>1, RequestInHand
      <4>2. RecordExtensionDenial(t, x)
        BY <2>4 DEF Refuse
      <4> HIDE DEF t, x
      <4> QED  BY <1>2, <4>1, <4>2, OtherOperationsLendNothing
    <3> QED  BY <1>3, <1>5, <3>3, <3>4
  <2> QED  BY <1>10, <2>2, <2>3, <2>4 DEF Borrow
<1> QED
  BY <1>1, <1>6, <1>7, <1>8, <1>9, <1>10, AcquireLoans DEF GuardStep

(* However often the wrapped function fails and whatever it costs, a call    *)
(* borrows at most once to be rescued and once to settle.                    *)
THEOREM LoansAreBounded == GuardSpec => []LoansPerCall
<1>1. GuardInit => LoanInv
  <2> SUFFICES ASSUME GuardInit PROVE LoanInv
    OBVIOUS
  <2>1. ledger = << >> /\ \A c \in Caller : call[c].pc = "idle" /\ ~HasToken(c)
    BY DEF GuardInit, LendingInit, Init, HasToken
  <2> QED  BY <2>1 DEF LoanInv, EntriesKnown
<1>2. GuardInv /\ LoanInv /\ [GuardNext]_guardVars => LoanInv'
  <2>1. ASSUME GuardInv, LoanInv, UNCHANGED guardVars PROVE LoanInv'
    <3>1. call' = call /\ ledger' = ledger /\ token' = token
      BY <2>1 DEF guardVars, lendingVars, treasuryVars
    <3> QED
      BY <2>1, <3>1
      DEF LoanInv, EntriesKnown, LoansOn, EntriesIn, HasToken, Allowance
  <2> QED  BY <2>1, StepLoans DEF GuardNext
<1>3. GuardInv /\ LoanInv => LoansPerCall
  <2> SUFFICES ASSUME GuardInv, LoanInv, NEW c \in Caller, HasToken(c)
      PROVE  Cardinality(EntriesOf(call[c].tok, {Extended}))
               <= (call[c].runs - 1)
                    + (IF call[c].pc \in {"running", "rescue"} THEN 0 ELSE 1)
    BY DEF LoansPerCall
  <2>1. EntriesOf(call[c].tok, {Extended}) = LoansOn(call[c].tok)
    BY DEF EntriesOf, LoansOn, EntriesIn
  <2>2. call[c].runs \in Int /\ TypeOK
    BY DEF GuardInv, TypesOK, LendingTypeOK, CallState
  <2>3. Cardinality(LoansOn(call[c].tok)) \in Nat
    BY <2>2, CountedLoans
  <2>4. Cardinality(LoansOn(call[c].tok)) <= Allowance(call[c])
    BY DEF LoanInv
  <2> QED  BY <2>1, <2>2, <2>3, <2>4 DEF Allowance, Unsettled, Borrowing
<1> QED  BY <1>1, <1>2, <1>3, GuardInvariant, PTL DEF GuardSpec
=============================================================================
