--------------------------- MODULE TreasuryProofs ---------------------------
(* The treasury's invariants for every budget, every amount and every number *)
(* of operations.  Each is shown for one arbitrary operation (AnyOperation), *)
(* so that the modules that call the treasury reuse it.                      *)
EXTENDS Treasury, MoneyProofs, SequenceTheorems

\* One call of the treasury, for any amount and any reported spend.
AnyOperation ==
  \/ \E x \in Nat : AllocateGranted(x)
  \/ \E x \in Nat : AllocateDenied(x)
  \/ \E t \in active, s \in Int : Release(t, s)
  \/ \E t \in active, x \in Nat : GrantExtension(t, x)
  \/ \E t \in DOMAIN token, x \in Nat : RecordExtensionDenial(t, x)

(* The bounds and small sets of the open system only remove behaviours.      *)
LEMMA NextIsOperation == ASSUME [Next]_treasuryVars
                         PROVE  [AnyOperation]_treasuryVars
<1>1. Amount \subseteq Nat /\ Spend \subseteq Int
  BY TreasuryAssumption
<1>2. \A t, s : Release(t, s) => t \in active
  BY DEF Release
<1>3. \A t, x : GrantExtension(t, x) => t \in active
  BY DEF GrantExtension
<1> QED  BY <1>1, <1>2, <1>3 DEF Next, AnyOperation, Operation
-----------------------------------------------------------------------------
(* The two dictionaries are finite and hold only tokens that exist.          *)
LEMMA Registry ==
  ASSUME TypeOK
  PROVE  /\ DOMAIN token = 1 .. Len(token) /\ Len(token) \in Nat
         /\ IsFiniteSet(active) /\ IsFiniteSet(settled)
         /\ IsFiniteSet(DOMAIN token)
         /\ \A t \in DOMAIN token : token[t] \in AllocationToken
<1>1. DOMAIN token = 1 .. Len(token) /\ Len(token) \in Nat
  BY LenProperties DEF TypeOK
<1>2. IsFiniteSet(DOMAIN token)
  BY <1>1, FS_Interval
<1>3. active \subseteq DOMAIN token /\ settled \subseteq DOMAIN token
  BY DEF TypeOK
<1>4. IsFiniteSet(active) /\ IsFiniteSet(settled)
  BY <1>2, <1>3, FS_Subset
<1>5. \A t \in DOMAIN token : token[t] \in AllocationToken
  BY <1>1, ElementOfSeq DEF TypeOK
<1> QED  BY <1>1, <1>2, <1>4, <1>5

LEMMA EventTypes ==
  /\ Granted \in LedgerEventType /\ Denied \in LedgerEventType
  /\ Released \in LedgerEventType /\ Extended \in LedgerEventType
  /\ Refused \in LedgerEventType
BY DEF LedgerEventType

(* An audit entry of the right type keeps the log a log.                     *)
LEMMA RecordType ==
  ASSUME TypeOK, committed' \in Int, settledSpent' \in Int,
         NEW event \in LedgerEventType,
         NEW t \in Nat, NEW amount \in Nat, NEW yielded \in Nat,
         Record(event, t, amount, yielded)
  PROVE  /\ ledger' \in Seq(LedgerEntry)
         /\ Len(ledger') = Len(ledger) + 1
         /\ \A i \in 1 .. Len(ledger) : ledger'[i] = ledger[i]
         /\ ledger'[Len(ledger) + 1]
              = [event |-> event, token |-> t, amount |-> amount,
                 yielded |-> yielded, available |-> Available']
<1> DEFINE entry == [event |-> event, token |-> t, amount |-> amount,
                     yielded |-> yielded, available |-> Available']
<1>1. Available' \in Int
  BY TreasuryAssumption DEF Available
<1>2. entry \in LedgerEntry
  BY <1>1 DEF LedgerEntry
<1>3. ledger' = Append(ledger, entry)
  BY DEF Record
<1>4. ledger \in Seq(LedgerEntry)
  BY DEF TypeOK
<1> HIDE DEF entry
<1>5. /\ ledger' \in Seq(LedgerEntry)
      /\ Len(ledger') = Len(ledger) + 1
      /\ \A i \in 1 .. Len(ledger) : ledger'[i] = ledger[i]
      /\ ledger'[Len(ledger) + 1] = entry
  BY <1>2, <1>3, <1>4, AppendProperties
<1> QED  BY <1>5 DEF entry

(* What a release books lies between zero and the ceiling.                   *)
LEMMA ClampedRange ==
  ASSUME TypeOK, NEW t \in DOMAIN token, NEW s \in Int
  PROVE  /\ Clamped(t, s) \in Nat /\ Clamped(t, s) <= token[t].ceiling
         /\ token[t].ceiling - Clamped(t, s) \in Nat
<1>1. token[t].ceiling \in Nat
  BY Registry DEF AllocationToken
<1> QED  BY <1>1 DEF Clamped, Smaller, Larger
-----------------------------------------------------------------------------
(* What each operation does to the tokens, in the form the proofs use.       *)
LEMMA GrantedEffect ==
  ASSUME TypeOK, NEW x \in Nat, AllocateGranted(x),
         NEW t, t = Len(token) + 1
  PROVE  /\ token' \in Seq(AllocationToken) /\ ledger' \in Seq(LedgerEntry)
         /\ DOMAIN token' = DOMAIN token \cup {t} /\ t \notin DOMAIN token
         /\ \A u \in DOMAIN token : token'[u] = token[u]
         /\ token'[t] = [initial |-> x, ceiling |-> x, spent |-> 0,
                         extensions |-> 0, status |-> "active"]
         /\ TypeOK'
<1> DEFINE new == [initial |-> x, ceiling |-> x, spent |-> 0,
                   extensions |-> 0, status |-> "active"]
<1>1. new \in AllocationToken
  BY DEF AllocationToken
<1>2. token \in Seq(AllocationToken) /\ token' = Append(token, new)
  BY DEF TypeOK, AllocateGranted
<1>3. /\ token' \in Seq(AllocationToken)
      /\ Len(token') = Len(token) + 1
      /\ \A u \in 1 .. Len(token) : token'[u] = token[u]
      /\ token'[t] = new
  <2> HIDE DEF new
  <2> QED  BY <1>1, <1>2, AppendProperties
<1>4. /\ DOMAIN token = 1 .. Len(token) /\ Len(token) \in Nat
      /\ DOMAIN token' = 1 .. Len(token')
  BY <1>2, <1>3, LenProperties
<1>5. DOMAIN token' = DOMAIN token \cup {t} /\ t \notin DOMAIN token
  BY <1>3, <1>4
<1>6. committed' \in Int /\ settledSpent' \in Int
  BY DEF AllocateGranted, TypeOK
<1>7. ledger' \in Seq(LedgerEntry)
  <2>1. Record(Granted, t, x, 0) /\ t \in Nat
    BY <1>4 DEF AllocateGranted
  <2> QED  BY <1>6, <2>1, RecordType, EventTypes
<1>8. active' \cup settled' = DOMAIN token' /\ active' \cap settled' = {}
  BY <1>5 DEF AllocateGranted, TypeOK
<1>9. TypeOK'
  BY <1>3, <1>6, <1>7, <1>8 DEF TypeOK
<1> QED  BY <1>3, <1>4, <1>5, <1>7, <1>9

LEMMA ReleaseEffect ==
  ASSUME TypeOK, NEW t \in active, NEW s \in Int, Release(t, s)
  PROVE  /\ token' \in Seq(AllocationToken) /\ ledger' \in Seq(LedgerEntry)
         /\ t \in DOMAIN token /\ DOMAIN token' = DOMAIN token
         /\ \A u \in DOMAIN token \ {t} : token'[u] = token[u]
         /\ token'[t] = [token[t] EXCEPT !.spent = Clamped(t, s),
                                         !.status = "settled"]
         /\ TypeOK'
<1> DEFINE new == [token[t] EXCEPT !.spent = Clamped(t, s),
                                   !.status = "settled"]
<1>1. t \in DOMAIN token
  BY DEF TypeOK
<1>2. Clamped(t, s) \in Nat /\ token[t].ceiling - Clamped(t, s) \in Nat
  BY <1>1, ClampedRange
<1>3. new \in AllocationToken
  BY <1>1, <1>2, Registry DEF AllocationToken
<1>4. token' = [token EXCEPT ![t] = new]
  BY DEF Release
<1>5. /\ token \in Seq(AllocationToken)
      /\ DOMAIN token = 1 .. Len(token) /\ Len(token) \in Nat
  BY Registry DEF TypeOK
<1>6. /\ token' \in Seq(AllocationToken)
      /\ Len(token') = Len(token)
      /\ \A u \in 1 .. Len(token) :
           token'[u] = IF u = t THEN new ELSE token[u]
  <2> HIDE DEF new
  <2> QED  BY <1>1, <1>3, <1>4, <1>5, ExceptSeq
<1>7. DOMAIN token' = DOMAIN token
  BY <1>4
<1>8. committed' \in Int /\ settledSpent' \in Int
  <2>1. token[t].ceiling \in Nat
    BY <1>1, Registry DEF AllocationToken
  <2> QED  BY <1>2, <2>1 DEF Release, TypeOK
<1>9. ledger' \in Seq(LedgerEntry)
  <2>1. Record(Released, t, Clamped(t, s), token[t].ceiling - Clamped(t, s))
    BY DEF Release
  <2>2. t \in Nat
    BY <1>1, <1>5
  <2> QED  BY <1>2, <1>8, <2>1, <2>2, RecordType, EventTypes
<1>10. active' \cup settled' = DOMAIN token' /\ active' \cap settled' = {}
  BY <1>7 DEF Release, TypeOK
<1>11. TypeOK'
  BY <1>6, <1>8, <1>9, <1>10 DEF TypeOK
<1> QED  BY <1>1, <1>5, <1>6, <1>7, <1>9, <1>11

LEMMA ExtensionEffect ==
  ASSUME TypeOK, NEW t \in active, NEW x \in Nat, GrantExtension(t, x)
  PROVE  /\ token' \in Seq(AllocationToken) /\ ledger' \in Seq(LedgerEntry)
         /\ t \in DOMAIN token /\ DOMAIN token' = DOMAIN token
         /\ \A u \in DOMAIN token \ {t} : token'[u] = token[u]
         /\ token'[t] = [token[t] EXCEPT !.ceiling = @ + x,
                                         !.extensions = @ + x]
         /\ TypeOK'
<1> DEFINE new == [token[t] EXCEPT !.ceiling = @ + x, !.extensions = @ + x]
<1>1. t \in DOMAIN token
  BY DEF TypeOK
<1>2. new \in AllocationToken
  <2>1. token[t] \in AllocationToken
    BY <1>1, Registry
  <2>2. /\ token[t].ceiling \in Nat /\ token[t].extensions \in Nat
        /\ token[t].ceiling + x \in Nat /\ token[t].extensions + x \in Nat
    BY <2>1 DEF AllocationToken
  <2>3. \A c, e \in Nat :
          [token[t] EXCEPT !.ceiling = c, !.extensions = e] \in AllocationToken
    BY <2>1 DEF AllocationToken
  <2> QED  BY <2>2, <2>3
<1>3. token' = [token EXCEPT ![t] = new]
  BY DEF GrantExtension
<1>4. /\ token \in Seq(AllocationToken)
      /\ DOMAIN token = 1 .. Len(token) /\ Len(token) \in Nat
  BY Registry DEF TypeOK
<1>5. /\ token' \in Seq(AllocationToken)
      /\ Len(token') = Len(token)
      /\ \A u \in 1 .. Len(token) :
           token'[u] = IF u = t THEN new ELSE token[u]
  <2> HIDE DEF new
  <2> QED  BY <1>1, <1>2, <1>3, <1>4, ExceptSeq
<1>6. DOMAIN token' = DOMAIN token
  BY <1>3
<1>7. committed' \in Int /\ settledSpent' \in Int
  BY DEF GrantExtension, TypeOK
<1>8. ledger' \in Seq(LedgerEntry)
  <2>1. t \in Nat
    BY <1>1, <1>4
  <2> QED  BY <1>7, <2>1, RecordType, EventTypes DEF GrantExtension
<1>9. active' \cup settled' = DOMAIN token' /\ active' \cap settled' = {}
  BY <1>6 DEF GrantExtension, TypeOK
<1>10. TypeOK'
  BY <1>5, <1>7, <1>8, <1>9 DEF TypeOK
<1> QED  BY <1>1, <1>4, <1>5, <1>6, <1>8, <1>10

(* A denial of either kind writes its entry and touches nothing else.        *)
LEMMA DenialEffect ==
  ASSUME TypeOK,
         \/ \E x \in Nat : AllocateDenied(x)
         \/ \E t \in DOMAIN token, x \in Nat : RecordExtensionDenial(t, x)
  PROVE  UNCHANGED accounts /\ TypeOK'
<1>1. ASSUME NEW x \in Nat, AllocateDenied(x)
      PROVE  UNCHANGED accounts /\ TypeOK'
  <2>1. committed' \in Int /\ settledSpent' \in Int
    BY <1>1 DEF AllocateDenied, accounts, TypeOK
  <2>2. NoToken \in Nat
    BY DEF NoToken
  <2>3. ledger' \in Seq(LedgerEntry)
    BY <1>1, <2>1, <2>2, RecordType, EventTypes DEF AllocateDenied
  <2> QED  BY <1>1, <2>3 DEF AllocateDenied, accounts, TypeOK
<1>2. ASSUME NEW t \in DOMAIN token, NEW x \in Nat, RecordExtensionDenial(t, x)
      PROVE  UNCHANGED accounts /\ TypeOK'
  <2>1. committed' \in Int /\ settledSpent' \in Int
    BY <1>2 DEF RecordExtensionDenial, accounts, TypeOK
  <2>2. t \in Nat
    BY Registry
  <2>3. ledger' \in Seq(LedgerEntry)
    BY <1>2, <2>1, <2>2, RecordType, EventTypes DEF RecordExtensionDenial
  <2> QED  BY <1>2, <2>3 DEF RecordExtensionDenial, accounts, TypeOK
<1> QED  BY <1>1, <1>2

(* A step that changes nothing keeps every variable's type.                  *)
LEMMA StutterType == ASSUME TypeOK, UNCHANGED treasuryVars PROVE TypeOK'
BY DEF TypeOK, treasuryVars

(* Type correctness is kept by any call on the treasury.                     *)
LEMMA TypeStep == ASSUME TypeOK, [AnyOperation]_treasuryVars PROVE TypeOK'
<1>1. ASSUME NEW x \in Nat, AllocateGranted(x) PROVE TypeOK'
  BY <1>1, GrantedEffect
<1>2. ASSUME NEW t \in active, NEW s \in Int, Release(t, s) PROVE TypeOK'
  BY <1>2, ReleaseEffect
<1>3. ASSUME NEW t \in active, NEW x \in Nat, GrantExtension(t, x) PROVE TypeOK'
  BY <1>3, ExtensionEffect
<1> QED  BY <1>1, <1>2, <1>3, DenialEffect, StutterType DEF AnyOperation

(* The empty treasury has the right types.                                   *)
LEMMA TypeInit == Init => TypeOK
<1> SUFFICES ASSUME Init PROVE TypeOK
  OBVIOUS
<1>1. DOMAIN token = {}
  BY DEF Init
<1> QED  BY <1>1, EmptySeq DEF Init, TypeOK

(* Every variable keeps its type, and the dictionaries partition the tokens. *)
THEOREM TypeCorrect == Spec => []TypeOK
<1>1. TypeOK /\ [Next]_treasuryVars => TypeOK'
  BY TypeStep, NextIsOperation
<1> QED  BY <1>1, TypeInit, PTL DEF Spec
-----------------------------------------------------------------------------
(* The amounts a sum runs over are naturals.                                 *)
LEMMA AmountsType ==
  ASSUME TypeOK
  PROVE  \A t \in DOMAIN token :
           /\ Ceilings[t] = token[t].ceiling /\ Ceilings[t] \in Nat
           /\ Spends[t] = token[t].spent /\ Spends[t] \in Nat
           /\ Extensions[t] = token[t].extensions /\ Extensions[t] \in Nat
BY Registry DEF Ceilings, Spends, Extensions, AllocationToken

(* The counters equal the sums after any operation that leaves the accounts. *)
LEMMA ConservationSame ==
  ASSUME Conservation, UNCHANGED accounts PROVE Conservation'
BY DEF Conservation, Ceilings, Spends, accounts

LEMMA ConservationGranted ==
  ASSUME TypeOK, Conservation, NEW x \in Nat, AllocateGranted(x)
  PROVE  Conservation'
<1> DEFINE t == Len(token) + 1
<1>1. /\ DOMAIN token' = DOMAIN token \cup {t} /\ t \notin DOMAIN token
      /\ \A u \in DOMAIN token : token'[u] = token[u]
      /\ token'[t].ceiling = x
      /\ TypeOK'
  <2> HIDE DEF t
  <2>1. t = Len(token) + 1
    BY DEF t
  <2>2. /\ DOMAIN token' = DOMAIN token \cup {t} /\ t \notin DOMAIN token
        /\ \A u \in DOMAIN token : token'[u] = token[u]
        /\ token'[t] = [initial |-> x, ceiling |-> x, spent |-> 0,
                        extensions |-> 0, status |-> "active"]
        /\ TypeOK'
    BY <2>1, GrantedEffect
  <2> QED  BY <2>2
<1>2. /\ active' = active \cup {t} /\ settled' = settled
      /\ committed' = committed + x /\ settledSpent' = settledSpent
  BY DEF AllocateGranted
<1>3. active \subseteq DOMAIN token /\ settled \subseteq DOMAIN token
  BY DEF TypeOK
<1> HIDE DEF t
<1>4. \A u \in DOMAIN token : Ceilings'[u] = Ceilings[u] /\ Spends'[u] = Spends[u]
  BY <1>1 DEF Ceilings, Spends
<1>5. Ceilings'[t] = x /\ \A u \in active \cup {t} : Ceilings'[u] \in Nat
  BY <1>1, <1>3, AmountsType DEF Ceilings, AllocationToken
<1>6. SumOver(Ceilings', active \cup {t}) = SumOver(Ceilings', active) + x
  BY <1>1, <1>3, <1>5, Registry, SumAdd
<1>7. SumOver(Ceilings', active) = SumOver(Ceilings, active)
  BY <1>3, <1>4, SumSame
<1>8. SumOver(Spends', settled) = SumOver(Spends, settled)
  BY <1>3, <1>4, SumSame
<1> QED  BY <1>2, <1>6, <1>7, <1>8 DEF Conservation

LEMMA ConservationReleased ==
  ASSUME TypeOK, Conservation, NEW t \in active, NEW s \in Int, Release(t, s)
  PROVE  Conservation'
<1> DEFINE spend == Clamped(t, s)
<1>1. /\ t \in DOMAIN token /\ DOMAIN token' = DOMAIN token
      /\ \A u \in DOMAIN token \ {t} : token'[u] = token[u]
      /\ token'[t] = [token[t] EXCEPT !.spent = spend, !.status = "settled"]
      /\ TypeOK'
  BY ReleaseEffect
<1>2. /\ active' = active \ {t} /\ settled' = settled \cup {t}
      /\ committed' = committed - token[t].ceiling
      /\ settledSpent' = settledSpent + spend
  BY DEF Release
<1>3. /\ active \subseteq DOMAIN token /\ settled \subseteq DOMAIN token
      /\ t \notin settled
  BY DEF TypeOK
<1> HIDE DEF spend
<1>4. \A u \in DOMAIN token \ {t} :
        Ceilings'[u] = Ceilings[u] /\ Spends'[u] = Spends[u]
  BY <1>1 DEF Ceilings, Spends
<1>5. Spends'[t] = spend
  <2>1. token[t] \in AllocationToken
    BY <1>1, Registry
  <2>2. token'[t].spent = spend
    BY <1>1, <2>1 DEF AllocationToken
  <2> QED  BY <1>1, <2>2 DEF Spends
<1>6. SumOver(Ceilings', active \ {t}) = SumOver(Ceilings, active \ {t})
  BY <1>3, <1>4, SumSame
<1>7. SumOver(Ceilings, active \ {t}) = SumOver(Ceilings, active) - Ceilings[t]
  BY <1>3, AmountsType, Registry, SumRemove
<1>8. SumOver(Spends', settled \cup {t}) = SumOver(Spends', settled) + Spends'[t]
  <2>1. \A u \in settled \cup {t} : Spends'[u] \in Nat
    BY <1>1, <1>3, <1>4, <1>5, AmountsType, ClampedRange DEF spend
  <2> QED  BY <1>3, <2>1, Registry, SumAdd
<1>9. SumOver(Spends', settled) = SumOver(Spends, settled)
  BY <1>3, <1>4, SumSame
<1>10. Ceilings[t] = token[t].ceiling
  BY <1>1 DEF Ceilings
<1> QED  BY <1>2, <1>5, <1>6, <1>7, <1>8, <1>9, <1>10 DEF Conservation

LEMMA ConservationExtended ==
  ASSUME TypeOK, Conservation, NEW t \in active, NEW x \in Nat,
         GrantExtension(t, x)
  PROVE  Conservation'
<1>1. /\ t \in DOMAIN token /\ DOMAIN token' = DOMAIN token
      /\ \A u \in DOMAIN token \ {t} : token'[u] = token[u]
      /\ token'[t] = [token[t] EXCEPT !.ceiling = @ + x, !.extensions = @ + x]
      /\ TypeOK'
  BY ExtensionEffect
<1>2. /\ active' = active /\ settled' = settled
      /\ committed' = committed + x /\ settledSpent' = settledSpent
  BY DEF GrantExtension
<1>3. /\ active \subseteq DOMAIN token /\ settled \subseteq DOMAIN token
      /\ t \notin settled
  BY DEF TypeOK
<1>4. \A u \in DOMAIN token \ {t} :
        Ceilings'[u] = Ceilings[u] /\ Spends'[u] = Spends[u]
  BY <1>1 DEF Ceilings, Spends
<1>5. Ceilings[t] = token[t].ceiling /\ Ceilings'[t] = token[t].ceiling + x
  <2>1. token[t] \in AllocationToken
    BY <1>1, Registry
  <2>2. token'[t].ceiling = token[t].ceiling + x
    BY <1>1, <2>1 DEF AllocationToken
  <2> QED  BY <1>1, <2>2 DEF Ceilings
<1>6. SumOver(Ceilings', active)
        = SumOver(Ceilings, active) - Ceilings[t] + Ceilings'[t]
  <2>1. \A u \in active : Ceilings[u] \in Nat /\ Ceilings'[u] \in Nat
    BY <1>1, <1>3, <1>4, <1>5, AmountsType
  <2> QED  BY <1>3, <1>4, <2>1, Registry, SumUpdate
<1>7. SumOver(Spends', settled) = SumOver(Spends, settled)
  BY <1>3, <1>4, SumSame
<1>8. SumOver(Ceilings, active) \in Nat /\ Ceilings[t] \in Nat
  BY <1>1, <1>3, AmountsType, Registry, SumNat
<1>9. SumOver(Ceilings', active) = SumOver(Ceilings, active) + x
  BY <1>5, <1>6, <1>8
<1> QED  BY <1>2, <1>7, <1>9 DEF Conservation

(* Conservation is kept by any call on the treasury.                         *)
LEMMA ConservationStep ==
  ASSUME TypeOK, Conservation, [AnyOperation]_treasuryVars
  PROVE  Conservation'
<1>1. UNCHANGED treasuryVars => UNCHANGED accounts
  BY DEF treasuryVars, accounts
<1> QED  BY <1>1, ConservationGranted, ConservationReleased,
            ConservationExtended, ConservationSame, DenialEffect
         DEF AnyOperation

LEMMA ConservationInit == Init => Conservation
BY SumEmpty DEF Init, Conservation

(* The committed and spent counters are at all times the sums they stand     *)
(* for: no sequence of calls loses money from the pool or makes any up.      *)
THEOREM MoneyConserved == Spec => []Conservation
<1>1. TypeOK /\ Conservation /\ [Next]_treasuryVars => Conservation'
  BY ConservationStep, NextIsOperation
<1> QED  BY <1>1, ConservationInit, TypeCorrect, PTL DEF Spec
-----------------------------------------------------------------------------
LEMMA TokenBooksStep ==
  ASSUME TypeOK, TokenBooks, [AnyOperation]_treasuryVars
  PROVE  TokenBooks'
<1>1. ASSUME NEW x \in Nat, AllocateGranted(x)
      PROVE  TokenBooks'
  <2> DEFINE t == Len(token) + 1
  <2>1. /\ DOMAIN token' = DOMAIN token \cup {t} /\ t \notin DOMAIN token
        /\ \A u \in DOMAIN token : token'[u] = token[u]
        /\ token'[t] = [initial |-> x, ceiling |-> x, spent |-> 0,
                        extensions |-> 0, status |-> "active"]
    BY <1>1, GrantedEffect
  <2>2. active' = active \cup {t}
    BY <1>1 DEF AllocateGranted
  <2> HIDE DEF t
  <2>3. /\ token'[t].spent <= token'[t].ceiling
        /\ token'[t].ceiling = token'[t].initial + token'[t].extensions
        /\ token'[t].status = "active"
    BY <2>1
  <2> QED  BY <2>1, <2>2, <2>3 DEF TokenBooks
<1>2. ASSUME NEW t \in active, NEW s \in Int, Release(t, s)
      PROVE  TokenBooks'
  <2>1. /\ t \in DOMAIN token /\ DOMAIN token' = DOMAIN token
        /\ \A u \in DOMAIN token \ {t} : token'[u] = token[u]
        /\ token'[t] = [token[t] EXCEPT !.spent = Clamped(t, s),
                                        !.status = "settled"]
    BY <1>2, ReleaseEffect
  <2>2. Clamped(t, s) <= token[t].ceiling /\ token[t] \in AllocationToken
    BY <2>1, ClampedRange, Registry
  <2>3. /\ token'[t].spent = Clamped(t, s)
        /\ token'[t].ceiling = token[t].ceiling
        /\ token'[t].initial = token[t].initial
        /\ token'[t].extensions = token[t].extensions
        /\ token'[t].status = "settled"
    BY <2>1, <2>2 DEF AllocationToken
  <2>4. active' = active \ {t}
    BY <1>2 DEF Release
  <2>5. /\ token'[t].spent <= token'[t].ceiling
        /\ token'[t].ceiling = token'[t].initial + token'[t].extensions
    BY <2>1, <2>2, <2>3 DEF TokenBooks
  <2>6. SUFFICES ASSUME NEW u \in DOMAIN token
                 PROVE  /\ token'[u].spent <= token'[u].ceiling
                        /\ token'[u].ceiling
                             = token'[u].initial + token'[u].extensions
                        /\ token'[u].status
                             = IF u \in active' THEN "active" ELSE "settled"
    BY <2>1 DEF TokenBooks
  <2>7. CASE u = t
    BY <2>3, <2>4, <2>5, <2>7
  <2>8. CASE u # t
    BY <2>1, <2>4, <2>8 DEF TokenBooks
  <2> QED  BY <2>7, <2>8
<1>3. ASSUME NEW t \in active, NEW x \in Nat, GrantExtension(t, x)
      PROVE  TokenBooks'
  <2>1. /\ t \in DOMAIN token /\ DOMAIN token' = DOMAIN token
        /\ \A u \in DOMAIN token \ {t} : token'[u] = token[u]
        /\ token'[t] = [token[t] EXCEPT !.ceiling = @ + x, !.extensions = @ + x]
    BY <1>3, ExtensionEffect
  <2>2. token[t] \in AllocationToken
    BY <2>1, Registry
  <2>3. /\ token'[t].spent = token[t].spent
        /\ token'[t].ceiling = token[t].ceiling + x
        /\ token'[t].initial = token[t].initial
        /\ token'[t].extensions = token[t].extensions + x
        /\ token'[t].status = token[t].status
    BY <2>1, <2>2 DEF AllocationToken
  <2>4. /\ token[t].spent \in Nat /\ token[t].ceiling \in Nat
        /\ token[t].initial \in Nat /\ token[t].extensions \in Nat
    BY <2>2 DEF AllocationToken
  <2>5. active' = active
    BY <1>3 DEF GrantExtension
  <2>6. /\ token'[t].spent <= token'[t].ceiling
        /\ token'[t].ceiling = token'[t].initial + token'[t].extensions
    BY <2>1, <2>3, <2>4 DEF TokenBooks
  <2>7. SUFFICES ASSUME NEW u \in DOMAIN token
                 PROVE  /\ token'[u].spent <= token'[u].ceiling
                        /\ token'[u].ceiling
                             = token'[u].initial + token'[u].extensions
                        /\ token'[u].status
                             = IF u \in active' THEN "active" ELSE "settled"
    BY <2>1 DEF TokenBooks
  <2>8. CASE u = t
    BY <2>1, <2>3, <2>5, <2>6, <2>8 DEF TokenBooks
  <2>9. CASE u # t
    BY <2>1, <2>5, <2>9 DEF TokenBooks
  <2> QED  BY <2>8, <2>9
<1>4. ASSUME UNCHANGED accounts PROVE TokenBooks'
  BY <1>4 DEF TokenBooks, accounts
<1>5. UNCHANGED treasuryVars => UNCHANGED accounts
  BY DEF treasuryVars, accounts
<1> QED  BY <1>1, <1>2, <1>3, <1>4, <1>5, DenialEffect
         DEF AnyOperation

(* No token ever costs more than its ceiling, and its ceiling is exactly     *)
(* what was granted and lent to it.                                          *)
THEOREM TokensWithinCeiling == Spec => []TokenBooks
<1>1. Init => TokenBooks
  BY DEF Init, TokenBooks
<1>2. TypeOK /\ TokenBooks /\ [Next]_treasuryVars => TokenBooks'
  BY TokenBooksStep, NextIsOperation
<1> QED  BY <1>1, <1>2, TypeCorrect, PTL DEF Spec
-----------------------------------------------------------------------------
LEMMA LentNat == TypeOK => Lent \in Nat
BY AmountsType, Registry, SumNat DEF Lent

LEMMA LentNatNext == (TypeOK => Lent \in Nat)'
BY LentNat, PTL

\* The arithmetic of the balance, for the provers.
LEMMA Covered ==
  /\ \A a \in Int, l \in Nat : a >= 0 => a + l >= 0
  /\ \A a, b \in Int, l \in Nat : b >= a /\ a + l >= 0 => b + l >= 0
  /\ \A a \in Int, l, x \in Nat : a + l >= 0 => (a - x) + (l + x) >= 0
OBVIOUS

(* The balance never falls without a grant that fitted or a loan.            *)
LEMMA OverdraftStep ==
  ASSUME TypeOK, OverdraftIsLent, [AnyOperation]_treasuryVars
  PROVE  OverdraftIsLent'
<1>1. /\ Lent \in Nat /\ Lent' \in Nat /\ Available \in Int
      /\ committed \in Int /\ settledSpent \in Int
  <2>1. Lent' \in Nat
    BY LentNatNext, TypeStep
  <2> QED  BY <2>1, LentNat, TreasuryAssumption DEF TypeOK, Available
<1>2. ASSUME NEW x \in Nat, AllocateGranted(x)
      PROVE  OverdraftIsLent'
  <2>1. Available' >= 0
    BY <1>1, <1>2, TreasuryAssumption DEF AllocateGranted, CanAllocate, Available
  <2>2. Available' \in Int
    BY <1>1, <1>2, TreasuryAssumption DEF AllocateGranted, Available
  <2> QED  BY <1>1, <2>1, <2>2, Covered DEF OverdraftIsLent
<1>3. ASSUME NEW t \in active, NEW s \in Int, Release(t, s)
      PROVE  OverdraftIsLent'
  <2>1. /\ t \in DOMAIN token /\ DOMAIN token' = DOMAIN token
        /\ \A u \in DOMAIN token \ {t} : token'[u] = token[u]
        /\ token'[t] = [token[t] EXCEPT !.spent = Clamped(t, s),
                                        !.status = "settled"]
    BY <1>3, ReleaseEffect
  <2>2. token[t] \in AllocationToken /\ token'[t].extensions = token[t].extensions
    BY <2>1, Registry DEF AllocationToken
  <2>3. \A u \in DOMAIN token : Extensions'[u] = Extensions[u]
    BY <2>1, <2>2 DEF Extensions
  <2>4. Lent' = Lent
    BY <2>1, <2>3, SumSame DEF Lent
  <2>5. Available' >= Available /\ Available' \in Int
    <3>1. /\ Clamped(t, s) \in Nat /\ Clamped(t, s) <= token[t].ceiling
          /\ token[t].ceiling \in Nat
      BY <2>1, <2>2, ClampedRange DEF AllocationToken
    <3>2. /\ committed' = committed - token[t].ceiling
          /\ settledSpent' = settledSpent + Clamped(t, s)
      BY <1>3 DEF Release
    <3> QED  BY <1>1, <3>1, <3>2, TreasuryAssumption DEF Available
  <2> QED  BY <1>1, <2>4, <2>5, Covered DEF OverdraftIsLent
<1>4. ASSUME NEW t \in active, NEW x \in Nat, GrantExtension(t, x)
      PROVE  OverdraftIsLent'
  <2>1. /\ t \in DOMAIN token /\ DOMAIN token' = DOMAIN token
        /\ \A u \in DOMAIN token \ {t} : token'[u] = token[u]
        /\ token'[t] = [token[t] EXCEPT !.ceiling = @ + x, !.extensions = @ + x]
    BY <1>4, ExtensionEffect
  <2>2. token[t] \in AllocationToken
    BY <2>1, Registry
  <2>3. token'[t].extensions = token[t].extensions + x
    BY <2>1, <2>2 DEF AllocationToken
  <2>4. /\ \A u \in DOMAIN token \ {t} : Extensions'[u] = Extensions[u]
        /\ Extensions[t] \in Nat /\ Extensions'[t] = Extensions[t] + x
    BY <2>1, <2>2, <2>3 DEF Extensions, AllocationToken
  <2>5. \A u \in DOMAIN token : Extensions[u] \in Nat /\ Extensions'[u] \in Nat
    BY <2>4, AmountsType
  <2>6. SumOver(Extensions', DOMAIN token) = Lent - Extensions[t] + Extensions'[t]
    <3> DEFINE all == DOMAIN token
    <3>1. /\ IsFiniteSet(all) /\ t \in all
          /\ \A u \in all : Extensions[u] \in Nat /\ Extensions'[u] \in Nat
          /\ \A u \in all \ {t} : Extensions'[u] = Extensions[u]
      BY <2>1, <2>4, <2>5, Registry
    <3> HIDE DEF all
    <3>2. SumOver(Extensions', all)
            = SumOver(Extensions, all) - Extensions[t] + Extensions'[t]
      BY <3>1, SumUpdate
    <3> QED  BY <3>2 DEF all, Lent
  <2>7. Lent' = Lent + x
    <3>1. Lent' = SumOver(Extensions', DOMAIN token')
      BY DEF Lent
    <3>2. Lent' = Lent - Extensions[t] + Extensions'[t]
      BY <2>1, <2>6, <3>1
    <3> QED  BY <1>1, <2>4, <3>2
  <2>8. Available' = Available - x
    BY <1>1, <1>4, TreasuryAssumption DEF GrantExtension, Available
  <2> QED  BY <1>1, <2>7, <2>8 DEF OverdraftIsLent
<1>5. ASSUME UNCHANGED accounts PROVE OverdraftIsLent'
  BY <1>5 DEF OverdraftIsLent, Lent, Available, Extensions, accounts
<1>6. UNCHANGED treasuryVars => UNCHANGED accounts
  BY DEF treasuryVars, accounts
<1> QED  BY <1>2, <1>3, <1>4, <1>5, <1>6, DenialEffect
         DEF AnyOperation

(* An allocation never overdraws the session: it is short of at most what    *)
(* the extensions Lent out.                                                  *)
THEOREM OnlyLoansOverdraw == Spec => []OverdraftIsLent
<1>1. Init => OverdraftIsLent
  <2> SUFFICES ASSUME Init PROVE OverdraftIsLent
    OBVIOUS
  <2>1. DOMAIN token = {} /\ Available = TotalBudget
    BY TreasuryAssumption DEF Init, Available
  <2>2. Lent = 0
    BY <2>1, SumEmpty DEF Lent
  <2> QED  BY <2>1, <2>2, TreasuryAssumption DEF OverdraftIsLent
<1>2. TypeOK /\ OverdraftIsLent /\ [Next]_treasuryVars => OverdraftIsLent'
  BY OverdraftStep, NextIsOperation
<1> QED  BY <1>1, <1>2, TypeCorrect, PTL DEF Spec
-----------------------------------------------------------------------------
\* What an operation that logs this entry does to the balance.
Change(event, amount, yielded) ==
  IF event \in {Granted, Extended} THEN -amount
  ELSE IF event = Released THEN yielded ELSE 0

(* Every operation logs one entry, and the entry says what happened to the   *)
(* balance.                                                                  *)
LEMMA OperationIsLogged ==
  ASSUME TypeOK, AnyOperation
  PROVE  \E event \in LedgerEventType, t, amount, yielded \in Nat :
           /\ Record(event, t, amount, yielded)
           /\ committed' \in Int /\ settledSpent' \in Int
           /\ TotalBudget - committed' - settledSpent'
                = Available + Change(event, amount, yielded)
<1> DEFINE Logged(event, t, amount, yielded) ==
             /\ Record(event, t, amount, yielded)
             /\ committed' \in Int /\ settledSpent' \in Int
             /\ TotalBudget - committed' - settledSpent'
                  = Available + Change(event, amount, yielded)
<1>1. \A x, y \in Nat :
        /\ Change(Granted, x, y) = -x /\ Change(Extended, x, y) = -x
        /\ Change(Released, x, y) = y
        /\ Change(Denied, x, y) = 0 /\ Change(Refused, x, y) = 0
  BY DEF Change, Granted, Extended, Released, Denied, Refused
<1>3. committed \in Int /\ settledSpent \in Int /\ TotalBudget \in Int
  BY TreasuryAssumption DEF TypeOK
<1>4. ASSUME NEW x \in Nat, AllocateGranted(x)
      PROVE  Len(token) + 1 \in Nat /\ Logged(Granted, Len(token) + 1, x, 0)
  <2>1. /\ committed' = committed + x /\ settledSpent' = settledSpent
        /\ Len(token) + 1 \in Nat /\ Record(Granted, Len(token) + 1, x, 0)
    BY <1>4, Registry DEF AllocateGranted
  <2> QED  BY <1>1, <1>3, <2>1 DEF Available
<1>5. ASSUME NEW t \in active, NEW s \in Int, Release(t, s)
      PROVE  /\ t \in Nat /\ Clamped(t, s) \in Nat
             /\ token[t].ceiling - Clamped(t, s) \in Nat
             /\ Logged(Released, t, Clamped(t, s),
                       token[t].ceiling - Clamped(t, s))
  <2>1. t \in DOMAIN token /\ t \in Nat
    BY Registry DEF TypeOK
  <2>2. /\ Clamped(t, s) \in Nat /\ token[t].ceiling - Clamped(t, s) \in Nat
        /\ token[t].ceiling \in Nat
    BY <2>1, ClampedRange, Registry DEF AllocationToken
  <2>3. /\ committed' = committed - token[t].ceiling
        /\ settledSpent' = settledSpent + Clamped(t, s)
        /\ Record(Released, t, Clamped(t, s), token[t].ceiling - Clamped(t, s))
    BY <1>5 DEF Release
  <2>4. Change(Released, Clamped(t, s), token[t].ceiling - Clamped(t, s))
          = token[t].ceiling - Clamped(t, s)
    BY <1>1, <2>2
  <2>5. \A c, k \in Nat : TotalBudget - (committed - c) - (settledSpent + k)
                            = (TotalBudget - committed - settledSpent) + (c - k)
    BY <1>3
  <2>6. committed' \in Int /\ settledSpent' \in Int
    BY <1>3, <2>2, <2>3
  <2> QED  BY <2>1, <2>2, <2>3, <2>4, <2>5, <2>6 DEF Available
<1>6. ASSUME NEW t \in active, NEW x \in Nat, GrantExtension(t, x)
      PROVE  t \in Nat /\ Logged(Extended, t, x, 0)
  <2>1. t \in Nat
    BY Registry DEF TypeOK
  <2>2. /\ committed' = committed + x /\ settledSpent' = settledSpent
        /\ Record(Extended, t, x, 0)
    BY <1>6 DEF GrantExtension
  <2> QED  BY <1>1, <1>3, <2>1, <2>2 DEF Available
<1>7. ASSUME NEW x \in Nat, AllocateDenied(x)
      PROVE  NoToken \in Nat /\ Logged(Denied, NoToken, x, 0)
  <2>1. /\ committed' = committed /\ settledSpent' = settledSpent
        /\ Record(Denied, NoToken, x, 0) /\ NoToken \in Nat
    BY <1>7 DEF AllocateDenied, accounts, NoToken
  <2> QED  BY <1>1, <1>3, <2>1 DEF Available
<1>8. ASSUME NEW t \in DOMAIN token, NEW x \in Nat, RecordExtensionDenial(t, x)
      PROVE  t \in Nat /\ Logged(Refused, t, x, 0)
  <2>1. t \in Nat
    BY Registry
  <2>2. /\ committed' = committed /\ settledSpent' = settledSpent
        /\ Record(Refused, t, x, 0)
    BY <1>8 DEF RecordExtensionDenial, accounts
  <2> QED  BY <1>1, <1>3, <2>1, <2>2 DEF Available
<1> HIDE DEF Logged
<1>9. \E event \in LedgerEventType, t, amount, yielded \in Nat :
        Logged(event, t, amount, yielded)
  BY EventTypes, <1>4, <1>5, <1>6, <1>7, <1>8 DEF AnyOperation
<1> QED  BY <1>9 DEF Logged

(* One more entry keeps the audit trail replayable if it says what happened  *)
(* to the balance.                                                           *)
LEMMA ReplayRecord ==
  ASSUME TypeOK, AuditTrailReplays, committed' \in Int, settledSpent' \in Int,
         NEW event \in LedgerEventType,
         NEW t \in Nat, NEW amount \in Nat, NEW yielded \in Nat,
         Record(event, t, amount, yielded),
         TotalBudget - committed' - settledSpent'
           = Available + Change(event, amount, yielded)
  PROVE  AuditTrailReplays'
<1> DEFINE entry == [event |-> event, token |-> t, amount |-> amount,
                     yielded |-> yielded, available |-> Available']
           n == Len(ledger) + 1
<1>1. /\ ledger' \in Seq(LedgerEntry) /\ Len(ledger') = n
      /\ \A i \in 1 .. Len(ledger) : ledger'[i] = ledger[i]
      /\ ledger'[n] = entry
  BY RecordType
<1>2. /\ Len(ledger) \in Nat
      /\ DOMAIN ledger = 1 .. Len(ledger) /\ DOMAIN ledger' = 1 .. n
  BY <1>1, LenProperties DEF TypeOK
<1>3. entry.available = TotalBudget - committed' - settledSpent'
  BY DEF Available
<1>4. /\ Available = BalanceAfter(Len(ledger))
      /\ TotalBudget - committed' - settledSpent' = Available + Effect(entry)
  <2>1. entry.event = event /\ entry.amount = amount /\ entry.yielded = yielded
    OBVIOUS
  <2>2. Effect(entry) = Change(event, amount, yielded)
    <3> HIDE DEF entry
    <3> QED  BY <2>1 DEF Effect, Change, Granted, Extended, Released
  <2> QED  BY <2>2 DEF AuditTrailReplays
<1> HIDE DEF entry
<1>5. ASSUME NEW i \in 1 .. n
      PROVE  ledger'[i].available
               = (IF i - 1 = 0 THEN TotalBudget ELSE ledger'[i - 1].available)
                   + Effect(ledger'[i])
  <2>1. CASE i = n
    <3>1. BalanceAfter(Len(ledger))
            = IF i - 1 = 0 THEN TotalBudget ELSE ledger'[i - 1].available
      BY <1>1, <1>2, <2>1 DEF BalanceAfter
    <3> QED  BY <1>1, <1>3, <1>4, <2>1, <3>1
  <2>2. CASE i # n
    <3>1. i \in 1 .. Len(ledger) /\ (i - 1 = 0 \/ i - 1 \in 1 .. Len(ledger))
      BY <1>2, <2>2
    <3>2. ledger'[i] = ledger[i]
          /\ (i - 1 # 0 => ledger'[i - 1] = ledger[i - 1])
      BY <1>1, <3>1
    <3>3. ledger[i].available = BalanceAfter(i - 1) + Effect(ledger[i])
      BY <1>2, <3>1 DEF AuditTrailReplays
    <3> QED  BY <3>2, <3>3 DEF BalanceAfter
  <2> QED  BY <2>1, <2>2
<1>6. TotalBudget - committed' - settledSpent' = ledger'[n].available
  BY <1>1, <1>3
<1>7. SUFFICES
        /\ \A i \in DOMAIN ledger' :
             ledger'[i].available
               = (IF i - 1 = 0 THEN TotalBudget ELSE ledger'[i - 1].available)
                   + Effect(ledger'[i])
        /\ TotalBudget - committed' - settledSpent'
             = IF Len(ledger') = 0 THEN TotalBudget
                                   ELSE ledger'[Len(ledger')].available
  BY DEF AuditTrailReplays, BalanceAfter, Available
<1>8. n # 0
  BY <1>2
<1> QED  BY <1>1, <1>2, <1>5, <1>6, <1>8

LEMMA ReplayStep ==
  ASSUME TypeOK, AuditTrailReplays, [AnyOperation]_treasuryVars
  PROVE  AuditTrailReplays'
<1>1. CASE AnyOperation
  <2>1. PICK event \in LedgerEventType, t, amount, yielded \in Nat :
           /\ Record(event, t, amount, yielded)
           /\ committed' \in Int /\ settledSpent' \in Int
           /\ TotalBudget - committed' - settledSpent'
                = Available + Change(event, amount, yielded)
    BY <1>1, OperationIsLogged
  <2> QED  BY <2>1, ReplayRecord
<1>2. CASE UNCHANGED treasuryVars
  BY <1>2 DEF AuditTrailReplays, BalanceAfter, Available, treasuryVars
<1> QED  BY <1>1, <1>2

(* The audit trail replays: every recorded balance follows from the one      *)
(* before it, and the last one is the treasury's balance.                    *)
THEOREM TrailReplays == Spec => []AuditTrailReplays
<1>1. Init => AuditTrailReplays
  BY TreasuryAssumption DEF Init, AuditTrailReplays, BalanceAfter, Available
<1>2. TypeOK /\ AuditTrailReplays /\ [Next]_treasuryVars => AuditTrailReplays'
  BY ReplayStep, NextIsOperation
<1> QED  BY <1>1, <1>2, TypeCorrect, PTL DEF Spec
-----------------------------------------------------------------------------
(* The refinement.  The treasury's claims are a sequence of the clearing-    *)
(* house's claims, and what it calls available is what is free there.        *)
LEMMA ClaimsAreClaims ==
  ASSUME TypeOK
  PROVE  /\ Claims \in Seq(CH!Claim) /\ Len(Claims) = Len(token)
         /\ DOMAIN Claims = DOMAIN token
         /\ CH!OpenClaims = active
         /\ DOMAIN Claims \ CH!OpenClaims = settled
<1>1. /\ DOMAIN token = 1 .. Len(token) /\ Len(token) \in Nat
      /\ \A t \in DOMAIN token : token[t] \in AllocationToken
  BY Registry
<1>2. DOMAIN Claims = DOMAIN token
  BY DEF Claims
<1>3. \A t \in DOMAIN token : Claims[t] \in CH!Claim
  BY <1>1 DEF Claims, CH!Claim, AllocationToken
<1>4. Claims \in [1 .. Len(token) -> CH!Claim]
  BY <1>1, <1>2, <1>3 DEF Claims
<1>5. Claims \in Seq(CH!Claim)
  BY <1>1, <1>4, SeqDef
<1>6. Len(Claims) = Len(token)
  BY <1>1, <1>2, <1>5, LenProperties
<1>7. CH!OpenClaims = active
  BY <1>2 DEF CH!OpenClaims, Claims, TypeOK
<1> QED  BY <1>2, <1>5, <1>6, <1>7 DEF TypeOK

LEMMA SameSum == \A f, S : CH!SumOver(f, S) = SumOver(f, S)
BY DEF CH!SumOver, CH!Coins, CH!Cardinality, SumOver, Coins, Cardinality

LEMMA FreeIsAvailable ==
  ASSUME TypeOK, Conservation PROVE CH!Free = Available
<1> DEFINE ceilings == [t \in DOMAIN Claims |-> Claims[t].ceiling]
           spends == [t \in DOMAIN Claims |-> Claims[t].spent]
<1>1. DOMAIN Claims = DOMAIN token /\ CH!OpenClaims = active
      /\ DOMAIN Claims \ CH!OpenClaims = settled
  BY ClaimsAreClaims
<1>2. \A t \in DOMAIN token : ceilings[t] = Ceilings[t] /\ spends[t] = Spends[t]
  BY <1>1 DEF Claims, Ceilings, Spends
<1>3. active \subseteq DOMAIN token /\ settled \subseteq DOMAIN token
  BY DEF TypeOK
<1> HIDE DEF ceilings, spends
<1>4. SumOver(ceilings, active) = SumOver(Ceilings, active)
  BY <1>2, <1>3, SumSame
<1>5. SumOver(spends, settled) = SumOver(Spends, settled)
  BY <1>2, <1>3, SumSame
<1>6. CH!Held = committed
  BY <1>1, <1>4, SameSum DEF CH!Held, ceilings, Conservation
<1>7. CH!Spent = settledSpent
  BY <1>1, <1>5, SameSum DEF CH!Spent, spends, Conservation
<1> QED  BY <1>6, <1>7 DEF CH!Free, Available

(* A granted allocation opens a claim.                                       *)
LEMMA GrantedOpens ==
  ASSUME TypeOK, Conservation, NEW x \in Nat, AllocateGranted(x)
  PROVE  CH!Open(x)
<1> DEFINE new == [ceiling |-> x, spent |-> 0, open |-> TRUE]
           n == Len(token) + 1
<1>1. CH!Free > 0 /\ x <= CH!Free
  BY FreeIsAvailable DEF AllocateGranted, CanAllocate
<1>2. /\ DOMAIN token' = DOMAIN token \cup {n} /\ n \notin DOMAIN token
      /\ \A u \in DOMAIN token : token'[u] = token[u]
      /\ token'[n] = [initial |-> x, ceiling |-> x, spent |-> 0,
                      extensions |-> 0, status |-> "active"]
  BY GrantedEffect
<1>3. active' = active \cup {n}
  BY DEF AllocateGranted
<1>4. new \in CH!Claim
  BY DEF CH!Claim
<1>5. /\ Append(Claims, new) \in Seq(CH!Claim)
      /\ Len(Append(Claims, new)) = n
      /\ \A u \in DOMAIN token : Append(Claims, new)[u] = Claims[u]
      /\ Append(Claims, new)[n] = new
  <2> HIDE DEF new
  <2>1. Claims \in Seq(CH!Claim) /\ Len(Claims) = Len(token)
        /\ DOMAIN token = 1 .. Len(token)
    BY ClaimsAreClaims, Registry
  <2> QED  BY <1>4, <2>1, AppendProperties
<1>6. DOMAIN Append(Claims, new) = 1 .. n
  <2> HIDE DEF new
  <2> QED  BY <1>5, LenProperties
<1>7. DOMAIN token' = 1 .. n
  BY <1>2, Registry
<1>8. \A u \in 1 .. n :
        Append(Claims, new)[u] = [ceiling |-> token'[u].ceiling,
                                  spent   |-> token'[u].spent,
                                  open    |-> u \in active']
  <2>1. SUFFICES ASSUME NEW u \in 1 .. n
                 PROVE  Append(Claims, new)[u]
                          = [ceiling |-> token'[u].ceiling,
                             spent   |-> token'[u].spent,
                             open    |-> u \in active']
    OBVIOUS
  <2>2. CASE u = n
    <3>1. n \in active'
      BY <1>3
    <3>2. token'[n].ceiling = x /\ token'[n].spent = 0
      BY <1>2
    <3>3. (n \in active') = TRUE
      BY <3>1
    <3> QED  BY <1>5, <2>2, <3>2, <3>3
  <2>3. CASE u # n
    <3>1. u \in DOMAIN token
      BY <1>2, <1>7, <2>3
    <3>2. (u \in active') = (u \in active) /\ token'[u] = token[u]
      BY <1>2, <1>3, <2>3, <3>1
    <3>3. Append(Claims, new)[u] = Claims[u]
      BY <1>5, <3>1
    <3>4. Claims[u] = [ceiling |-> token[u].ceiling, spent |-> token[u].spent,
                       open |-> u \in active]
      BY <3>1 DEF Claims
    <3> QED  BY <3>2, <3>3, <3>4
  <2> QED  BY <2>2, <2>3
<1>9. Append(Claims, new)
        = [u \in 1 .. n |-> Append(Claims, new)[u]]
  <2> HIDE DEF new, n
  <2>1. Append(Claims, new) \in [1 .. n -> CH!Claim]
    BY <1>5, LenProperties
  <2> QED  BY <2>1
<1>10. Claims' = Append(Claims, new)
  <2> HIDE DEF new, n
  <2> QED  BY <1>7, <1>8, <1>9 DEF Claims
<1> QED  BY <1>1, <1>10 DEF CH!Open

(* An extension raises the claim of its token.                               *)
LEMMA ExtensionRaises ==
  ASSUME TypeOK, NEW t \in active, NEW x \in Nat, GrantExtension(t, x)
  PROVE  t \in DOMAIN Claims /\ CH!Raise(t, x)
<1>1. /\ t \in DOMAIN token /\ DOMAIN token' = DOMAIN token
      /\ \A u \in DOMAIN token \ {t} : token'[u] = token[u]
      /\ token'[t] = [token[t] EXCEPT !.ceiling = @ + x, !.extensions = @ + x]
  BY ExtensionEffect
<1>2. active' = active
  BY DEF GrantExtension
<1>3. token[t] \in AllocationToken
  BY <1>1, Registry
<1>4. token'[t].ceiling = token[t].ceiling + x /\ token'[t].spent = token[t].spent
  BY <1>1, <1>3 DEF AllocationToken
<1>5. /\ t \in DOMAIN Claims /\ DOMAIN Claims = DOMAIN token
      /\ Claims[t].open
      /\ Claims[t].ceiling = token[t].ceiling
  BY <1>1 DEF Claims
<1>6. Claims' = [Claims EXCEPT ![t].ceiling = @ + x]
  <2>1. \A u \in DOMAIN token :
          [ceiling |-> token'[u].ceiling, spent |-> token'[u].spent,
           open |-> u \in active'] = [Claims EXCEPT ![t].ceiling = @ + x][u]
    BY <1>1, <1>2, <1>4, <1>5 DEF Claims
  <2>2. [Claims EXCEPT ![t].ceiling = @ + x]
          = [u \in DOMAIN token |-> [Claims EXCEPT ![t].ceiling = @ + x][u]]
    BY <1>5
  <2>3. Claims' = [u \in DOMAIN token' |->
                     [ceiling |-> token'[u].ceiling, spent |-> token'[u].spent,
                      open |-> u \in active']]
    BY DEF Claims
  <2> QED  BY <1>1, <2>1, <2>2, <2>3
<1> QED  BY <1>5, <1>6 DEF CH!Raise

(* A release closes the claim of its token.                                  *)
LEMMA ReleaseCloses ==
  ASSUME TypeOK, NEW t \in active, NEW s \in Int, Release(t, s)
  PROVE  /\ t \in DOMAIN Claims
         /\ Clamped(t, s) \in 0 .. Claims[t].ceiling
         /\ CH!Close(t, Clamped(t, s))
<1>1. /\ t \in DOMAIN token /\ DOMAIN token' = DOMAIN token
      /\ \A u \in DOMAIN token \ {t} : token'[u] = token[u]
      /\ token'[t] = [token[t] EXCEPT !.spent = Clamped(t, s),
                                      !.status = "settled"]
  BY ReleaseEffect
<1>2. active' = active \ {t}
  BY DEF Release
<1>3. token[t] \in AllocationToken
  BY <1>1, Registry
<1>4. token'[t].ceiling = token[t].ceiling /\ token'[t].spent = Clamped(t, s)
  BY <1>1, <1>3 DEF AllocationToken
<1>5. /\ t \in DOMAIN Claims /\ DOMAIN Claims = DOMAIN token
      /\ Claims[t].open
      /\ Claims[t].ceiling = token[t].ceiling
  BY <1>1 DEF Claims
<1>6. Clamped(t, s) \in 0 .. Claims[t].ceiling
  BY <1>1, <1>3, <1>5, ClampedRange DEF AllocationToken
<1>7. Claims' = [Claims EXCEPT ![t].spent = Clamped(t, s), ![t].open = FALSE]
  <2> DEFINE k == Clamped(t, s)
             closed == [Claims EXCEPT ![t].spent = k, ![t].open = FALSE]
  <2> HIDE DEF k
  <2>1. \A u \in DOMAIN token :
          [ceiling |-> token'[u].ceiling, spent |-> token'[u].spent,
           open |-> u \in active'] = closed[u]
    <3>1. ASSUME NEW u \in DOMAIN token
          PROVE  [ceiling |-> token'[u].ceiling, spent |-> token'[u].spent,
                  open |-> u \in active'] = closed[u]
      <4>1. CASE u = t
        <5>1. (u \in active') = FALSE
          BY <1>2, <4>1
        <5> QED  BY <1>4, <1>5, <4>1, <5>1 DEF Claims, k
      <4>2. CASE u # t
        <5>1. (u \in active') = (u \in active) /\ token'[u] = token[u]
          BY <1>1, <1>2, <4>2
        <5> QED  BY <1>5, <4>2, <5>1 DEF Claims
      <4> QED  BY <4>1, <4>2
    <3> QED  BY <3>1
  <2>2. closed = [u \in DOMAIN token |-> closed[u]]
    BY <1>5
  <2>3. Claims' = [u \in DOMAIN token' |->
                     [ceiling |-> token'[u].ceiling, spent |-> token'[u].spent,
                      open |-> u \in active']]
    BY DEF Claims
  <2>4. Claims' = closed
    <3> HIDE DEF closed
    <3> QED  BY <1>1, <2>1, <2>2, <2>3
  <2> QED  BY <2>4 DEF k
<1> QED  BY <1>5, <1>6, <1>7 DEF CH!Close

(* The amounts a bounded operation uses are the amounts of the clearinghouse.*)
LEMMA StepImplements ==
  ASSUME TypeOK, Conservation, [Next]_treasuryVars
  PROVE  [CH!Next]_Claims
<1>1. Amount \subseteq Nat /\ Spend \subseteq Int
  BY TreasuryAssumption
<1>2. ASSUME NEW x \in Amount, AllocateGranted(x) PROVE CH!Next
  BY <1>1, <1>2, GrantedOpens DEF CH!Next
<1>3. ASSUME NEW t \in active, NEW s \in Spend, Release(t, s) PROVE CH!Next
  <2>1. /\ t \in DOMAIN Claims /\ Clamped(t, s) \in 0 .. Claims[t].ceiling
        /\ CH!Close(t, Clamped(t, s))
    BY <1>1, <1>3, ReleaseCloses
  <2> HIDE DEF Clamped
  <2> QED  BY <2>1 DEF CH!Next
<1>4. ASSUME NEW t \in active, NEW x \in Amount, GrantExtension(t, x)
      PROVE  CH!Next
  BY <1>1, <1>4, ExtensionRaises DEF CH!Next
<1>5. ASSUME UNCHANGED accounts PROVE UNCHANGED Claims
  BY <1>5 DEF accounts, Claims
<1>6. ASSUME NEW x \in Amount, AllocateDenied(x) PROVE UNCHANGED accounts
  BY <1>6 DEF AllocateDenied
<1>7. ASSUME NEW t \in DOMAIN token, NEW x \in Amount,
             RecordExtensionDenial(t, x)
      PROVE  UNCHANGED accounts
  BY <1>7 DEF RecordExtensionDenial
<1>8. UNCHANGED treasuryVars => UNCHANGED accounts
  BY DEF treasuryVars, accounts
<1>9. /\ \A t, s : Release(t, s) => t \in active
      /\ \A t, x : GrantExtension(t, x) => t \in active
  BY DEF Release, GrantExtension
<1> QED  BY <1>2, <1>3, <1>4, <1>5, <1>6, <1>7, <1>8, <1>9 DEF Next, Operation

(* The treasury implements the clearinghouse: every operation is a step of   *)
(* it on the claims, or leaves the claims as they are.                       *)
THEOREM TreasuryImplements == Spec => ImplementsClearinghouse
<1>1. Init => CH!Init
  <2> SUFFICES ASSUME Init PROVE Claims = << >>
    BY DEF CH!Init
  <2>1. TypeOK
    BY TypeInit
  <2>2. Claims \in Seq(CH!Claim) /\ Len(Claims) = 0
    BY <2>1, ClaimsAreClaims DEF Init
  <2> QED  BY <2>2, EmptySeq
<1>2. TypeOK /\ Conservation /\ [Next]_treasuryVars => [CH!Next]_Claims
  BY StepImplements
<1> QED  BY <1>1, <1>2, TypeCorrect, MoneyConserved, PTL
         DEF Spec, ImplementsClearinghouse, CH!Spec
-----------------------------------------------------------------------------
(* Appending leaves the trail written so far as it was.                      *)
LEMMA TrailGrows ==
  ASSUME TypeOK, AnyOperation
  PROVE  SubSeq(ledger', 1, Len(ledger)) = ledger
<1>1. PICK event \in LedgerEventType, t, amount, yielded \in Nat :
         /\ Record(event, t, amount, yielded)
         /\ committed' \in Int /\ settledSpent' \in Int
  BY OperationIsLogged
<1>2. /\ ledger' \in Seq(LedgerEntry) /\ Len(ledger') = Len(ledger) + 1
      /\ \A i \in 1 .. Len(ledger) : ledger'[i] = ledger[i]
  BY <1>1, RecordType
<1>3. ledger \in Seq(LedgerEntry) /\ Len(ledger) \in Nat
  BY LenProperties DEF TypeOK
<1>4. \A i \in 1 .. Len(ledger) : ledger'[i] \in LedgerEntry
  BY <1>2, <1>3, ElementOfSeq
<1>5. /\ SubSeq(ledger', 1, Len(ledger)) \in Seq(LedgerEntry)
      /\ Len(SubSeq(ledger', 1, Len(ledger)))
           = IF 1 <= Len(ledger) THEN Len(ledger) - 1 + 1 ELSE 0
      /\ \A i \in 1 .. Len(ledger) - 1 + 1 :
           SubSeq(ledger', 1, Len(ledger))[i] = ledger'[1 + i - 1]
  BY <1>3, <1>4, SubSeqProperties
<1>6. Len(SubSeq(ledger', 1, Len(ledger))) = Len(ledger)
  BY <1>3, <1>5
<1>7. \A i \in 1 .. Len(ledger) :
        SubSeq(ledger', 1, Len(ledger))[i] = ledger[i]
  BY <1>2, <1>3, <1>5
<1> QED  BY <1>3, <1>5, <1>6, <1>7, SeqEqual

(* A settled token is never touched again and no audit entry is rewritten.   *)
THEOREM SettledIsFinal == Spec => HistoryIsFinal
<1>1. ASSUME TypeOK, AnyOperation
      PROVE  \A t \in settled : t \in settled' /\ token'[t] = token[t]
  <2>1. settled \subseteq DOMAIN token /\ active \cap settled = {}
    BY <1>1 DEF TypeOK
  <2>2. ASSUME NEW x \in Nat, AllocateGranted(x)
        PROVE  \A t \in settled : t \in settled' /\ token'[t] = token[t]
    BY <1>1, <2>1, <2>2, GrantedEffect DEF AllocateGranted
  <2>3. ASSUME NEW u \in active, NEW s \in Int, Release(u, s)
        PROVE  \A t \in settled : t \in settled' /\ token'[t] = token[t]
    BY <1>1, <2>1, <2>3, ReleaseEffect DEF Release
  <2>4. ASSUME NEW u \in active, NEW x \in Nat, GrantExtension(u, x)
        PROVE  \A t \in settled : t \in settled' /\ token'[t] = token[t]
    BY <1>1, <2>1, <2>4, ExtensionEffect DEF GrantExtension
  <2>5. ASSUME UNCHANGED accounts
        PROVE  \A t \in settled : t \in settled' /\ token'[t] = token[t]
    BY <2>5 DEF accounts
  <2> QED  BY <1>1, <2>2, <2>3, <2>4, <2>5, DenialEffect
           DEF AnyOperation
<1>2. TypeOK /\ [Next]_treasuryVars
        => [/\ \A t \in settled : t \in settled' /\ token'[t] = token[t]
            /\ SubSeq(ledger', 1, Len(ledger)) = ledger]_treasuryVars
  BY <1>1, TrailGrows, NextIsOperation
<1> QED  BY <1>2, TypeCorrect, PTL DEF Spec, HistoryIsFinal
-----------------------------------------------------------------------------
Amounts == [i \in DOMAIN ledger |-> ledger[i].amount]

\* EntriesOf, in any log.
EntriesIn(log, t, events) ==
  {i \in DOMAIN log : log[i].token = t /\ log[i].event \in events}

Grants(t) == EntriesIn(ledger, t, {Granted, Extended})
Releases(t) == EntriesIn(ledger, t, {Released})

\* What AuditTrailExplainsTokens says of one token.
Explained(t) ==
  /\ token[t].ceiling = SumOver(Amounts, Grants(t))
  /\ Cardinality(Releases(t)) = IF t \in settled THEN 1 ELSE 0
  /\ \A i \in Releases(t) :
       /\ ledger[i].amount = token[t].spent
       /\ ledger[i].yielded = token[t].ceiling - token[t].spent
       /\ \A j \in Grants(t) : j < i

\* No entry is about a token that does not exist yet.
EntriesKnown ==
  \A i \in DOMAIN ledger : ledger[i].token \in DOMAIN token \cup {NoToken}

LEMMA EntriesFinite ==
  ASSUME TypeOK, NEW t, NEW events
  PROVE  /\ IsFiniteSet(EntriesIn(ledger, t, events))
         /\ EntriesIn(ledger, t, events) \subseteq DOMAIN ledger
         /\ \A i \in DOMAIN ledger : Amounts[i] \in Nat /\ ledger[i] \in LedgerEntry
<1>1. DOMAIN ledger = 1 .. Len(ledger) /\ Len(ledger) \in Nat
  BY LenProperties DEF TypeOK
<1>2. IsFiniteSet(DOMAIN ledger)
  BY <1>1, FS_Interval
<1>3. EntriesIn(ledger, t, events) \subseteq DOMAIN ledger
  BY DEF EntriesIn
<1>4. \A i \in DOMAIN ledger : ledger[i] \in LedgerEntry
  BY <1>1, ElementOfSeq DEF TypeOK
<1> QED  BY <1>2, <1>3, <1>4, FS_Subset DEF Amounts, LedgerEntry

\* A new entry joins those of its token and its kind; all others stay.
Appended(event, t, amount, yielded) ==
  LET n == Len(ledger) + 1 IN
  /\ DOMAIN ledger' = DOMAIN ledger \cup {n} /\ n \notin DOMAIN ledger
  /\ \A i \in DOMAIN ledger : i < n /\ ledger'[i] = ledger[i]
                              /\ Amounts'[i] = Amounts[i]
  /\ ledger'[n].amount = amount /\ ledger'[n].yielded = yielded
  /\ ledger'[n].token = t /\ Amounts'[n] = amount
  /\ \A u, events :
       /\ u = t /\ event \in events =>
            EntriesIn(ledger', u, events) = EntriesIn(ledger, u, events) \cup {n}
       /\ ~(u = t /\ event \in events) =>
            EntriesIn(ledger', u, events) = EntriesIn(ledger, u, events)

LEMMA EntriesAfter ==
  ASSUME TypeOK, committed' \in Int, settledSpent' \in Int,
         NEW event \in LedgerEventType,
         NEW t \in Nat, NEW amount \in Nat, NEW yielded \in Nat,
         Record(event, t, amount, yielded)
  PROVE  Appended(event, t, amount, yielded)
<1> DEFINE n == Len(ledger) + 1
<1>1. /\ ledger' \in Seq(LedgerEntry) /\ Len(ledger') = n
      /\ \A i \in 1 .. Len(ledger) : ledger'[i] = ledger[i]
      /\ ledger'[n] = [event |-> event, token |-> t, amount |-> amount,
                       yielded |-> yielded, available |-> Available']
  BY RecordType
<1>2. /\ Len(ledger) \in Nat
      /\ DOMAIN ledger = 1 .. Len(ledger) /\ DOMAIN ledger' = 1 .. n
  BY <1>1, LenProperties DEF TypeOK
<1>3. /\ DOMAIN ledger' = DOMAIN ledger \cup {n} /\ n \notin DOMAIN ledger
      /\ \A i \in DOMAIN ledger : i < n /\ ledger'[i] = ledger[i]
  BY <1>1, <1>2
<1>4. /\ ledger'[n].amount = amount /\ ledger'[n].yielded = yielded
      /\ ledger'[n].token = t /\ ledger'[n].event = event
  BY <1>1
<1>5. /\ \A i \in DOMAIN ledger : Amounts'[i] = Amounts[i]
      /\ Amounts'[n] = amount
  BY <1>3, <1>4 DEF Amounts
<1>6. ASSUME NEW u, NEW events
      PROVE  /\ u = t /\ event \in events =>
                  EntriesIn(ledger', u, events) =
                     EntriesIn(ledger, u, events) \cup {n}
             /\ ~(u = t /\ event \in events) =>
                  EntriesIn(ledger', u, events) = EntriesIn(ledger, u, events)
  BY <1>3, <1>4 DEF EntriesIn
<1> QED  BY <1>3, <1>4, <1>5, <1>6 DEF Appended

\* What is recorded of another token, or is no more than a denial, explains
\* a token no better and no worse.
LEMMA StillExplained ==
  ASSUME TypeOK, committed' \in Int, settledSpent' \in Int,
         NEW event \in LedgerEventType,
         NEW t \in Nat, NEW amount \in Nat, NEW yielded \in Nat,
         Record(event, t, amount, yielded),
         NEW u \in DOMAIN token, Explained(u), token'[u] = token[u],
         u \in settled' <=> u \in settled,
         u # t \/ event \in {Denied, Refused}
  PROVE  Explained(u)'
<1>1. ~(u = t /\ event \in {Granted, Extended}) /\ ~(u = t /\ event \in {Released})
  BY DEF Granted, Extended, Released, Denied, Refused
<1>0. Appended(event, t, amount, yielded)
  BY EntriesAfter
<1>2. Grants(u)' = Grants(u) /\ Releases(u)' = Releases(u)
  <2>1. \A v, events :
          ~(v = t /\ event \in events) =>
             EntriesIn(ledger', v, events) = EntriesIn(ledger, v, events)
    BY <1>0 DEF Appended
  <2>2. EntriesIn(ledger', u, {Granted, Extended})
          = EntriesIn(ledger, u, {Granted, Extended})
    BY <1>1, <2>1
  <2>3. EntriesIn(ledger', u, {Released}) = EntriesIn(ledger, u, {Released})
    BY <1>1, <2>1
  <2> QED  BY <2>2, <2>3 DEF Grants, Releases
<1>3. \A i \in DOMAIN ledger : ledger'[i] = ledger[i] /\ Amounts'[i] = Amounts[i]
  BY <1>0 DEF Appended
<1>4. Grants(u) \subseteq DOMAIN ledger /\ Releases(u) \subseteq DOMAIN ledger
  BY EntriesFinite DEF Grants, Releases
<1> DEFINE before == Amounts
           after == Amounts'
           S == Grants(u)
<1>5. \A i \in S : before[i] = after[i]
  BY <1>3, <1>4
<1>6. SumOver(before, S) = SumOver(after, S)
  <2> HIDE DEF before, after, S
  <2> QED  BY <1>5, SumSame
<1>7. SumOver(Amounts, Grants(u))' = SumOver(Amounts, Grants(u))
  BY <1>2, <1>6
<1> QED  BY <1>2, <1>3, <1>4, <1>7 DEF Explained

TrailSound == EntriesKnown /\ \A t \in DOMAIN token : Explained(t)

LEMMA TrailGranted ==
  ASSUME TypeOK, TrailSound, NEW x \in Nat, AllocateGranted(x),
         NEW t, t = Len(token) + 1
  PROVE  TrailSound'
<1> DEFINE n == Len(ledger) + 1
<1>1. /\ DOMAIN token' = DOMAIN token \cup {t} /\ t \notin DOMAIN token
      /\ \A u \in DOMAIN token : token'[u] = token[u]
      /\ token'[t] = [initial |-> x, ceiling |-> x, spent |-> 0,
                      extensions |-> 0, status |-> "active"]
      /\ TypeOK'
  BY GrantedEffect
<1>2. /\ settled' = settled /\ Record(Granted, t, x, 0) /\ t \in Nat /\ t # NoToken
      /\ committed' \in Int /\ settledSpent' \in Int
  BY <1>1, Registry DEF AllocateGranted, TypeOK, NoToken
<1>3. Appended(Granted, t, x, 0)
  BY <1>2, EventTypes, EntriesAfter
<1>4. EntriesKnown'
  BY <1>1, <1>3 DEF TrailSound, EntriesKnown, Appended
<1>5. ASSUME NEW u \in DOMAIN token PROVE Explained(u)'
  BY <1>1, <1>2, <1>5, EventTypes, StillExplained DEF TrailSound
<1>6. Explained(t)'
  <2>1. Grants(t) = {} /\ Releases(t) = {}
    BY <1>1, <1>2 DEF Grants, Releases, EntriesIn, TrailSound, EntriesKnown
  <2>2. Grants(t)' = {n}
    <3>1. EntriesIn(ledger', t, {Granted, Extended})
            = EntriesIn(ledger, t, {Granted, Extended}) \cup {n}
      BY <1>3 DEF Appended
    <3> QED  BY <2>1, <3>1 DEF Grants
  <2>3. Releases(t)' = {}
    <3>1. EntriesIn(ledger', t, {Released}) = EntriesIn(ledger, t, {Released})
      BY <1>3 DEF Appended, Granted, Released
    <3> QED  BY <2>1, <3>1 DEF Releases
  <2> DEFINE f == Amounts'
  <2>4. f[n] = x
    BY <1>3 DEF Appended
  <2> HIDE DEF f
  <2>5. SumOver(f, {} \cup {n}) = SumOver(f, {}) + f[n]
    BY <2>4, FS_EmptySet, SumAdd
  <2>6. SumOver(f, {n}) = x
    BY <2>4, <2>5, SumEmpty
  <2>7. SumOver(Amounts, Grants(t))' = x
    BY <2>2, <2>6 DEF f
  <2>8. t \notin settled'
    BY <1>1, <1>2 DEF TypeOK
  <2>9. Cardinality(Releases(t)') = 0
    BY <2>3, FS_EmptySet
  <2> QED  BY <1>1, <2>3, <2>7, <2>8, <2>9 DEF Explained
<1> QED  BY <1>1, <1>4, <1>5, <1>6 DEF TrailSound

LEMMA TrailReleased ==
  ASSUME TypeOK, TrailSound, NEW t \in active, NEW s \in Int, Release(t, s)
  PROVE  TrailSound'
<1> DEFINE n == Len(ledger) + 1
           spend == Clamped(t, s)
           yield == token[t].ceiling - Clamped(t, s)
<1>1. /\ t \in DOMAIN token /\ DOMAIN token' = DOMAIN token
      /\ \A u \in DOMAIN token \ {t} : token'[u] = token[u]
      /\ token'[t] = [token[t] EXCEPT !.spent = spend, !.status = "settled"]
      /\ TypeOK'
  BY ReleaseEffect
<1>2. /\ settled' = settled \cup {t} /\ t \notin settled
      /\ Record(Released, t, spend, yield) /\ t \in Nat
      /\ committed' \in Int /\ settledSpent' \in Int
      /\ spend \in Nat /\ yield \in Nat /\ token[t] \in AllocationToken
  BY <1>1, Registry, ClampedRange DEF Release, TypeOK
<1> HIDE DEF spend, yield
<1>3. Appended(Released, t, spend, yield)
  BY <1>2, EventTypes, EntriesAfter
<1>4. EntriesKnown'
  BY <1>1, <1>3 DEF TrailSound, EntriesKnown, Appended
<1>5. ASSUME NEW u \in DOMAIN token, u # t PROVE Explained(u)'
  BY <1>1, <1>2, <1>5, EventTypes, StillExplained DEF TrailSound
<1>6. Explained(t)'
  <2>1. token'[t].spent = spend /\ token'[t].ceiling = token[t].ceiling
    BY <1>1, <1>2 DEF AllocationToken
  <2>2. Explained(t)
    BY <1>1 DEF TrailSound
  <2>3. Releases(t) = {}
    <3>1. Cardinality(Releases(t)) = 0
      BY <1>2, <2>2 DEF Explained
    <3> QED  BY <3>1, EntriesFinite, FS_EmptySet DEF Releases
  <2>4. Releases(t)' = {n}
    <3>1. EntriesIn(ledger', t, {Released})
            = EntriesIn(ledger, t, {Released}) \cup {n}
      BY <1>3 DEF Appended
    <3> QED  BY <2>3, <3>1 DEF Releases
  <2>5. Grants(t)' = Grants(t)
    <3>1. EntriesIn(ledger', t, {Granted, Extended})
            = EntriesIn(ledger, t, {Granted, Extended})
      BY <1>3 DEF Appended, Granted, Extended, Released
    <3> QED  BY <3>1 DEF Grants
  <2>6. Grants(t) \subseteq DOMAIN ledger
    BY EntriesFinite DEF Grants
  <2>7. SumOver(Amounts, Grants(t))' = SumOver(Amounts, Grants(t))
    <3> DEFINE before == Amounts
               after == Amounts'
               S == Grants(t)
    <3>1. \A i \in S : before[i] = after[i]
      BY <1>3, <2>6 DEF Appended
    <3>2. SumOver(before, S) = SumOver(after, S)
      <4> HIDE DEF before, after, S
      <4> QED  BY <3>1, SumSame
    <3> QED  BY <2>5, <3>2
  <2>8. \A j \in Grants(t) : j < n
    BY <1>3, <2>6 DEF Appended
  <2>9. ledger'[n].amount = spend /\ ledger'[n].yielded = yield
    BY <1>3 DEF Appended
  <2>10. yield = token'[t].ceiling - token'[t].spent
    BY <2>1 DEF yield, spend
  <2>11. Cardinality(Releases(t)') = 1
    BY <2>4, FS_Singleton
  <2> HIDE DEF n
  <2> QED
    BY <1>2, <2>1, <2>2, <2>4, <2>5, <2>7, <2>8, <2>9, <2>10, <2>11 DEF Explained
<1> QED  BY <1>1, <1>4, <1>5, <1>6 DEF TrailSound

LEMMA TrailExtended ==
  ASSUME TypeOK, TrailSound, NEW t \in active, NEW x \in Nat, GrantExtension(t, x)
  PROVE  TrailSound'
<1> DEFINE n == Len(ledger) + 1
<1>1. /\ t \in DOMAIN token /\ DOMAIN token' = DOMAIN token
      /\ \A u \in DOMAIN token \ {t} : token'[u] = token[u]
      /\ token'[t] = [token[t] EXCEPT !.ceiling = @ + x, !.extensions = @ + x]
      /\ TypeOK'
  BY ExtensionEffect
<1>2. /\ settled' = settled /\ t \notin settled
      /\ Record(Extended, t, x, 0) /\ t \in Nat
      /\ committed' \in Int /\ settledSpent' \in Int
      /\ token[t] \in AllocationToken
  BY <1>1, Registry DEF GrantExtension, TypeOK
<1>3. Appended(Extended, t, x, 0)
  BY <1>2, EventTypes, EntriesAfter
<1>4. EntriesKnown'
  BY <1>1, <1>3 DEF TrailSound, EntriesKnown, Appended
<1>5. ASSUME NEW u \in DOMAIN token, u # t PROVE Explained(u)'
  BY <1>1, <1>2, <1>5, EventTypes, StillExplained DEF TrailSound
<1>6. Explained(t)'
  <2>1. token'[t].ceiling = token[t].ceiling + x
    BY <1>1, <1>2 DEF AllocationToken
  <2>2. Explained(t)
    BY <1>1 DEF TrailSound
  <2>3. Releases(t) = {}
    <3>1. Cardinality(Releases(t)) = 0
      BY <1>2, <2>2 DEF Explained
    <3> QED  BY <3>1, EntriesFinite, FS_EmptySet DEF Releases
  <2>4. Releases(t)' = {}
    <3>1. EntriesIn(ledger', t, {Released}) = EntriesIn(ledger, t, {Released})
      BY <1>3 DEF Appended, Extended, Released
    <3> QED  BY <2>3, <3>1 DEF Releases
  <2>5. Grants(t)' = Grants(t) \cup {n}
    <3>1. EntriesIn(ledger', t, {Granted, Extended})
            = EntriesIn(ledger, t, {Granted, Extended}) \cup {n}
      BY <1>3 DEF Appended
    <3> QED  BY <3>1 DEF Grants
  <2>6. IsFiniteSet(Grants(t)) /\ Grants(t) \subseteq DOMAIN ledger
    BY EntriesFinite DEF Grants
  <2> DEFINE before == Amounts
             after == Amounts'
             S == Grants(t)
  <2>7. /\ n \notin S /\ after[n] = x
        /\ \A i \in S : before[i] = after[i] /\ before[i] \in Nat
    BY <1>3, <2>6, EntriesFinite DEF Appended
  <2>8. SumOver(after, S \cup {n}) = SumOver(before, S) + x
    <3> HIDE DEF before, after, S, n
    <3>1. SumOver(before, S) = SumOver(after, S)
      BY <2>7, SumSame
    <3>2. IsFiniteSet(S)
      BY <2>6 DEF S
    <3>3. SumOver(after, S \cup {n}) = SumOver(after, S) + after[n]
      BY <2>7, <3>2, SumAdd
    <3> QED  BY <2>7, <3>1, <3>3
  <2>9. SumOver(Amounts, Grants(t))' = SumOver(Amounts, Grants(t)) + x
    BY <2>5, <2>8
  <2>10. Cardinality(Releases(t)') = 0
    BY <2>4, FS_EmptySet
  <2> HIDE DEF before, after, S, n
  <2> QED  BY <1>2, <2>1, <2>2, <2>4, <2>9, <2>10 DEF Explained
<1> QED  BY <1>1, <1>4, <1>5, <1>6 DEF TrailSound

LEMMA TrailDenied ==
  ASSUME TypeOK, TrailSound,
         NEW event \in {Denied, Refused}, NEW t \in DOMAIN token \cup {NoToken},
         NEW x \in Nat, Record(event, t, x, 0), UNCHANGED accounts
  PROVE  TrailSound'
<1>1. /\ token' = token /\ settled' = settled
      /\ committed' \in Int /\ settledSpent' \in Int /\ t \in Nat
  BY Registry DEF accounts, TypeOK, NoToken
<1>2. Appended(event, t, x, 0)
  BY <1>1, EventTypes, EntriesAfter
<1>3. EntriesKnown'
  BY <1>1, <1>2 DEF TrailSound, EntriesKnown, Appended
<1>4. ASSUME NEW u \in DOMAIN token PROVE Explained(u)'
  BY <1>1, <1>4, EventTypes, StillExplained DEF TrailSound
<1> QED  BY <1>1, <1>3, <1>4 DEF TrailSound

LEMMA TrailSoundStep ==
  ASSUME TypeOK, TrailSound, [AnyOperation]_treasuryVars
  PROVE  TrailSound'
<1>1. ASSUME NEW x \in Nat, AllocateDenied(x) PROVE TrailSound'
  BY <1>1, TrailDenied DEF AllocateDenied
<1>2. ASSUME NEW t \in DOMAIN token, NEW x \in Nat, RecordExtensionDenial(t, x)
      PROVE  TrailSound'
  BY <1>2, TrailDenied DEF RecordExtensionDenial
<1>3. ASSUME UNCHANGED treasuryVars PROVE TrailSound'
  BY <1>3 DEF treasuryVars, TrailSound, EntriesKnown, Explained, Grants, Releases,
              Amounts
<1> QED  BY <1>1, <1>2, <1>3, TrailGranted, TrailReleased, TrailExtended
         DEF AnyOperation

(* However many grants, loans and releases there were, the audit trail alone *)
(* says of each token what its ceiling and its spend came from.              *)
THEOREM TrailExplains == Spec => []AuditTrailExplainsTokens
<1>1. Init => TrailSound
  BY DEF Init, TrailSound, EntriesKnown
<1>2. TypeOK /\ TrailSound /\ [Next]_treasuryVars => TrailSound'
  BY TrailSoundStep, NextIsOperation
<1>3. TrailSound => AuditTrailExplainsTokens
  BY DEF TrailSound, Explained, Grants, Releases, EntriesIn, Amounts,
         AuditTrailExplainsTokens, EntriesOf
<1> QED  BY <1>1, <1>2, <1>3, TypeCorrect, PTL DEF Spec
=============================================================================
