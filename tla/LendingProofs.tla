---------------------------- MODULE LendingProofs ----------------------------
(* How far concurrent lending can oversubscribe a session: by one loan for   *)
(* every event loop but one, and not at all with a single loop.              *)
EXTENDS Lending, TreasuryProofs

(* Amounts have a greatest one, and it is what a single race can cost.       *)
LEMMA LoanLimit ==
  /\ LargestLoan \in Nat /\ \A y \in Amount : y \in Nat /\ y <= LargestLoan
  /\ Cardinality(Loop) \in Nat /\ IsFiniteSet(Loop)
<1>1. \E x \in Amount : \A y \in Amount : y <= x
  BY LendingAssumption
<1>2. LargestLoan \in Amount /\ \A y \in Amount : y <= LargestLoan
  BY <1>1 DEF LargestLoan
<1> QED  BY <1>2, TreasuryAssumption, LendingAssumption, FS_CardinalityType
-----------------------------------------------------------------------------
(* A step is one of a caller, or it leaves the treasury and the requests     *)
(* alone, as a report does, whoever makes it.                                *)
LEMMA LendingStepKinds ==
  ASSUME [LendingNext]_lendingVars
  PROVE  \/ \E c \in Caller : CallerStep(c, Amount, Spend)
         \/ UNCHANGED <<treasuryVars, lend>>
BY DEF LendingNext, ReportProgress, lendingVars

(* Every step of a caller is a call of the treasury or leaves it alone, so   *)
(* the treasury's invariants hold here too.                                  *)
LEMMA LendingStepIsOperation ==
  ASSUME InFlightOK, [LendingNext]_lendingVars
  PROVE  [AnyOperation]_treasuryVars
<1>1. Amount \subseteq Nat /\ Spend \subseteq Int
  BY TreasuryAssumption
<1>2. /\ \A t, s : Release(t, s) => t \in active
      /\ \A t, x : GrantExtension(t, x) => t \in active
  BY DEF Release, GrantExtension
<1>3. ASSUME NEW c \in Caller, CallerStep(c, Amount, Spend)
      PROVE  [AnyOperation]_treasuryVars
  <2>1. CASE ReadAvailable(c)
    BY <2>1 DEF ReadAvailable
  <2>2. CASE Refuse(c)
    <3>1. c \in InFlight
      BY <2>2 DEF Refuse, InFlight
    <3> QED  BY <1>1, <2>2, <3>1 DEF Refuse, InFlightOK, AnyOperation
  <2>3. CASE Fund(c)
    <3>1. c \in InFlight
      BY <2>3 DEF Fund, InFlight
    <3> QED  BY <1>1, <1>2, <2>3, <3>1 DEF Fund, InFlightOK, AnyOperation
  <2>4. CASE UseTreasury(Amount, Spend)
    BY <1>1, <1>2, <2>4 DEF UseTreasury, AnyOperation
  <2>5. CASE \E t \in DOMAIN token, x \in Amount, force \in BOOLEAN :
               Ask(c, t, x, force)
    BY <2>5 DEF Ask
  <2> QED  BY <1>3, <2>1, <2>2, <2>3, <2>4, <2>5 DEF CallerStep
<1> QED  BY <1>3, LendingStepKinds
-----------------------------------------------------------------------------
LEMMA LendingTypeStep ==
  ASSUME LendingTypeOK, InFlightOK, [LendingNext]_lendingVars
  PROVE  LendingTypeOK'
<1>1. TypeOK'
  BY LendingStepIsOperation, TypeStep DEF LendingTypeOK
<1>2. Amount \subseteq Nat /\ Report \subseteq Int
  BY TreasuryAssumption, LendingAssumption
<1>3. ASSUME NEW c \in Caller, CallerStep(c, Amount, Spend)
      PROVE  progress' \in [Caller -> 0 .. Full] /\ lend' \in [Caller -> Request]
  <2>0. progress \in [Caller -> 0 .. Full] /\ lend \in [Caller -> Request]
    BY DEF LendingTypeOK
  <2>1. CASE ReadAvailable(c)
    BY <2>0, <2>1 DEF ReadAvailable, Request, Stage
  <2>2. CASE Refuse(c)
    BY <2>0, <2>2, ZenonT(30) DEF Refuse, Request, Stage, Outcome
  <2>3. CASE Fund(c)
    BY <2>0, <2>3 DEF Fund, Request, Stage, Outcome, ExtensionError
  <2>4. CASE UseTreasury(Amount, Spend)
    BY <2>0, <2>4 DEF UseTreasury
  <2>5. CASE \E t \in DOMAIN token, x \in Amount, force \in BOOLEAN :
               Ask(c, t, x, force)
    <3>1. DOMAIN token \subseteq Nat
      BY Registry DEF LendingTypeOK
    <3> QED  BY <1>2, <2>0, <2>5, <3>1 DEF Ask, Request, Stage, Outcome
  <2> QED  BY <1>3, <2>1, <2>2, <2>3, <2>4, <2>5 DEF CallerStep
<1>4. ASSUME NEW a \in Caller, NEW p \in Report, ReportProgress(a, p)
      PROVE  progress' \in [Caller -> 0 .. Full] /\ lend' \in [Caller -> Request]
  <2>1. p \in Int
    BY <1>2
  <2>2. Larger(0, Smaller(Full, p)) \in 0 .. Full
    BY <2>1 DEF Larger, Smaller, Full
  <2> QED  BY <1>4, <2>2 DEF ReportProgress, LendingTypeOK
<1>5. ASSUME UNCHANGED lendingVars
      PROVE  progress' \in [Caller -> 0 .. Full] /\ lend' \in [Caller -> Request]
  BY <1>5 DEF lendingVars, LendingTypeOK
<1> QED  BY <1>1, <1>3, <1>4, <1>5 DEF LendingTypeOK, LendingNext

(* Tokens are never forgotten.                                               *)
LEMMA TokensKept ==
  ASSUME TypeOK, [AnyOperation]_treasuryVars
  PROVE  DOMAIN token \subseteq DOMAIN token'
<1>1. ASSUME NEW x \in Nat, AllocateGranted(x)
      PROVE  DOMAIN token \subseteq DOMAIN token'
  BY <1>1, GrantedEffect
<1>2. ASSUME NEW t \in active, NEW s \in Int, Release(t, s)
      PROVE  DOMAIN token \subseteq DOMAIN token'
  BY <1>2, ReleaseEffect
<1>3. ASSUME NEW t \in active, NEW x \in Nat, GrantExtension(t, x)
      PROVE  DOMAIN token \subseteq DOMAIN token'
  BY <1>3, ExtensionEffect
<1>4. UNCHANGED accounts \/ UNCHANGED treasuryVars
        => DOMAIN token \subseteq DOMAIN token'
  BY DEF accounts, treasuryVars
<1> QED  BY <1>1, <1>2, <1>3, <1>4, DenialEffect DEF AnyOperation

(* The effect of a caller's step on the requests in flight: the caller's own *)
(* may start or end, the others stay as they are.                            *)
LEMMA OthersKept ==
  ASSUME LendingTypeOK, NEW c \in Caller, CallerStep(c, Amount, Spend)
  PROVE  \A d \in Caller \ {c} : lend'[d] = lend[d]
BY DEF CallerStep, ReadAvailable, Refuse, Fund, UseTreasury,
       Ask, LendingTypeOK

LEMMA InFlightStep ==
  ASSUME LendingTypeOK, InFlightOK, [LendingNext]_lendingVars
  PROVE  InFlightOK'
<1>1. DOMAIN token \subseteq DOMAIN token'
  BY LendingStepIsOperation, TokensKept DEF LendingTypeOK
<1>2. ASSUME NEW c \in Caller, CallerStep(c, Amount, Spend)
      PROVE  InFlightOK'
  <2>1. \A d \in Caller \ {c} : lend'[d] = lend[d]
    BY <1>2, OthersKept
  <2>2. \A d \in InFlight : d = c \/ LoopOf[d] # LoopOf[c]
    BY <1>2 DEF CallerStep, LoopFree
  <2>3. c \in InFlight' => /\ lend'[c].tok \in DOMAIN token
                           /\ lend'[c].extra \in Amount
    BY <1>2 DEF CallerStep, ReadAvailable, Refuse, Fund, UseTreasury,
                Ask, InFlight, InFlightOK, LendingTypeOK, Request
  <2>4. \A d \in Caller \ {c} : d \in InFlight' => d \in InFlight
    BY <2>1 DEF InFlight
  <2>5. \A d \in InFlight' : lend'[d].tok \in DOMAIN token'
                             /\ lend'[d].extra \in Amount
    <3>1. SUFFICES ASSUME NEW d \in InFlight'
                   PROVE  lend'[d].tok \in DOMAIN token'
                          /\ lend'[d].extra \in Amount
      OBVIOUS
    <3>2. d \in Caller
      BY DEF InFlight
    <3>3. CASE d = c
      BY <1>1, <2>3, <3>3
    <3>4. CASE d # c
      BY <1>1, <2>1, <2>4, <3>2, <3>4 DEF InFlightOK
    <3> QED  BY <3>3, <3>4
  <2>6. \A d, e \in InFlight' : LoopOf[d] = LoopOf[e] => d = e
    <3>1. SUFFICES ASSUME NEW d \in InFlight', NEW e \in InFlight',
                          LoopOf[d] = LoopOf[e], d # e
                   PROVE  FALSE
      OBVIOUS
    <3>2. d \in Caller /\ e \in Caller
      BY DEF InFlight
    <3> QED  BY <2>2, <2>4, <3>1, <3>2 DEF InFlightOK
  <2> QED  BY <2>5, <2>6 DEF InFlightOK
<1>3. ASSUME UNCHANGED <<treasuryVars, lend>> PROVE InFlightOK'
  BY <1>3 DEF treasuryVars, InFlightOK, InFlight
<1> QED  BY <1>2, <1>3, LendingStepKinds
-----------------------------------------------------------------------------
(* The sum that is promised is a sum of finitely many amounts: the approved  *)
(* requests are on different loops.                                          *)
LEMMA ApprovedFinite ==
  ASSUME InFlightOK
  PROVE  /\ Approved \subseteq InFlight /\ IsFiniteSet(Approved)
         /\ Promised \in Nat
<1>1. Approved \subseteq InFlight /\ Approved \subseteq Caller
  BY DEF Approved, InFlight
<1> DEFINE on == [d \in Approved |-> LoopOf[d]]
<1>2. on \in Injection(Approved, Loop)
  BY <1>1, LendingAssumption DEF InFlightOK, Injection, IsInjective
<1>3. IsFiniteSet(Approved)
  <2> HIDE DEF on
  <2> QED  BY <1>2, LendingAssumption, FS_Injection
<1>4. \A d \in Approved : [c \in Caller |-> lend[c].extra][d] \in Nat
  BY <1>1, LoanLimit DEF InFlightOK
<1> QED  BY <1>1, <1>3, <1>4, SumNat DEF Promised

(* What other loops have been promised is at most one loan for each.         *)
LEMMA OthersPromised ==
  ASSUME InFlightOK, NEW c \in Caller, LoopFree(c)
  PROVE  /\ SumOver([d \in Caller |-> lend[d].extra], Approved \ {c}) \in Nat
         /\ SumOver([d \in Caller |-> lend[d].extra], Approved \ {c}) <= Deficit
         /\ Deficit \in Nat
<1> DEFINE others == Approved \ {c}
           extra == [d \in Caller |-> lend[d].extra]
           on == [d \in others |-> LoopOf[d]]
           loops == Loop \ {LoopOf[c]}
           n == Cardinality(loops)
<1>1. Approved \subseteq InFlight /\ Approved \subseteq Caller
  BY DEF Approved, InFlight
<1>2. LoopOf[c] \in Loop /\ IsFiniteSet(Loop)
  BY LendingAssumption
<1>3. IsFiniteSet(loops) /\ n = Cardinality(Loop) - 1 /\ n \in Nat
  BY <1>2, FS_RemoveElement, FS_CardinalityType
<1>4. on \in Injection(others, loops)
  BY <1>1, LendingAssumption DEF InFlightOK, Injection, IsInjective,
                                LoopFree
<1>5. IsFiniteSet(others) /\ Cardinality(others) <= n
  <2> HIDE DEF on, others, loops
  <2> QED  BY <1>3, <1>4, FS_Injection
<1>6. \A d \in others : extra[d] \in Nat /\ extra[d] <= LargestLoan
  BY <1>1, LoanLimit DEF InFlightOK
<1>7. Cardinality(others) \in Nat /\ LargestLoan \in Nat
  BY <1>5, LoanLimit, FS_CardinalityType
<1>8. /\ SumOver(extra, others) \in Nat
      /\ SumOver(extra, others) <= Cardinality(others) * LargestLoan
  <2> HIDE DEF extra, others
  <2> QED  BY <1>5, <1>6, <1>7, SumNat, SumBound
<1>9. Cardinality(others) * LargestLoan <= n * LargestLoan
  BY <1>3, <1>5, <1>7, TimesMonotone
<1>10. Deficit = n * LargestLoan
  BY <1>3 DEF Deficit
<1>11. \A a, b \in Nat : a * b \in Nat
  OBVIOUS
<1> HIDE DEF n, others, extra
<1>12. /\ Cardinality(others) * LargestLoan \in Nat /\ n * LargestLoan \in Nat
  BY <1>3, <1>7, <1>11
<1>13. SumOver(extra, others) <= Deficit /\ Deficit \in Nat
  BY <1>8, <1>9, <1>10, <1>12
<1> QED  BY <1>8, <1>13 DEF others, extra

\* The arithmetic of a promise that fits, for the provers.
LEMMA Promises ==
  \A a \in Int, q, k, x \in Nat : x <= a /\ q <= k => a - (q + x) >= -k
OBVIOUS

(* What a caller's own step does to the balance and to the promises.         *)
LEMMA PromisesStep ==
  ASSUME LendingTypeOK, InFlightOK, PromisesBounded, [LendingNext]_lendingVars
  PROVE  PromisesBounded'
<1>1. InFlightOK' /\ LendingTypeOK'
  BY InFlightStep, LendingTypeStep
<1> DEFINE extra == [d \in Caller |-> lend[d].extra]
<1>2. /\ Available \in Int /\ Available' \in Int /\ TotalBudget \in Int
      /\ committed \in Int /\ settledSpent \in Int
      /\ committed' \in Int /\ settledSpent' \in Int
  BY <1>1, TreasuryAssumption DEF LendingTypeOK, TypeOK, Available
<1>3. ASSUME NEW c \in Caller, CallerStep(c, Amount, Spend)
      PROVE  PromisesBounded'
  <2> DEFINE mine == SumOver(extra, Approved \ {c})
  <2>1. LoopFree(c)
    BY <1>3 DEF CallerStep
  <2>2. /\ mine \in Nat /\ mine <= Deficit /\ Deficit \in Nat
        /\ IsFiniteSet(Approved) /\ Promised \in Nat
        /\ Approved \subseteq InFlight
    BY <2>1, OthersPromised, ApprovedFinite
  <2>3. \A d \in Approved : extra[d] \in Nat
    BY LoanLimit DEF Approved, InFlight, InFlightOK
  <2>4. Approved' \ {c} = Approved \ {c}
    BY <1>3, OthersKept DEF Approved
  <2>5. SumOver(extra', Approved' \ {c}) = mine
    <3>1. \A d \in Approved \ {c} : extra'[d] = extra[d]
      BY <1>3, OthersKept DEF Approved
    <3>2. SumOver(extra', Approved \ {c}) = mine
      <4> HIDE DEF extra
      <4> QED  BY <3>1, SumSame
    <3> QED  BY <2>4, <3>2
  <2>6. c \in Approved => Promised = mine + extra[c]
    <3> SUFFICES ASSUME c \in Approved PROVE Promised = mine + extra[c]
      OBVIOUS
    <3>1. mine = SumOver(extra, Approved) - extra[c]
      <4> HIDE DEF extra
      <4> QED  BY <2>2, <2>3, SumRemove
    <3> QED  BY <2>2, <2>3, <3>1 DEF Promised
  <2>7. c \notin Approved => Promised = mine
    <3>1. c \notin Approved => Approved \ {c} = Approved
      OBVIOUS
    <3> QED  BY <3>1 DEF Promised
  <2>8. c \notin Approved' => Promised' = mine
    <3>1. c \notin Approved' => Approved' \ {c} = Approved'
      OBVIOUS
    <3> QED  BY <2>5, <3>1 DEF Promised
  <2>9. c \in InFlight => lend[c].extra \in Nat /\ extra[c] = lend[c].extra
    BY LoanLimit DEF InFlightOK
  <2> HIDE DEF mine
  <2>10. CASE ReadAvailable(c)
    <3>1. Available' = Available /\ c \notin Approved /\ c \in InFlight
      BY <2>10 DEF ReadAvailable, treasuryVars, Available, Approved, InFlight
    <3>2. CASE ~Fits(lend[c].extra)
      <4>1. c \notin Approved'
        BY <2>10, <3>2 DEF ReadAvailable, Approved, LendingTypeOK
      <4> QED  BY <1>2, <2>2, <2>7, <2>8, <3>1, <4>1 DEF PromisesBounded
    <3>3. CASE Fits(lend[c].extra)
      <4>1. c \in Approved' /\ lend'[c].extra = lend[c].extra
        BY <2>10, <3>3 DEF ReadAvailable, Approved, LendingTypeOK
      <4>2. /\ IsFiniteSet(Approved')
            /\ \A d \in Approved' : extra'[d] \in Nat
        <5>1. IsFiniteSet(Approved' \ {c})
          BY <2>2, <2>4, FS_Subset
        <5>2. Approved' = (Approved' \ {c}) \cup {c}
          BY <4>1
        <5>3. IsFiniteSet(Approved')
          BY <5>1, <5>2, FS_AddElement
        <5>4. \A d \in Approved' \ {c} : extra'[d] = extra[d] /\ d \in Approved
          BY <1>3, <2>4, OthersKept DEF Approved
        <5>5. extra'[c] = lend[c].extra
          BY <4>1
        <5> QED  BY <2>3, <2>9, <3>1, <5>3, <5>4, <5>5
      <4>3. SumOver(extra', Approved' \ {c})
              = SumOver(extra', Approved') - extra'[c]
        <5> HIDE DEF extra
        <5> QED  BY <4>1, <4>2, SumRemove
      <4>4. SumOver(extra', Approved') \in Nat
        <5> HIDE DEF extra
        <5> QED  BY <4>2, SumNat
      <4>5. extra'[c] = lend[c].extra /\ Promised' = SumOver(extra', Approved')
        BY <4>1 DEF Promised
      <4>6. Promised' = mine + lend[c].extra
        BY <2>2, <2>5, <2>9, <3>1, <4>3, <4>4, <4>5
      <4>7. lend[c].extra <= Available
        BY <3>3 DEF Fits
      <4> QED  BY <1>2, <2>2, <2>9, <3>1, <4>6, <4>7, Promises
               DEF PromisesBounded
    <3> QED  BY <3>2, <3>3
  <2>11. CASE Refuse(c)
    <3>1. Available' = Available /\ c \notin Approved /\ c \notin Approved'
      BY <2>11 DEF Refuse, RecordExtensionDenial, accounts, Available,
                   Approved, LendingTypeOK
    <3> QED  BY <1>2, <2>2, <2>7, <2>8, <3>1 DEF PromisesBounded
  <2>12. CASE Fund(c)
    <3>1. c \in Approved /\ c \in InFlight
      BY <2>12 DEF Fund, Approved, InFlight
    <3>2. c \notin Approved'
      <4>1. lend[c] \in Request /\ lend \in [Caller -> Request]
        BY DEF LendingTypeOK
      <4>2. \E o : lend' = [lend EXCEPT ![c].at = "idle", ![c].outcome = o]
        BY <2>12 DEF Fund
      <4>3. lend'[c].at = "idle"
        BY <4>1, <4>2 DEF Request
      <4> QED  BY <4>3 DEF Approved
    <3>3. Promised' = mine /\ Promised = mine + lend[c].extra
          /\ lend[c].extra \in Nat
      BY <2>6, <2>8, <2>9, <3>1, <3>2
    <3>4. CASE GrantExtension(lend[c].tok, lend[c].extra)
      <4>1. Available' = Available - lend[c].extra
        BY <1>2, <3>3, <3>4 DEF GrantExtension, Available
      <4> QED  BY <1>2, <2>2, <3>3, <4>1 DEF PromisesBounded
    <3>5. CASE UNCHANGED treasuryVars
      <4>1. Available' = Available
        BY <3>5 DEF treasuryVars, Available
      <4> QED  BY <1>2, <2>2, <3>3, <4>1 DEF PromisesBounded
    <3> QED  BY <2>12, <3>4, <3>5 DEF Fund
  <2>13. CASE c \notin InFlight /\ UseTreasury(Amount, Spend)
    <3>1. c \notin Approved /\ c \notin Approved'
      BY <2>13 DEF UseTreasury, Approved, InFlight
    <3>2. Promised' = mine /\ Promised = mine
      BY <2>7, <2>8, <3>1
    <3>3. ASSUME NEW x \in Amount, AllocateGranted(x)
          PROVE  Available' >= 0
      <4>1. /\ x \in Int /\ x <= TotalBudget - committed - settledSpent
            /\ committed' = committed + x /\ settledSpent' = settledSpent
        BY <3>3, LoanLimit DEF AllocateGranted, CanAllocate, Available
      <4> QED  BY <1>2, <4>1 DEF Available
    <3>4. ASSUME NEW x \in Amount, AllocateDenied(x)
          PROVE  Available' >= Available
      <4>1. Available' = Available
        BY <3>4 DEF AllocateDenied, accounts, Available
      <4> QED  BY <1>2, <4>1
    <3>5. ASSUME NEW t \in DOMAIN token, NEW s \in Spend, Release(t, s)
          PROVE  Available' >= Available
      <4>1. s \in Int /\ token[t].ceiling \in Nat
        BY TreasuryAssumption, Registry DEF LendingTypeOK, AllocationToken
      <4>2. Clamped(t, s) \in Nat /\ Clamped(t, s) <= token[t].ceiling
        BY <4>1, ClampedRange DEF LendingTypeOK
      <4>3. /\ committed' = committed - token[t].ceiling
            /\ settledSpent' = settledSpent + Clamped(t, s)
        BY <3>5 DEF Release
      <4> QED  BY <1>2, <4>1, <4>2, <4>3 DEF Available
    <3>6. Available' >= 0 \/ Available' >= Available
      BY <2>13, <3>3, <3>4, <3>5 DEF UseTreasury
    <3>7. \A b \in Int : b >= 0 \/ b >= Available => b - mine >= -Deficit
      BY <1>2, <2>2, <3>2 DEF PromisesBounded
    <3>8. Available' - mine >= -Deficit
      BY <1>2, <3>6, <3>7
    <3> QED  BY <3>2, <3>8 DEF PromisesBounded
  <2>14. CASE c \notin InFlight
              /\ \E t \in DOMAIN token, x \in Amount, force \in BOOLEAN :
                   Ask(c, t, x, force)
    <3>1. c \notin Approved /\ c \notin Approved' /\ Available' = Available
      BY <2>14 DEF Ask, treasuryVars, Available, Approved, InFlight,
                   LendingTypeOK
    <3> QED  BY <1>2, <2>2, <2>7, <2>8, <3>1 DEF PromisesBounded
  <2> QED  BY <1>3, <2>10, <2>11, <2>12, <2>13, <2>14 DEF CallerStep
<1>4. ASSUME UNCHANGED <<treasuryVars, lend>> PROVE PromisesBounded'
  <2>1. Available' = Available /\ Approved' = Approved /\ extra' = extra
    BY <1>4 DEF treasuryVars, Available, Approved
  <2>2. Promised' = Promised
    BY <2>1 DEF Promised
  <2>3. Deficit' = Deficit
    BY DEF Deficit
  <2> QED  BY <2>1, <2>2, <2>3 DEF PromisesBounded
<1> QED  BY <1>3, <1>4, LendingStepKinds
-----------------------------------------------------------------------------
(* The inductive invariant: the types, at most one request in flight on a    *)
(* loop, and the balance together with the promises that are still out.  The *)
(* balance alone is not inductive: a loan that is approved lowers it later.  *)
LendingInvariant == LendingTypeOK /\ InFlightOK /\ PromisesBounded

LEMMA LendingInvariantInit == LendingInit => LendingInvariant
<1> SUFFICES ASSUME LendingInit PROVE LendingInvariant
  OBVIOUS
<1>1. TypeOK
  BY TypeInit DEF LendingInit
<1>2. NoRequest \in Request
  BY DEF NoRequest, Request, Stage, Outcome, NoToken, Full
<1>3. LendingTypeOK
  BY <1>1, <1>2 DEF LendingInit, LendingTypeOK, Full
<1>4. InFlight = {} /\ Approved = {}
  BY DEF LendingInit, InFlight, Approved, NoRequest
<1>5. InFlightOK
  BY <1>4 DEF InFlightOK
<1>6. Promised = 0 /\ Available = TotalBudget /\ TotalBudget \in Nat
  BY <1>4, SumEmpty, TreasuryAssumption
     DEF Promised, LendingInit, Init, Available
<1>7. Deficit \in Nat
  <2>1. Cardinality(Loop) # 0
    BY LendingAssumption, FS_EmptySet
  <2>2. Cardinality(Loop) - 1 \in Nat /\ LargestLoan \in Nat
    BY <2>1, LoanLimit
  <2>3. \A a, b \in Nat : a * b \in Nat
    OBVIOUS
  <2> QED  BY <2>2, <2>3 DEF Deficit
<1> QED  BY <1>3, <1>5, <1>6, <1>7 DEF LendingInvariant, PromisesBounded

THEOREM LendingInvariantHolds == LendingSpec => []LendingInvariant
<1>1. LendingInvariant /\ [LendingNext]_lendingVars => LendingInvariant'
  BY LendingTypeStep, InFlightStep, PromisesStep DEF LendingInvariant
<1> QED  BY <1>1, LendingInvariantInit, PTL DEF LendingSpec

(* Every variable of the Reallocator keeps its type; in particular a         *)
(* reported progress is always stored between nothing and done.              *)
THEOREM LendingTypeCorrect == LendingSpec => []LendingTypeOK
<1>1. LendingInvariant => LendingTypeOK
  BY DEF LendingInvariant
<1> QED  BY <1>1, LendingInvariantHolds, PTL

(* Requests in flight are on different event loops.                          *)
THEOREM OneRequestPerLoop == LendingSpec => []InFlightOK
<1>1. LendingInvariant => InFlightOK
  BY DEF LendingInvariant
<1> QED  BY <1>1, LendingInvariantHolds, PTL

(* The balance, with every approved loan already taken from it, is never     *)
(* more than one loan for every other loop below zero.                       *)
THEOREM PromisesAreBounded == LendingSpec => []PromisesBounded
<1>1. LendingInvariant => PromisesBounded
  BY DEF LendingInvariant
<1> QED  BY <1>1, LendingInvariantHolds, PTL

LEMMA PromisesCover ==
  ASSUME LendingInvariant PROVE OverdraftBounded /\ Available \in Int
<1>1. Promised \in Nat
  BY ApprovedFinite DEF LendingInvariant
<1>2. Available \in Int
  BY TreasuryAssumption DEF LendingInvariant, LendingTypeOK, TypeOK, Available
<1>3. Deficit \in Int
  <2>1. \A a \in Int, b \in Nat : a * b \in Int
    OBVIOUS
  <2>2. Cardinality(Loop) - 1 \in Int /\ LargestLoan \in Nat
    BY LoanLimit
  <2> QED  BY <2>1, <2>2 DEF Deficit
<1> QED  BY <1>1, <1>2, <1>3
         DEF LendingInvariant, PromisesBounded, OverdraftBounded

(* However many agents on however many event loops race for loans, a session *)
(* is overdrawn by at most one loan for every loop but one.                  *)
THEOREM OverdraftIsBounded == LendingSpec => []OverdraftBounded
<1>1. LendingInvariant => OverdraftBounded
  BY PromisesCover
<1> QED  BY <1>1, LendingInvariantHolds, PTL

(* With a single event loop the reallocator never oversubscribes the pool:   *)
(* the unlocked check and the locked grant act as one.                       *)
THEOREM OneLoopIsSolvent ==
  ASSUME Cardinality(Loop) = 1
  PROVE  LendingSpec => []NeverOversubscribed
<1>1. Deficit = 0
  <2>1. \A b \in Nat : (1 - 1) * b = 0
    OBVIOUS
  <2> QED  BY <2>1, LoanLimit DEF Deficit
<1>2. LendingInvariant => NeverOversubscribed
  BY <1>1, PromisesCover DEF OverdraftBounded, NeverOversubscribed
<1> QED  BY <1>2, LendingInvariantHolds, PTL

(* The counters stay exact however the callers interleave.                   *)
THEOREM LendingConserves == LendingSpec => []Conservation
<1>1. LendingInvariant /\ Conservation /\ [LendingNext]_lendingVars
        => Conservation'
  BY LendingStepIsOperation, ConservationStep
     DEF LendingInvariant, LendingTypeOK
<1>2. LendingInit => Conservation
  BY ConservationInit DEF LendingInit
<1> QED  BY <1>1, <1>2, LendingInvariantHolds, PTL DEF LendingSpec
-----------------------------------------------------------------------------
(* The decision of a request, between the step that takes it and the step    *)
(* that carries it out.  What the gate saw is the request's own; the         *)
(* comparison with the balance stays true only if nobody else can move it.   *)
GatePassed ==
  \A c \in Caller : lend[c].at \in {"read", "approved"} => Earned(lend[c])

DecisionHolds ==
  \A c \in Caller :
    /\ lend[c].at = "approved" => Fits(lend[c].extra)
    /\ lend[c].at = "refuse" => ~Earned(lend[c]) \/ ~Fits(lend[c].extra)

\* What a step of c does to c's own request.
RequestStep(c) ==
  \/ /\ lend[c].at = "idle" /\ lend' = lend
  \/ /\ lend[c].at = "idle"
     /\ UNCHANGED treasuryVars
     /\ lend'[c].at = IF Earned(lend'[c]) THEN "read" ELSE "refuse"
     /\ lend'[c].outcome = "none"
  \/ /\ lend[c].at = "read"
     /\ UNCHANGED treasuryVars
     /\ lend'[c].at = IF Fits(lend[c].extra) THEN "approved" ELSE "refuse"
     /\ lend'[c].force = lend[c].force /\ lend'[c].extra = lend[c].extra
     /\ lend'[c].seen = lend[c].seen /\ lend'[c].outcome = lend[c].outcome
  \/ /\ lend[c].at = "refuse" /\ lend'[c].at = "idle"
  \/ /\ lend[c].at = "approved" /\ lend'[c].at = "idle"
     /\ lend'[c].outcome # "CreditExtensionDeniedError"

LEMMA CallerStepRequest ==
  ASSUME LendingTypeOK, NEW c \in Caller, CallerStep(c, Amount, Spend)
  PROVE  RequestStep(c) /\ \A d \in Caller \ {c} : lend'[d] = lend[d]
<1>1. lend \in [Caller -> Request] /\ lend[c] \in Request
  BY DEF LendingTypeOK
<1>2. DOMAIN lend[c] = {"at", "tok", "extra", "force", "seen", "outcome"}
  BY <1>1 DEF Request
<1>3. \A d \in Caller \ {c} : lend'[d] = lend[d]
  BY OthersKept
<1>4. CASE ReadAvailable(c)
  BY <1>1, <1>2, <1>3, <1>4 DEF ReadAvailable, RequestStep
<1>5. CASE Refuse(c)
  BY <1>1, <1>2, <1>3, <1>5 DEF Refuse, RequestStep
<1>6. CASE Fund(c)
  <2>1. PICK o \in {"granted", "UnknownAllocationTokenError"} :
          lend' = [lend EXCEPT ![c].at = "idle", ![c].outcome = o]
    BY <1>6 DEF Fund, ExtensionError
  <2>2. lend[c].at = "approved"
    BY <1>6 DEF Fund
  <2>3. lend'[c].at = "idle" /\ lend'[c].outcome = o
    BY <1>1, <1>2, <2>1
  <2> QED  BY <1>3, <2>2, <2>3 DEF RequestStep
<1>7. CASE c \notin InFlight /\ UseTreasury(Amount, Spend)
  BY <1>7 DEF UseTreasury, RequestStep, InFlight
<1>8. CASE c \notin InFlight
            /\ \E t \in DOMAIN token, x \in Amount, force \in BOOLEAN :
                 Ask(c, t, x, force)
  BY <1>1, <1>3, <1>8 DEF Ask, RequestStep, Earned
<1> QED  BY <1>4, <1>5, <1>6, <1>7, <1>8 DEF CallerStep

LEMMA GateStep ==
  ASSUME LendingTypeOK, GatePassed, [LendingNext]_lendingVars
  PROVE  GatePassed'
<1>1. ASSUME NEW c \in Caller, CallerStep(c, Amount, Spend)
      PROVE  GatePassed'
  <2>1. RequestStep(c) /\ \A d \in Caller \ {c} : lend'[d] = lend[d]
    BY <1>1, CallerStepRequest
  <2>2. (lend[c].at \in {"read", "approved"} => Earned(lend[c]))'
    BY <2>1 DEF RequestStep, GatePassed, Earned
  <2>3. ASSUME NEW d \in Caller \ {c}
        PROVE  (lend[d].at \in {"read", "approved"} => Earned(lend[d]))'
    BY <2>1, <2>3 DEF GatePassed, Earned
  <2> QED  BY <2>2, <2>3 DEF GatePassed
<1>2. ASSUME UNCHANGED <<treasuryVars, lend>> PROVE GatePassed'
  BY <1>2 DEF GatePassed, Earned
<1> QED  BY <1>1, <1>2, LendingStepKinds

LEMMA DecisionStep ==
  ASSUME Cardinality(Loop) = 1, LendingTypeOK, DecisionHolds,
         [LendingNext]_lendingVars
  PROVE  DecisionHolds'
<1>1. ASSUME NEW c \in Caller, CallerStep(c, Amount, Spend)
      PROVE  DecisionHolds'
  <2>1. RequestStep(c) /\ \A d \in Caller \ {c} : lend'[d] = lend[d]
    BY <1>1, CallerStepRequest
  <2>2. \A d \in Caller \ {c} : LoopOf[d] = LoopOf[c]
    <3>1. PICK l : Loop = {l}
      BY LendingAssumption, FS_Singleton
    <3> QED  BY <3>1, LendingAssumption
  <2>3. \A d \in Caller \ {c} : lend'[d].at = "idle"
    BY <1>1, <2>1, <2>2 DEF CallerStep, LoopFree, InFlight
  <2>4. UNCHANGED treasuryVars => Available' = Available
    BY DEF treasuryVars, Available
  <2>5. (/\ lend[c].at = "approved" => Fits(lend[c].extra)
         /\ lend[c].at = "refuse" => ~Earned(lend[c]) \/ ~Fits(lend[c].extra))'
    BY <2>1, <2>4 DEF RequestStep, DecisionHolds, Earned, Fits
  <2> QED  BY <2>3, <2>5 DEF DecisionHolds
<1>2. ASSUME UNCHANGED <<treasuryVars, lend>> PROVE DecisionHolds'
  BY <1>2 DEF treasuryVars, DecisionHolds, Earned, Fits, Available
<1> QED  BY <1>1, <1>2, LendingStepKinds

LEMMA DecisionInit == LendingInit => GatePassed /\ DecisionHolds
BY DEF LendingInit, NoRequest, GatePassed, DecisionHolds

(* On any number of loops, and whatever is reported between request and      *)
(* grant: what raises a ceiling is exactly one approved request, which was   *)
(* forced or saw its agent far enough, and which ends with the loan.         *)
THEOREM LoansEarned == LendingSpec => LoansAreEarned
<1> DEFINE LoanOf(t, c) ==
      /\ lend[c].tok = t /\ lend[c].at = "approved" /\ Earned(lend[c])
      /\ token'[t].extensions = token[t].extensions + lend[c].extra
      /\ lend'[c].at = "idle"
<1>1. ASSUME LendingInvariant, GatePassed, [LendingNext]_lendingVars,
             NEW t \in active, token'[t].extensions > token[t].extensions
      PROVE  \E c \in Caller : LoanOf(t, c)
  <2>1. TypeOK /\ t \in DOMAIN token /\ token[t] \in AllocationToken
    <3>1. TypeOK
      BY <1>1 DEF LendingInvariant, LendingTypeOK
    <3> QED  BY <3>1, Registry DEF TypeOK
  <2>2. token[t].extensions \in Nat
    BY <2>1 DEF AllocationToken
  <2>3. token'[t].extensions # token[t].extensions
    BY <1>1, <2>2
  <2>4. /\ ~UNCHANGED accounts /\ ~UNCHANGED treasuryVars
        /\ ~\E x \in Nat : AllocateGranted(x)
        /\ ~\E u \in active, s \in Int : Release(u, s)
    <3>1. ASSUME NEW x \in Nat, AllocateGranted(x) PROVE FALSE
      BY <2>1, <2>3, <3>1, GrantedEffect
    <3>2. ASSUME NEW u \in active, NEW s \in Int, Release(u, s) PROVE FALSE
      <4>1. /\ \A v \in DOMAIN token \ {u} : token'[v] = token[v]
            /\ token'[u] = [token[u] EXCEPT !.spent = Clamped(u, s),
                                            !.status = "settled"]
        BY <2>1, <3>2, ReleaseEffect
      <4> HIDE DEF Clamped
      <4>2. t = u => token'[t].extensions = token[t].extensions
        BY <2>1, <4>1 DEF AllocationToken
      <4> QED  BY <2>1, <2>3, <4>1, <4>2
    <3> QED  BY <2>3, <3>1, <3>2 DEF accounts, treasuryVars
  <2>5. PICK c \in Caller : CallerStep(c, Amount, Spend)
    BY <1>1, <2>4, LendingStepKinds
  <2>6. Amount \subseteq Nat /\ Spend \subseteq Int
        /\ \A u, s : Release(u, s) => u \in active
    BY TreasuryAssumption DEF Release
  <2>7. Fund(c) /\ GrantExtension(lend[c].tok, lend[c].extra)
    BY <2>4, <2>5, <2>6
    DEF CallerStep, ReadAvailable, Refuse, RecordExtensionDenial, Fund,
        UseTreasury, AllocateDenied, Ask
  <2>8. c \in InFlight /\ lend[c].extra \in Nat /\ lend[c].tok \in active
    BY <1>1, <2>6, <2>7
    DEF Fund, GrantExtension, InFlight, LendingInvariant, InFlightOK
  <2>9. /\ \A u \in DOMAIN token \ {lend[c].tok} : token'[u] = token[u]
        /\ token'[lend[c].tok].extensions
             = token[lend[c].tok].extensions + lend[c].extra
    <3> DEFINE u == lend[c].tok
               x == lend[c].extra
    <3>1. u \in active /\ x \in Nat /\ GrantExtension(u, x)
      BY <2>7, <2>8
    <3> HIDE DEF u, x
    <3>2. /\ u \in DOMAIN token
          /\ \A v \in DOMAIN token \ {u} : token'[v] = token[v]
          /\ token'[u] = [token[u] EXCEPT !.ceiling = @ + x, !.extensions = @ + x]
      BY <2>1, <3>1, ExtensionEffect
    <3>3. token[u] \in AllocationToken
      BY <2>1, <3>2, Registry
    <3>4. token'[u].extensions = token[u].extensions + x
      BY <3>2, <3>3 DEF AllocationToken
    <3> QED  BY <3>2, <3>4 DEF u, x
  <2>10. lend[c].tok = t
    BY <2>1, <2>3, <2>9
  <2>11. lend[c].at = "approved" /\ Earned(lend[c])
    BY <1>1, <2>7 DEF Fund, GatePassed
  <2>12. lend'[c].at = "idle"
    BY <1>1, <2>5, <2>11, CallerStepRequest DEF RequestStep, LendingInvariant
  <2> QED  BY <2>9, <2>10, <2>11, <2>12
<1>2. LendingInvariant /\ GatePassed /\ [LendingNext]_lendingVars => GatePassed'
  BY GateStep DEF LendingInvariant
<1>3. LendingInvariant /\ GatePassed /\ [LendingNext]_lendingVars
      => [\A t \in active :
            token'[t].extensions > token[t].extensions =>
              \E c \in Caller : LoanOf(t, c)]_lendingVars
  BY <1>1
<1> QED
  BY <1>2, <1>3, DecisionInit, LendingInvariantHolds, PTL
  DEF LendingSpec, LoansAreEarned

(* On one event loop a refusal is still true when it is put on the audit     *)
(* trail: the agent was not far enough or the pool really is too small.      *)
THEOREM RefusalsTrue ==
  ASSUME Cardinality(Loop) = 1
  PROVE  LendingSpec => RefusalsAreTrue
<1>1. ASSUME LendingInvariant, DecisionHolds, [LendingNext]_lendingVars,
             NEW c \in Caller,
             lend'[c].outcome = "CreditExtensionDeniedError",
             lend[c].outcome # "CreditExtensionDeniedError"
      PROVE  ~Earned(lend[c]) \/ ~Fits(lend[c].extra)
  <2>1. PICK d \in Caller : CallerStep(d, Amount, Spend)
    BY <1>1, LendingStepKinds
  <2>2. /\ RequestStep(d)
        /\ \A e \in Caller \ {d} : lend'[e] = lend[e]
    BY <1>1, <2>1, CallerStepRequest DEF LendingInvariant
  <2>3. d = c
    BY <1>1, <2>2
  <2>4. lend[c].at = "refuse"
    BY <1>1, <2>2, <2>3 DEF RequestStep
  <2> QED  BY <1>1, <2>4 DEF DecisionHolds
<1>2. LendingInvariant /\ DecisionHolds /\ [LendingNext]_lendingVars
        => DecisionHolds'
  BY DecisionStep DEF LendingInvariant
<1>3. LendingInvariant /\ DecisionHolds /\ [LendingNext]_lendingVars
      => [\A c \in Caller :
            lend'[c].outcome = "CreditExtensionDeniedError"
              /\ lend[c].outcome # "CreditExtensionDeniedError"
            => ~Earned(lend[c]) \/ ~Fits(lend[c].extra)]_lendingVars
  BY <1>1
<1> QED
  BY <1>2, <1>3, DecisionInit, LendingInvariantHolds, PTL
  DEF LendingSpec, RefusalsAreTrue

LEMMA SolventStep ==
  ASSUME LendingInvariant, DecisionHolds, Conservation, [LendingNext]_lendingVars
  PROVE  [CH!SolventNext]_Claims
<1>1. Amount \subseteq Nat /\ Spend \subseteq Int /\ TypeOK
      /\ \A t, s : Release(t, s) => t \in active
  BY TreasuryAssumption DEF LendingInvariant, LendingTypeOK, Release
<1>2. UNCHANGED accounts \/ UNCHANGED treasuryVars => UNCHANGED Claims
  BY DEF accounts, treasuryVars, Claims
<1>3. ASSUME NEW x \in Amount, AllocateGranted(x) PROVE CH!SolventNext
  BY <1>1, <1>3, GrantedOpens DEF CH!SolventNext
<1>4. ASSUME NEW t \in active, NEW s \in Spend, Release(t, s) PROVE CH!SolventNext
  <2>1. /\ t \in DOMAIN Claims /\ Clamped(t, s) \in 0 .. Claims[t].ceiling
        /\ CH!Close(t, Clamped(t, s))
    BY <1>1, <1>4, ReleaseCloses
  <2> HIDE DEF Clamped
  <2> QED  BY <2>1 DEF CH!SolventNext
<1>5. ASSUME NEW t \in active, NEW x \in Amount, GrantExtension(t, x), Fits(x)
      PROVE  CH!SolventNext
  <2>1. t \in DOMAIN Claims /\ CH!Raise(t, x)
    BY <1>1, <1>5, ExtensionRaises
  <2>2. x <= CH!Free
    BY <1>1, <1>5, FreeIsAvailable DEF Fits
  <2> QED  BY <2>1, <2>2 DEF CH!SolventNext
<1>6. ASSUME NEW c \in Caller, CallerStep(c, Amount, Spend)
      PROVE  [CH!SolventNext]_Claims
  <2>1. CASE Fund(c)
    <3>1. CASE GrantExtension(lend[c].tok, lend[c].extra)
      <4> DEFINE t == lend[c].tok
                 x == lend[c].extra
      <4>1. t \in active /\ x \in Amount /\ GrantExtension(t, x) /\ Fits(x)
        BY <2>1, <3>1
        DEF Fund, GrantExtension, InFlight, LendingInvariant, InFlightOK,
            DecisionHolds
      <4> HIDE DEF t, x
      <4> QED  BY <1>5, <4>1
    <3> QED  BY <1>2, <2>1, <3>1 DEF Fund
  <2>2. CASE UseTreasury(Amount, Spend)
    BY <1>1, <1>2, <1>3, <1>4, <2>2 DEF UseTreasury, AllocateDenied
  <2>3. CASE \/ ReadAvailable(c) \/ Refuse(c)
             \/ \E t \in DOMAIN token, x \in Amount, force \in BOOLEAN :
                  Ask(c, t, x, force)
    BY <1>2, <2>3
    DEF ReadAvailable, Refuse, RecordExtensionDenial, Ask
  <2> QED  BY <1>6, <2>1, <2>2, <2>3 DEF CallerStep
<1> QED  BY <1>2, <1>6, LendingStepKinds

(* With one event loop the treasury and the reallocator together implement a *)
(* clearinghouse in which a raise, too, is covered by free money: the check  *)
(* outside the lock costs nothing.                                           *)
THEOREM OneLoopImplementsSolvent ==
  ASSUME Cardinality(Loop) = 1
  PROVE  LendingSpec => ImplementsSolvent
<1>1. LendingInit => CH!Init
  <2> SUFFICES ASSUME LendingInit PROVE Claims = << >>
    BY DEF CH!Init
  <2>1. TypeOK /\ Len(token) = 0
    BY TypeInit DEF LendingInit, Init
  <2>2. Claims \in Seq(CH!Claim) /\ Len(Claims) = 0
    BY <2>1, ClaimsAreClaims
  <2> QED  BY <2>2, EmptySeq
<1>2. LendingInvariant /\ DecisionHolds /\ [LendingNext]_lendingVars
        => DecisionHolds'
  BY DecisionStep DEF LendingInvariant
<1>3. LendingInvariant /\ DecisionHolds /\ Conservation /\ [LendingNext]_lendingVars
        => [CH!SolventNext]_Claims
  BY SolventStep
<1> QED
  BY <1>1, <1>2, <1>3, DecisionInit, LendingInvariantHolds, LendingConserves, PTL
  DEF LendingSpec, ImplementsSolvent, CH!SolventSpec
=============================================================================
