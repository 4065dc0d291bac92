----------------------------- MODULE MoneyProofs -----------------------------
(* The laws of SumOver that the conservation proofs rest on.                 *)
EXTENDS Money, FiniteSetTheorems, TLAPS

(* One claim holds exactly f[t] coins.                                       *)
LEMMA PurseSize ==
  ASSUME NEW t, NEW n \in Nat
  PROVE  /\ IsFiniteSet({t} \X (1 .. n))
         /\ Cardinality({t} \X (1 .. n)) = n
<1>1. IsFiniteSet({t}) /\ Cardinality({t}) = 1
  BY FS_Singleton
<1>2. IsFiniteSet(1 .. n) /\ Cardinality(1 .. n) = n
  BY FS_Interval
<1>3. /\ IsFiniteSet({t} \X (1 .. n))
      /\ Cardinality({t} \X (1 .. n)) = Cardinality({t}) * Cardinality(1 .. n)
  <2> DEFINE owner == {t}
             unit == 1 .. n
  <2>1. IsFiniteSet(owner) /\ IsFiniteSet(unit)
    BY <1>1, <1>2
  <2> HIDE DEF owner, unit
  <2>2. /\ IsFiniteSet(owner \X unit)
        /\ Cardinality(owner \X unit) = Cardinality(owner) * Cardinality(unit)
    BY <2>1, FS_Product
  <2> QED  BY <2>2 DEF owner, unit
<1>4. Cardinality({t}) * Cardinality(1 .. n) = n
  BY <1>1, <1>2
<1> QED  BY <1>3, <1>4

(* Finitely many claims hold finitely many coins, so their sum is a natural. *)
LEMMA SumNat ==
  ASSUME NEW f, NEW S, IsFiniteSet(S), \A t \in S : f[t] \in Nat
  PROVE  IsFiniteSet(Coins(f, S)) /\ SumOver(f, S) \in Nat
<1> DEFINE purse == [t \in S |-> {t} \X (1 .. f[t])]
           purses == {purse[t] : t \in S}
<1>1. purse \in Surjection(S, purses)
  BY DEF Surjection
<1>2. IsFiniteSet(purses)
  <2> HIDE DEF purse
  <2> QED  BY <1>1, FS_Surjection
<1>3. \A P \in purses : IsFiniteSet(P)
  <2>1. SUFFICES ASSUME NEW s \in S PROVE IsFiniteSet(purse[s])
    OBVIOUS
  <2>2. f[s] \in Nat
    OBVIOUS
  <2>3. IsFiniteSet({s} \X (1 .. f[s]))
    BY <2>2, PurseSize
  <2> QED  BY <2>3
<1>4. IsFiniteSet(UNION purses)
  BY <1>2, <1>3, FS_UNION
<1>5. Coins(f, S) = UNION purses
  BY DEF Coins
<1> QED  BY <1>4, <1>5, FS_CardinalityType DEF SumOver

(* The empty sum.                                                            *)
LEMMA SumEmpty == ASSUME NEW f PROVE SumOver(f, {}) = 0
<1>1. Coins(f, {}) = {}
  BY DEF Coins
<1> QED  BY <1>1, FS_EmptySet DEF SumOver

(* A sum depends only on the amounts of the claims summed.                   *)
LEMMA SumSame ==
  ASSUME NEW f, NEW g, NEW S, \A t \in S : f[t] = g[t]
  PROVE  SumOver(f, S) = SumOver(g, S)
<1>1. Coins(f, S) = Coins(g, S)
  BY DEF Coins
<1> QED  BY <1>1 DEF SumOver

(* Adding a claim adds its amount.                                           *)
LEMMA SumAdd ==
  ASSUME NEW f, NEW S, IsFiniteSet(S), NEW t, t \notin S,
         \A s \in S \cup {t} : f[s] \in Nat
  PROVE  SumOver(f, S \cup {t}) = SumOver(f, S) + f[t]
<1> DEFINE purse == {t} \X (1 .. f[t])
<1>1. Coins(f, S \cup {t}) = Coins(f, S) \cup purse
  BY DEF Coins
<1>2. Coins(f, S) \cap purse = {}
  BY DEF Coins
<1>3. IsFiniteSet(Coins(f, S)) /\ SumOver(f, S) \in Nat
  BY SumNat
<1>4. IsFiniteSet(purse) /\ Cardinality(purse) = f[t]
  BY PurseSize
<1>5. Cardinality(Coins(f, S) \cup purse)
        = Cardinality(Coins(f, S)) + Cardinality(purse) - Cardinality({})
  <2> HIDE DEF purse
  <2> QED  BY <1>2, <1>3, <1>4, FS_Union
<1>6. Cardinality({}) = 0
  BY FS_EmptySet
<1>7. f[t] \in Nat
  OBVIOUS
<1> HIDE DEF purse
<1>8. SumOver(f, S \cup {t}) = Cardinality(Coins(f, S) \cup purse)
  BY <1>1 DEF SumOver
<1>9. SumOver(f, S) = Cardinality(Coins(f, S))
  BY DEF SumOver
<1> QED  BY <1>3, <1>4, <1>5, <1>6, <1>7, <1>8, <1>9

(* Removing a claim removes its amount.                                      *)
LEMMA SumRemove ==
  ASSUME NEW f, NEW S, IsFiniteSet(S), NEW t \in S,
         \A s \in S : f[s] \in Nat
  PROVE  SumOver(f, S \ {t}) = SumOver(f, S) - f[t]
<1>1. IsFiniteSet(S \ {t})
  BY FS_Subset
<1>2. S = (S \ {t}) \cup {t}
  OBVIOUS
<1>3. SumOver(f, (S \ {t}) \cup {t}) = SumOver(f, S \ {t}) + f[t]
  BY <1>1, SumAdd
<1>4. SumOver(f, S \ {t}) \in Nat /\ f[t] \in Nat
  BY <1>1, SumNat
<1>5. SumOver(f, S) = SumOver(f, S \ {t}) + f[t]
  BY <1>2, <1>3
<1> QED  BY <1>4, <1>5

(* Changing the amount of one claim changes the sum by the difference.       *)
LEMMA SumUpdate ==
  ASSUME NEW f, NEW g, NEW S, IsFiniteSet(S), NEW t \in S,
         \A s \in S : f[s] \in Nat /\ g[s] \in Nat,
         \A s \in S \ {t} : g[s] = f[s]
  PROVE  SumOver(g, S) = SumOver(f, S) - f[t] + g[t]
<1>1. SumOver(f, S \ {t}) = SumOver(f, S) - f[t]
  BY SumRemove
<1>2. SumOver(g, S \ {t}) = SumOver(g, S) - g[t]
  BY SumRemove
<1>3. SumOver(g, S \ {t}) = SumOver(f, S \ {t})
  BY SumSame
<1>4. SumOver(f, S) \in Nat /\ SumOver(g, S) \in Nat
  BY SumNat
<1> QED  BY <1>1, <1>2, <1>3, <1>4

(* One claim never exceeds the sum it is part of.                            *)
LEMMA SumMember ==
  ASSUME NEW f, NEW S, IsFiniteSet(S), NEW t \in S,
         \A s \in S : f[s] \in Nat
  PROVE  f[t] <= SumOver(f, S)
<1>1. SumOver(f, S \ {t}) = SumOver(f, S) - f[t]
  BY SumRemove
<1>2. SumOver(f, S \ {t}) \in Nat
  BY SumNat, FS_Subset
<1>3. SumOver(f, S) \in Nat
  BY SumNat
<1> QED  BY <1>1, <1>2, <1>3

(* Claims of at most m each add up to at most m for every claim.             *)
LEMMA SumBound ==
  ASSUME NEW f, NEW S, IsFiniteSet(S), NEW m \in Nat,
         \A t \in S : f[t] \in Nat /\ f[t] <= m
  PROVE  SumOver(f, S) <= Cardinality(S) * m
<1>1. Coins(f, S) \subseteq S \X (1 .. m)
  BY DEF Coins
<1>2. IsFiniteSet(1 .. m) /\ Cardinality(1 .. m) = m
  BY FS_Interval
<1>3. /\ IsFiniteSet(S \X (1 .. m))
      /\ Cardinality(S \X (1 .. m)) = Cardinality(S) * Cardinality(1 .. m)
  <2> DEFINE unit == 1 .. m
  <2>1. IsFiniteSet(unit)
    BY <1>2
  <2> HIDE DEF unit
  <2>2. /\ IsFiniteSet(S \X unit)
        /\ Cardinality(S \X unit) = Cardinality(S) * Cardinality(unit)
    BY <2>1, FS_Product
  <2> QED  BY <2>2 DEF unit
<1>4. Cardinality(Coins(f, S)) <= Cardinality(S \X (1 .. m))
  BY <1>1, <1>3, FS_Subset
<1> QED  BY <1>2, <1>3, <1>4 DEF SumOver

(* A product grows with its first factor.                                    *)
LEMMA TimesMonotone == \A a, b, m \in Nat : a <= b => a * m <= b * m
<1>1. \A d, a, m \in Nat : (a + d) * m = a * m + d * m /\ d * m \in Nat
                           /\ a * m \in Nat
  OBVIOUS
<1>2. SUFFICES ASSUME NEW a \in Nat, NEW b \in Nat, NEW m \in Nat, a <= b
               PROVE  a * m <= b * m
  OBVIOUS
<1>3. b - a \in Nat /\ b = a + (b - a)
  BY <1>2
<1>4. PICK d \in Nat : b = a + d
  BY <1>3
<1> QED  BY <1>1, <1>4
=============================================================================
