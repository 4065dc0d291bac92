-------------------------------- MODULE Money --------------------------------
(* Amounts of money and their sums, shared by every ledger module.           *)
(*                                                                           *)
(* The program keeps every amount as a decimal.Decimal and never rounds in   *)
(* the ledger, so an amount is modelled as a whole number of the smallest    *)
(* unit in use.  A sum over claims is the number of units in them: the set   *)
(* of coins <<t, 1>> .. <<t, f[t]>> of every claim t, counted.  Written this *)
(* way a sum needs no recursion, and its laws are theorems (MoneyProofs).    *)
EXTENDS Integers, FiniteSets

\* The coins that function f assigns to the members of S.
Coins(f, S) == UNION {{t} \X (1 .. f[t]) : t \in S}

\* The sum of f[t] over t in the finite set S, for f[t] in Nat.
SumOver(f, S) == Cardinality(Coins(f, S))

\* Python's min(a, b) and max(a, b) on two amounts.
Smaller(a, b) == IF a <= b THEN a ELSE b
Larger(a, b) == IF a >= b THEN a ELSE b
=============================================================================
