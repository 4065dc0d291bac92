---------------------------- MODULE Clearinghouse ----------------------------
(* What a treasury promises: a pool of money from which claims are opened,   *)
(* raised and closed.  There are no running totals and no log here.  What is *)
(* free is what the claims leave, so an implementation that keeps counters   *)
(* (core/treasury.py, backends/postgres.py) has to keep them exact.          *)
EXTENDS Money, Sequences

CONSTANTS
  Pool,     \* the session budget
  Amount    \* the amounts a claim may be opened for or raised by

VARIABLE claim   \* the claims in the order they were opened

Claim == [ceiling : Nat, spent : Nat, open : BOOLEAN]

OpenClaims == {t \in DOMAIN claim : claim[t].open}
Held == SumOver([t \in DOMAIN claim |-> claim[t].ceiling], OpenClaims)
Spent == SumOver([t \in DOMAIN claim |-> claim[t].spent],
                 DOMAIN claim \ OpenClaims)
Free == Pool - Held - Spent

Init == claim = << >>

\* A claim opens only on money that is free, and never on an empty pool.
Open(x) ==
  /\ Free > 0
  /\ x <= Free
  /\ claim' = Append(claim, [ceiling |-> x, spent |-> 0, open |-> TRUE])

\* An open claim may be raised; the treasury itself does not look at the pool.
Raise(t, x) ==
  /\ claim[t].open
  /\ claim' = [claim EXCEPT ![t].ceiling = @ + x]

\* A claim closes once, for at most its ceiling.
Close(t, s) ==
  /\ claim[t].open
  /\ s \in 0 .. claim[t].ceiling
  /\ claim' = [claim EXCEPT ![t].spent = s, ![t].open = FALSE]

Next ==
  \/ \E x \in Amount : Open(x)
  \/ \E t \in DOMAIN claim : \E x \in Amount : Raise(t, x)
  \/ \E t \in DOMAIN claim : \E s \in 0 .. claim[t].ceiling : Close(t, s)

Spec == Init /\ [][Next]_claim

\* The solvent clearinghouse: a raise too has to be covered by the pool.
SolventNext ==
  \/ \E x \in Amount : Open(x)
  \/ \E t \in DOMAIN claim : \E x \in Amount : x <= Free /\ Raise(t, x)
  \/ \E t \in DOMAIN claim : \E s \in 0 .. claim[t].ceiling : Close(t, s)

SolventSpec == Init /\ [][SolventNext]_claim
=============================================================================
