---------------------------- MODULE MCDegradation ----------------------------
(* Two threads on the default pricing table: both resolve models for a1, one *)
(* of them also for a2, which has no other thread.                           *)
EXTENDS Degradation, TLC

CONSTANTS c1, c2, a1, a2

Serves == (c1 :> {a1}) @@ (c2 :> {a1, a2})
=============================================================================
