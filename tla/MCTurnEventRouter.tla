------------------------- MODULE MCTurnEventRouter -------------------------
(* Small instances of TurnEventRouter for TLC.  Start operations, streams  *)
(* and threads are interchangeable; only the first two are told apart by   *)
(* nothing at all in every instance, so only they are permuted.            *)
EXTENDS TurnEventRouter, TLC

CONSTANTS h1, h2, t1, t2

Symmetry == Permutations({h1, h2}) \cup Permutations({t1, t2})
=============================================================================
