------------------------- MODULE MCThreadOperations -------------------------
(* One user of a turn and one of a goal, and a handler that awaits a turn. *)
EXTENDS ThreadOperations

CONSTANTS t1, u1, u2, g1
=============================================================================
