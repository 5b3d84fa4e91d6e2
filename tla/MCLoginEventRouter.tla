------------------------ MODULE MCLoginEventRouter ------------------------
(* Three logins, of which two are kept, and two waits.                     *)
EXTENDS LoginEventRouter, TLC

CONSTANTS l1, l2, l3, w1, w2

Symmetry == Permutations(Logins) \cup Permutations(Waits)
=============================================================================
