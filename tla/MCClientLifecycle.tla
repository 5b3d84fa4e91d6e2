------------------------- MODULE MCClientLifecycle -------------------------
(* Two calls of connect, or three for the violation.                       *)
EXTENDS ClientLifecycle

CONSTANTS c1, c2, c3
=============================================================================
