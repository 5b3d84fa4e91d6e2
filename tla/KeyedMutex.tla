----------------------------- MODULE KeyedMutex -----------------------------
(***************************************************************************)
(* What KeyedOperationCoordinator promises: the operations of one key run  *)
(* one at a time, in the order in which they were handed over, and those   *)
(* of different keys do not wait for each other.                           *)
(***************************************************************************)
EXTENDS Naturals

CONSTANTS Keys, Calls

VARIABLES
  phase,    (* Where each call of run is.                                  *)
  key,      (* The key of each call.                                       *)
  ticket,   (* The order in which the calls were made, from 1.             *)
  calls     (* How many calls were made.                                   *)

vars == <<phase, key, ticket, calls>>

Unfinished(c) == phase[c] \in {"waiting", "running"}

\* No call of the same key made before c is unfinished.
First(c) ==
  \A d \in Calls :
    Unfinished(d) /\ key[d] = key[c] => ticket[d] >= ticket[c]

Init ==
  /\ phase = [c \in Calls |-> "idle"]
  /\ key \in [Calls -> Keys]
  /\ ticket = [c \in Calls |-> 0]
  /\ calls = 0

Enter(c) ==
  /\ phase[c] = "idle"
  /\ phase' = [phase EXCEPT ![c] = "waiting"]
  /\ ticket' = [ticket EXCEPT ![c] = calls + 1]
  /\ calls' = calls + 1
  /\ UNCHANGED key

Begin(c) ==
  /\ phase[c] = "waiting"
  /\ First(c)
  /\ phase' = [phase EXCEPT ![c] = "running"]
  /\ UNCHANGED <<key, ticket, calls>>

Finish(c) ==
  /\ phase[c] = "running"
  /\ phase' = [phase EXCEPT ![c] = "done"]
  /\ UNCHANGED <<key, ticket, calls>>

Next == \E c \in Calls : Enter(c) \/ Begin(c) \/ Finish(c)

Spec == Init /\ [][Next]_vars
=============================================================================
