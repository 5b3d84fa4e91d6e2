----------------------- MODULE OperationCoordinator -----------------------
(***************************************************************************)
(* KeyedOperationCoordinator (src/operation-coordinator.ts), which         *)
(* serialises startTurn and startGoal of one thread.  There is no lock and *)
(* no queue: each call of run awaits the promise its predecessor left in   *)
(* the tails map and leaves its own, released when its operation settles.  *)
(*                                                                         *)
(* A call is identified with its promise, which is released when the call  *)
(* is done.  The part of run before the await is one action, the           *)
(* continuation that starts the operation another, the finally a third.    *)
(***************************************************************************)
EXTENDS Naturals

CONSTANTS
  Keys,     (* Keys, the thread ids of the client.                         *)
  Calls,    (* Calls of run.                                               *)
  NoCall    (* No promise: Promise.resolve(), or no entry in tails.        *)

\* What the theorems assume, and ThreadOperations of the constants it gives.
CoordinatorAssumption == NoCall \notin Calls

VARIABLES
  tails,    (* The tails map: the promise of the last call of each key.    *)
  pred,     (* The promise each call awaits.                               *)
  phase,    (* Where each call is: idle, waiting, running or done.         *)
  key,      (* The key of each call.                                       *)
  ticket,   (* History: the order in which the calls were made, from 1.    *)
  calls     (* History: how many calls were made.                          *)

vars == <<tails, pred, phase, key, ticket, calls>>

Unfinished(c) == phase[c] \in {"waiting", "running"}

Init ==
  /\ tails = [k \in Keys |-> NoCall]
  /\ pred = [c \in Calls |-> NoCall]
  /\ phase = [c \in Calls |-> "idle"]
  /\ key \in [Calls -> Keys]
  /\ ticket = [c \in Calls |-> 0]
  /\ calls = 0

\* run up to its await.
Run(c) ==
  /\ phase[c] = "idle"
  /\ phase' = [phase EXCEPT ![c] = "waiting"]
  /\ pred' = [pred EXCEPT ![c] = tails[key[c]]]
  /\ tails' = [tails EXCEPT ![key[c]] = c]
  /\ ticket' = [ticket EXCEPT ![c] = calls + 1]
  /\ calls' = calls + 1
  /\ UNCHANGED key

\* The predecessor's promise is released and the operation starts.
Begin(c) ==
  /\ phase[c] = "waiting"
  /\ pred[c] # NoCall => phase[pred[c]] = "done"
  /\ phase' = [phase EXCEPT ![c] = "running"]
  /\ UNCHANGED <<tails, pred, key, ticket, calls>>

\* Faulty: the entry is deleted whoever left it, or never.
FinishDeleting(c) ==
  /\ phase[c] = "running"
  /\ phase' = [phase EXCEPT ![c] = "done"]
  /\ tails' = [tails EXCEPT ![key[c]] = NoCall]
  /\ UNCHANGED <<pred, key, ticket, calls>>
FinishKeeping(c) ==
  /\ phase[c] = "running"
  /\ phase' = [phase EXCEPT ![c] = "done"]
  /\ UNCHANGED <<tails, pred, key, ticket, calls>>
\* Faulty: the promise is released only by the call that left the last tail.
FinishSilent(c) ==
  /\ phase[c] = "running"
  /\ IF tails[key[c]] = c
     THEN /\ phase' = [phase EXCEPT ![c] = "done"]
          /\ tails' = [tails EXCEPT ![key[c]] = NoCall]
     ELSE UNCHANGED <<phase, tails>>
  /\ UNCHANGED <<pred, key, ticket, calls>>

\* The operation settled, by returning or by throwing: the finally.
Finish(c) ==
  /\ phase[c] = "running"
  /\ phase' = [phase EXCEPT ![c] = "done"]
  /\ tails' = IF tails[key[c]] = c THEN [tails EXCEPT ![key[c]] = NoCall] ELSE tails
  /\ UNCHANGED <<pred, key, ticket, calls>>

Next == \E c \in Calls : Run(c) \/ Begin(c) \/ Finish(c)

Spec == Init /\ [][Next]_vars

-----------------------------------------------------------------------------
(* What the coordinator promises.                                          *)

TypeOK ==
  /\ tails \in [Keys -> Calls \cup {NoCall}]
  /\ pred \in [Calls -> Calls \cup {NoCall}]
  /\ phase \in [Calls -> {"idle", "waiting", "running", "done"}]
  /\ key \in [Calls -> Keys]
  /\ ticket \in [Calls -> Nat]
  /\ calls \in Nat

\* Two operations of one key never overlap (the starts of one thread).
OneAtATime ==
  \A c, d \in Calls :
    phase[c] = "running" /\ phase[d] = "running" /\ key[c] = key[d] => c = d

\* The tails map holds an entry for a key exactly while an operation of that key
\* is waiting or running: it neither leaks keys nor forgets a call that a later
\* one must wait for (the comparison in the finally).
TailsExact ==
  \A k \in Keys :
    tails[k] # NoCall <=> \E c \in Calls : Unfinished(c) /\ key[c] = k

\* The chain of promises is the queue: the last unfinished call of a key is the
\* tail, and a call awaits an unfinished one as long as an earlier call of its
\* key is unfinished.
Chained ==
  \A c \in Calls :
    Unfinished(c) =>
      /\ tails[key[c]] \in Calls
      /\ Unfinished(tails[key[c]])
      /\ key[tails[key[c]]] = key[c]
      /\ ticket[c] <= ticket[tails[key[c]]]
      /\ \A d \in Calls :
           Unfinished(d) /\ key[d] = key[c] /\ ticket[d] < ticket[c] =>
             /\ phase[c] = "waiting"
             /\ pred[c] \in Calls
             /\ Unfinished(pred[c])
             /\ key[pred[c]] = key[c]
             /\ ticket[d] <= ticket[pred[c]]
             /\ ticket[pred[c]] < ticket[c]

\* Calls are told apart by their tickets, all of which have been handed out.
TicketsDistinct ==
  \A c \in Calls :
    /\ ticket[c] <= calls
    /\ phase[c] = "idle" <=> ticket[c] = 0
    /\ \A d \in Calls : ticket[c] = ticket[d] /\ ticket[c] # 0 => c = d

\* An entry of tails is an unfinished call of its key.
TailsLive ==
  \A k \in Keys :
    tails[k] # NoCall => Unfinished(tails[k]) /\ key[tails[k]] = k

\* The inductive invariant.
IInv == TypeOK /\ TicketsDistinct /\ Chained /\ TailsLive

\* The operations of a key are run one at a time in the order of the calls of
\* run, and an operation waits for no other key: run implements KeyedMutex.
Mutex == INSTANCE KeyedMutex
MutexSpec == Mutex!Spec
=============================================================================
