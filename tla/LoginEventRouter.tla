-------------------------- MODULE LoginEventRouter --------------------------
(***************************************************************************)
(* LoginEventRouter (src/login.ts), which the client fails when its        *)
(* connection ends and resets when it connects again.  A completion is     *)
(* told apart from another only by its login and its connection.           *)
(***************************************************************************)
EXTENDS Naturals, Sequences, FiniteSets, SequencesExt

CONSTANTS
  Logins,        (* Login ids.                                             *)
  Waits,         (* Calls of wait.                                         *)
  NoLogin,       (* The login of a wait not yet called.                    *)
  MaxCompleted,  (* MAX_COMPLETED_LOGINS.                                  *)
  MaxEras,       (* Bound on the connections.                              *)
  MaxLog         (* Bound on the completions of one connection.            *)

ASSUME LoginAssumption ==
  NoLogin \notin Logins /\ MaxCompleted \in Nat \ {0} /\ {MaxEras, MaxLog} \subseteq Nat

VARIABLES
  completed,  (* completed, in the order of insertion.                     *)
  waiters,    (* The waits in the sets of waiters.                         *)
  failure,    (* failure is set.                                           *)
  waits,      (* The promise of each wait: its login, what became of it.   *)
  era,        (* The connections so far.                                   *)
  up,         (* Whether the last one goes on.                             *)
  log         (* History: the logins that completed since the last reset.  *)

vars == <<completed, waiters, failure, waits, era, up, log>>

Completion(l, e) == [login |-> l, era |-> e]

Promise(l, state, got, at) == [login |-> l, state |-> state, got |-> got, at |-> at]

NoCompletion == Completion(NoLogin, 0)

Now == IF up THEN era ELSE 0

Init ==
  /\ completed = << >> /\ waiters = {} /\ failure = FALSE
  /\ waits = [w \in Waits |-> Promise(NoLogin, "none", NoCompletion, 0)]
  /\ era = 0 /\ up = FALSE /\ log = << >>

Settle(which, state, got) ==
  waits' = [w \in Waits |->
             IF w \in which THEN Promise(waits[w].login, state, got, Now) ELSE waits[w]]

\* Faulty: a completion that comes again keeps the place of the first.
KeptInPlace(c) ==
  IF \E i \in DOMAIN completed : completed[i].login = c.login THEN completed
  ELSE LET all == Append(completed, c)
       IN  IF Len(all) > MaxCompleted THEN Tail(all) ELSE all

\* Map.delete: a map has at most one entry of a key.
Deleted(l) ==
  LET at == {i \in DOMAIN completed : completed[i].login = l}
  IN  IF at = {} THEN completed ELSE RemoveAt(completed, CHOOSE i \in at : TRUE)

\* A completion goes to the end; the oldest makes room.
Kept(c) ==
  LET all == Append(Deleted(c.login), c)
  IN  IF Len(all) > MaxCompleted THEN Tail(all) ELSE all

\* Faulty: the waiters of the login are dropped before they are resolved.
RouteDropping(l) ==
  /\ up /\ Len(log) < MaxLog
  /\ completed' = Kept(Completion(l, era))
  /\ waiters' = {w \in waiters : waits[w].login # l}
  /\ log' = Append(log, l)
  /\ UNCHANGED <<failure, waits, era, up>>

\* route, of a completion that names its login.
Route(l) ==
  /\ up /\ Len(log) < MaxLog
  /\ completed' = Kept(Completion(l, era))
  /\ Settle({w \in waiters : waits[w].login = l}, "resolved", Completion(l, era))
  /\ waiters' = {w \in waiters : waits[w].login # l}
  /\ log' = Append(log, l)
  /\ UNCHANGED <<failure, era, up>>

\* wait: a completion that is kept answers at once, before any failure.
Wait(w, l) ==
  /\ waits[w].state = "none"
  /\ LET known == {d \in ToSet(completed) : d.login = l}
     IN  /\ waits' = [waits EXCEPT ![w] =
              IF known # {} THEN Promise(l, "resolved", CHOOSE d \in known : TRUE, Now)
              ELSE IF failure THEN Promise(l, "rejected", NoCompletion, Now)
              ELSE Promise(l, "pending", NoCompletion, 0)]
         /\ waiters' = IF known = {} /\ ~failure THEN waiters \cup {w} ELSE waiters
  /\ UNCHANGED <<completed, failure, era, up, log>>

\* removeAndReject, by the timer or the abort signal of the wait.
GiveUp(w) ==
  /\ w \in waiters
  /\ waiters' = waiters \ {w}
  /\ Settle({w}, "rejected", NoCompletion)
  /\ UNCHANGED <<completed, failure, era, up, log>>

\* Faulty: what completed before the connection ended still answers.
FailAllKeeping ==
  /\ failure' = TRUE
  /\ Settle(waiters, "rejected", NoCompletion)
  /\ waiters' = {} /\ up' = FALSE /\ log' = << >>
  /\ UNCHANGED <<completed, era>>

\* failAll: the connection ends, or close is called without one.
FailAll ==
  /\ failure' = TRUE
  /\ Settle(waiters, "rejected", NoCompletion)
  /\ waiters' = {} /\ completed' = << >>
  /\ up' = FALSE /\ log' = << >>
  /\ UNCHANGED era

\* reset, when the client connects.
Reset ==
  /\ ~up /\ era < MaxEras
  /\ failure' = FALSE /\ completed' = << >>
  /\ up' = TRUE /\ era' = era + 1 /\ log' = << >>
  /\ UNCHANGED <<waiters, waits>>

Next ==
  \/ FailAll \/ Reset
  \/ \E l \in Logins : Route(l)
  \/ \E w \in Waits : GiveUp(w) \/ \E l \in Logins : Wait(w, l)

Spec == Init /\ [][Next]_vars

-----------------------------------------------------------------------------
TypeOK ==
  /\ completed \in Seq([login : Logins, era : 1..MaxEras])
  /\ waiters \subseteq Waits /\ failure \in BOOLEAN
  /\ waits \in [Waits -> [login : Logins \cup {NoLogin},
                          state : {"none", "pending", "resolved", "rejected"},
                          got : [login : Logins, era : 1..MaxEras] \cup {NoCompletion},
                          at : 0..MaxEras]]
  /\ era \in 0..MaxEras /\ up \in BOOLEAN /\ log \in Seq(Logins)

\* A wait that is pending can still be answered: it is registered, the router
\* has not failed, and its login has not completed (login.ts:94-101, 162-172).
NoWaiterForgotten ==
  /\ \A w \in Waits : waits[w].state = "pending" <=> w \in waiters
  /\ waiters # {} => ~failure
  /\ \A w \in waiters : \A i \in DOMAIN completed : completed[i].login # waits[w].login

\* A wait is resolved by the completion of its own login on the connection of
\* the moment, never by one a lost connection left behind (login.ts:171, 176).
ResolvedInItsConnection ==
  \A w \in Waits :
    waits[w].state = "resolved" => waits[w].got = Completion(waits[w].login, waits[w].at)

\* A login that completed before anyone waited for it is kept until MaxCompleted
\* others have completed since, and no longer (login.ts:88-93).
RecentKept ==
  \A l \in Logins :
    (\E i \in DOMAIN completed : completed[i].login = l)
      <=> \E i \in DOMAIN log :
            log[i] = l /\ Cardinality({log[j] : j \in i..Len(log)}) <= MaxCompleted
=============================================================================
