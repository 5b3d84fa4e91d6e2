-------------------------- MODULE ThreadOperations --------------------------
(***************************************************************************)
(* What users of the client do with a thread: startTurn and startGoal      *)
(* (src/app-server-client.ts), run one at a time by the coordinator        *)
(* (OperationCoordinator), retried by retryOnAppServerOverload             *)
(* (src/retry.ts), and the result of a turn (src/thread.ts).  Responses    *)
(* are handled when they arrive; notifications wait in line, are routed    *)
(* one by one and are then given to a handler, which may itself await an   *)
(* operation of its own and so hold up the line.                           *)
(*                                                                         *)
(* A user makes one start; its attempts are calls of run.  A turn is       *)
(* identified with the call that started it.  A turn is its completion and *)
(* a goal is one physical turn: TurnEventRouter and GoalOperation have the *)
(* rest, the end of the connection included.                               *)
(***************************************************************************)
EXTENDS Naturals, Sequences

CONSTANTS
  Threads,      (* Thread ids, the keys of the coordinator.                *)
  TurnUsers,    (* Users that start a turn.                                *)
  Retrying,     (* Those of them that do it under retryOnAppServerOverload. *)
  GoalUsers,    (* Users that start a goal.                                *)
  HandlerUsers, (* Users of either kind that do it in a handler and await it. *)
  MaxAttempts,  (* The maxAttempts of retryOnAppServerOverload.            *)
  Nothing       (* No call, no turn, no goal.                              *)

ASSUME ThreadAssumption ==
  /\ MaxAttempts \in Nat \ {0}
  /\ Retrying \subseteq TurnUsers
  /\ TurnUsers \cap GoalUsers = {}
  /\ HandlerUsers \subseteq TurnUsers \cup GoalUsers

Users == TurnUsers \cup GoalUsers
Calls == (Users \X {1}) \cup (Retrying \X (1..MaxAttempts))

ASSUME NothingAssumption == Nothing \notin Calls \cup Users

VARIABLES
  tails, pred, phase, key, ticket, calls,   (* Those of the coordinator.   *)
  user,       (* Where each user is with its start and its result.         *)
  attempt,    (* The attempts each user has made.                          *)
  handle,     (* The turn of the CodexTurn each user holds.                *)
  step,       (* The request or wait each running operation is at.         *)
  rpc,        (* Its request, and the response with the turn it names.     *)
  late,       (* Requests for turns that timed out before they were served.*)
  reserved,   (* GoalEventRouter.active: the goal of each thread.          *)
  routing,    (* Whether its turn routing is active.                       *)
  begun,      (* Whether its first turn was seen.                          *)
  turn,       (* The turn the app-server runs on each thread.              *)
  goal,       (* The goal it has stored and active on each thread.         *)
  line,       (* The notifications not yet handled.                        *)
  handler,    (* The user whose start or result a handler awaits.          *)
  ended,      (* The turns whose completion the turn router was given.     *)
  taken,      (* The turns whose completion a goal was given instead.      *)
  ran         (* History: how often the input of each user was executed.   *)

coordinator == <<tails, pred, phase, key, ticket, calls>>
users       == <<user, attempt, handle>>
requests    == <<step, rpc, late>>
goals       == <<reserved, routing, begun>>
server      == <<turn, goal, ran>>
dispatch    == <<line, handler, ended, taken>>
vars        == <<coordinator, users, requests, goals, server, dispatch>>

Coord == INSTANCE OperationCoordinator WITH Keys <- Threads, NoCall <- Nothing

UserOf(c) == c[1]
Notification(what, t, x) == [what |-> what, thread |-> t, turn |-> x]

Response(how, x) == [reply |-> how, turn |-> x]
NoRequest == Response("none", Nothing)

Init ==
  /\ Coord!Init
  /\ \A c, d \in Calls : UserOf(c) = UserOf(d) => key[c] = key[d]
  /\ user = [u \in Users |-> "idle"]
  /\ attempt = [u \in Users |-> 0]
  /\ handle = [u \in Users |-> Nothing]
  /\ step = [c \in Calls |-> "none"]
  /\ rpc = [c \in Calls |-> NoRequest]
  /\ late = {}
  /\ reserved = [t \in Threads |-> Nothing]
  /\ routing = [t \in Threads |-> FALSE]
  /\ begun = [t \in Threads |-> FALSE]
  /\ turn = [t \in Threads |-> Nothing]
  /\ goal = [t \in Threads |-> Nothing]
  /\ line = << >> /\ handler = Nothing /\ ended = {} /\ taken = {}
  /\ ran = [u \in Users |-> 0]

-----------------------------------------------------------------------------
(* Calls of run, and how they settle.                                      *)

\* An attempt of u is handed to the coordinator.
Attempt(u) ==
  /\ Coord!Run(<<u, attempt[u] + 1>>)
  /\ attempt' = [attempt EXCEPT ![u] = @ + 1]
  /\ user' = [user EXCEPT ![u] = "starting"]
  /\ UNCHANGED handle

\* The user calls startTurn or startGoal.
Call(u) ==
  /\ user[u] = "idle" /\ u \notin HandlerUsers
  /\ Attempt(u)
  /\ UNCHANGED <<requests, goals, server, dispatch>>

\* The delay before the next attempt is over.
Retries(u) ==
  /\ user[u] = "delayed"
  /\ Attempt(u)
  /\ UNCHANGED <<requests, goals, server, dispatch>>

\* The signal aborts the delay.
GiveUp(u) ==
  /\ user[u] = "delayed"
  /\ user' = [user EXCEPT ![u] = "failed"]
  /\ UNCHANGED <<coordinator, attempt, handle, requests, goals, server, dispatch>>

\* The request of an operation is sent.
Ask(c, what) ==
  /\ step' = [step EXCEPT ![c] = what]
  /\ rpc' = [rpc EXCEPT ![c] = Response("sent", Nothing)]

Answered(c) == rpc[c].reply \notin {"none", "sent"}

\* Faulty: every failure is taken for an overload.
RetryableAny(how) == how # "ok"

\* isRetryableAppServerError.
Retryable(how) == how = "overloaded"

\* The promise of run settles, and with it the attempt of its user.
Settles(c, how, x) ==
  LET u == UserOf(c) IN
    /\ Coord!Finish(c)
    /\ step' = [step EXCEPT ![c] = "none"]
    /\ rpc' = [rpc EXCEPT ![c] = NoRequest]
    /\ handle' = [handle EXCEPT ![u] = x]
    /\ user' = [user EXCEPT ![u] =
                  IF how = "ok" THEN "holding"
                  ELSE IF Retryable(how) /\ u \in Retrying /\ attempt[u] < MaxAttempts
                       THEN "delayed" ELSE "failed"]
    /\ UNCHANGED attempt

-----------------------------------------------------------------------------
(* startTurn.                                                              *)

\* Faulty: a start does not look for a goal of the thread.
TurnBeginsUnchecked(c) ==
  /\ UserOf(c) \in TurnUsers
  /\ Coord!Begin(c)
  /\ Ask(c, "turn")
  /\ UNCHANGED <<users, late, goals, server, dispatch>>

\* The operation of startTurn begins: turn/start is sent.
TurnBegins(c) ==
  /\ UserOf(c) \in TurnUsers
  /\ reserved[key[c]] = Nothing
  /\ Coord!Begin(c)
  /\ Ask(c, "turn")
  /\ UNCHANGED <<users, late, goals, server, dispatch>>

\* A goal has the thread, and the operation, of either kind, throws.
BeginRefused(c) ==
  /\ reserved[key[c]] # Nothing
  /\ Coord!Begin(c)
  /\ step' = [step EXCEPT ![c] = "refused"]
  /\ UNCHANGED <<users, rpc, late, goals, server, dispatch>>

Refused(c) ==
  /\ step[c] = "refused"
  /\ Settles(c, "refused", Nothing)
  /\ UNCHANGED <<late, goals, server, dispatch>>

\* The response, or the lack of one.
TurnAnswered(c) ==
  /\ step[c] = "turn" /\ Answered(c)
  /\ Settles(c, rpc[c].reply, IF rpc[c].reply = "ok" THEN rpc[c].turn ELSE Nothing)
  /\ UNCHANGED <<late, goals, server, dispatch>>

\* The timer of turn/start fires, or its signal aborts, before it was served.
TimesOut(c) ==
  /\ step[c] = "turn" /\ rpc[c].reply = "sent"
  /\ rpc' = [rpc EXCEPT ![c] = Response("lost", Nothing)]
  /\ late' = late \cup {c}
  /\ UNCHANGED <<coordinator, users, step, goals, server, dispatch>>

\* collectTurnResult sees the completion and the end of the stream; a result that is
\* asked for later finds both in the stream (TurnEventRouter).
Collected(u) ==
  /\ user[u] = "holding" /\ handle[u] \in ended
  /\ user' = [user EXCEPT ![u] = "done"]
  /\ UNCHANGED <<coordinator, attempt, handle, requests, goals, server, dispatch>>

-----------------------------------------------------------------------------
(* startGoal.                                                              *)

GoalBegins(c) ==
  /\ UserOf(c) \in GoalUsers
  /\ reserved[key[c]] = Nothing
  /\ Coord!Begin(c)
  /\ Ask(c, "read")
  /\ UNCHANGED <<users, late, goals, server, dispatch>>

\* The catch of startGoal ends: the operation fails and lets go of the thread.
Releases(c) ==
  /\ reserved' = [reserved EXCEPT ![key[c]] = IF @ = UserOf(c) THEN Nothing ELSE @]
  /\ Settles(c, "failed", Nothing)
  /\ UNCHANGED <<routing, begun>>

\* The catch of startGoal: the goal is paused first when it may be active and the
\* operation has not finished meanwhile.
Fails(c) ==
  IF rpc[c].reply # "refused" /\ reserved[key[c]] = UserOf(c)
  THEN Ask(c, "pause") /\ UNCHANGED <<coordinator, users, goals>>
  ELSE Releases(c)

\* The thread was read: it is reserved when it is idle.
ReadDone(c) ==
  /\ step[c] = "read" /\ Answered(c)
  /\ IF rpc[c].reply = "ok"
     THEN /\ reserved' = [reserved EXCEPT ![key[c]] = UserOf(c)]
          /\ routing' = [routing EXCEPT ![key[c]] = FALSE]
          /\ begun' = [begun EXCEPT ![key[c]] = FALSE]
          /\ Ask(c, "clear")
          /\ UNCHANGED <<coordinator, users>>
     ELSE Settles(c, rpc[c].reply, Nothing) /\ UNCHANGED goals
  /\ UNCHANGED <<late, server, dispatch>>

ClearDone(c) ==
  /\ step[c] = "clear" /\ Answered(c)
  /\ IF rpc[c].reply = "ok"
     THEN /\ routing' = [routing EXCEPT ![key[c]] = TRUE]
          /\ Ask(c, "set")
          /\ UNCHANGED <<coordinator, users, reserved, begun>>
     ELSE Fails(c)
  /\ UNCHANGED <<late, server, dispatch>>

SetDone(c) ==
  /\ step[c] = "set" /\ Answered(c)
  /\ IF rpc[c].reply = "ok"
     THEN /\ step' = [step EXCEPT ![c] = "wait"]
          /\ rpc' = [rpc EXCEPT ![c] = NoRequest]
          /\ UNCHANGED <<coordinator, users, goals>>
     ELSE Fails(c)
  /\ UNCHANGED <<late, server, dispatch>>

\* Faulty: the wait for the first turn has no timer.
StartAwaitedUntimed(c) ==
  /\ step[c] = "wait"
  /\ begun[key[c]] \/ reserved[key[c]] # UserOf(c)
  /\ IF begun[key[c]]
     THEN Settles(c, "ok", Nothing) /\ UNCHANGED goals
     ELSE Fails(c)
  /\ UNCHANGED <<late, server, dispatch>>

\* waitForStart: the first turn was seen; or the operation failed or the time is up.
StartAwaited(c) ==
  /\ step[c] = "wait"
  /\ IF begun[key[c]]
     THEN Settles(c, "ok", Nothing) /\ UNCHANGED goals
     ELSE Fails(c)
  /\ UNCHANGED <<late, server, dispatch>>

\* pauseGoalOperation is over, well or badly.
PauseDone(c) ==
  /\ step[c] = "pause" /\ Answered(c)
  /\ Releases(c)
  /\ UNCHANGED <<late, server, dispatch>>

-----------------------------------------------------------------------------
(* The app-server.                                                         *)

Tell(n) == line' = Append(line, n)

\* turn/start is executed: a turn starts, or the one that runs is joined.
Executed(c) ==
  /\ ran' = [ran EXCEPT ![UserOf(c)] = @ + 1]
  /\ turn' = [turn EXCEPT ![key[c]] = IF @ = Nothing THEN c ELSE @]
  /\ UNCHANGED goal

\* What the app-server does for the request of c when it accepts it.
Done(c) ==
  \/ step[c] = "turn" /\ Executed(c) /\ UNCHANGED line
  \/ step[c] \in {"read", "clear"} /\ UNCHANGED <<server, line>>
  \/ /\ step[c] = "set"
     /\ goal' = [goal EXCEPT ![key[c]] = UserOf(c)]
     /\ UNCHANGED <<turn, ran, line>>
  \/ /\ step[c] = "pause"
     /\ goal' = [goal EXCEPT ![key[c]] = Nothing]
     /\ IF turn[key[c]] = UserOf(c)
        THEN /\ turn' = [turn EXCEPT ![key[c]] = Nothing]
             /\ Tell(Notification("ended", key[c], UserOf(c)))
        ELSE UNCHANGED <<turn, line>>
     /\ UNCHANGED ran

Reply(c, how) ==
  rpc' = [rpc EXCEPT ![c] =
            Response(how, IF how = "ok" /\ step[c] = "turn" THEN turn'[key[c]] ELSE Nothing)]

\* How a request may fail; for the others a lost response is as TimesOut or a refusal.
Failures(c) ==
  CASE step[c] = "turn" -> {"refused", "overloaded"}
    [] step[c] \in {"clear", "set"} -> {"refused", "lost"}
    [] OTHER -> {"refused"}

\* A request is served; an overload is reported only for one that is not executed.
Serve(c) ==
  /\ rpc[c].reply = "sent"
  /\ \/ /\ step[c] = "read" => turn[key[c]] = Nothing
        /\ Done(c)
        /\ \E how \in {"ok"} \cup (Failures(c) \cap {"lost"}) : Reply(c, how)
     \/ /\ UNCHANGED <<server, line>>
        /\ \E how \in Failures(c) : Reply(c, how)
  /\ UNCHANGED <<coordinator, users, step, late, goals, handler, ended, taken>>

\* A request nobody waits for any more is served after all, if it ever is.
ServeLate(c) ==
  /\ c \in late
  /\ late' = late \ {c}
  /\ Executed(c)
  /\ UNCHANGED <<coordinator, users, step, rpc, goals, dispatch>>

\* The turn of a goal starts.
GoalTurnStarts(t) ==
  /\ goal[t] # Nothing /\ turn[t] = Nothing
  /\ turn' = [turn EXCEPT ![t] = goal[t]]
  /\ Tell(Notification("started", t, Nothing))
  /\ UNCHANGED <<coordinator, users, requests, goals, goal, ran, handler, ended, taken>>

\* A turn ends, and the goal with it if it was that of the goal.
TurnEnds(t) ==
  /\ turn[t] # Nothing
  /\ turn' = [turn EXCEPT ![t] = Nothing]
  /\ goal' = IF turn[t] \in GoalUsers THEN [goal EXCEPT ![t] = Nothing] ELSE goal
  /\ Tell(Notification("ended", t, turn[t]))
  /\ UNCHANGED <<coordinator, users, requests, goals, ran, handler, ended, taken>>

-----------------------------------------------------------------------------
(* Notifications: configurePeer routes one, then awaits the handlers.      *)

\* Faulty: what nobody holds a handle of is thrown away.
EndOpened(x) ==
  ended' = IF \E u \in Users : handle[u] = x THEN ended \cup {x} ELSE ended

\* The turn router keeps the completion for the readers it has and will have.
End(x) == ended' = ended \cup {x}

\* goalEvents.route, then turnEvents.route of what no goal took: its own completion
\* ends a goal, that of another turn ends it unless its status was already reported.
Routed(n) ==
  LET t == n.thread
      goes == reserved[t] # Nothing /\ routing[t]
  IN  \/ /\ n.what = "started"
         /\ begun' = [begun EXCEPT ![t] = @ \/ goes]
         /\ UNCHANGED <<ended, taken, reserved, routing>>
      \/ /\ n.what = "ended" /\ ~goes
         /\ End(n.turn)
         /\ UNCHANGED <<taken, goals>>
      \/ /\ n.what = "ended" /\ goes
         /\ taken' = taken \cup {n.turn}
         /\ \/ reserved' = [reserved EXCEPT ![t] = Nothing]
            \/ n.turn # reserved[t] /\ UNCHANGED reserved
         /\ UNCHANGED <<ended, routing, begun>>

\* The next notification is routed and given to the handler, which may call startTurn
\* or startGoal and await it, or await the result of the turn too.
Route ==
  /\ line # << >> /\ handler = Nothing
  /\ line' = Tail(line)
  /\ Routed(Head(line))
  /\ \/ UNCHANGED <<handler, coordinator, users>>
     \/ \E u \in HandlerUsers, what \in {"start", "result"} :
          /\ user[u] = "idle" /\ (what = "result" => u \in TurnUsers)
          /\ handler' = [user |-> u, what |-> what]
          /\ Attempt(u)
  /\ UNCHANGED <<requests, server>>

\* What the handler awaits has settled.
Handled ==
  /\ handler # Nothing
  /\ user[handler.user] \in {"failed", "done"}
       \cup (IF handler.what = "start" THEN {"holding"} ELSE {})
  /\ handler' = Nothing
  /\ UNCHANGED <<coordinator, users, requests, goals, server, line, ended, taken>>

-----------------------------------------------------------------------------
Begins(c) == TurnBegins(c) \/ GoalBegins(c) \/ BeginRefused(c)
Proceeds(c) ==
  Refused(c) \/ TurnAnswered(c) \/ ReadDone(c) \/ ClearDone(c) \/ SetDone(c)
    \/ StartAwaited(c) \/ PauseDone(c)

Next ==
  \/ Route \/ Handled
  \/ \E u \in Users : Call(u) \/ Retries(u) \/ GiveUp(u) \/ Collected(u)
  \/ \E c \in Calls : Begins(c) \/ Proceeds(c) \/ TimesOut(c) \/ Serve(c) \/ ServeLate(c)
  \/ \E t \in Threads : GoalTurnStarts(t) \/ TurnEnds(t)

Spec == Init /\ [][Next]_vars

\* Continuations and timers run, requests are answered, a handler goes on from what
\* it awaits; users need not call, nor the app-server start or end a turn.
Fairness ==
  /\ WF_vars(Route) /\ WF_vars(Handled)
  /\ \A u \in Users : WF_vars(Retries(u)) /\ WF_vars(Collected(u))
  /\ \A c \in Calls : WF_vars(Begins(c)) /\ WF_vars(Proceeds(c)) /\ WF_vars(Serve(c))

FairSpec == Spec /\ Fairness

-----------------------------------------------------------------------------
(* What users are promised.                                                *)

\* The coordinator under the operations the client gives it: its map holds an entry
\* for a thread exactly while one is waiting or running, and they run one at a time in
\* the order of the calls (KeyedOperationCoordinator).
TailsExact == Coord!TailsExact
MutexSpec == Coord!MutexSpec

\* No turn/start is in flight on a thread that is reserved for a goal, whose router
\* would take the events of the turn for the goal's (the check of startTurn and the
\* reservation of startGoal, several awaits apart in two operations).
GoalExcludesTurns ==
  \A c \in Calls : step[c] = "turn" => reserved[key[c]] = Nothing

\* The input of a user is executed at most once, however often its start is retried,
\* lost or late.  docs/api.md:258, "Only overload-classified JSON-RPC failures are
\* retried."
ExecutedOnce == \A u \in Users : ran[u] <= 1

\* startTurn and startGoal settle, retried or not, whatever becomes of the operations
\* before them and whatever notification handlers await.
Starting(u) == user[u] \in {"starting", "delayed"}
StartsSettle == \A u \in Users : Starting(u) ~> ~Starting(u)

\* A handler that awaits the result of a turn which has not been routed holds up the
\* very line that has the completion of the turn.
Stuck ==
  /\ handler # Nothing /\ handler.what = "result"
  /\ user[handler.user] = "holding"
  /\ handle[handler.user] \notin ended

\* A handler may await startTurn and startGoal: it goes on, though the start may wait
\* for a goal whose first turn is announced further down the line.
HandlersGoOn == handler # Nothing ~> handler = Nothing \/ Stuck

\* A result is delivered once the turn has ended, unless a handler awaits one or the
\* completion was still in line when a goal took over the thread.
ResultsSettle ==
  \A u \in TurnUsers :
    (user[u] = "holding" /\ \A t \in Threads : turn[t] # handle[u])
      ~> (user[u] = "done" \/ handle[u] \in taken \/ Stuck)
=============================================================================
