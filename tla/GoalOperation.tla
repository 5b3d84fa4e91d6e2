--------------------------- MODULE GoalOperation ---------------------------
(***************************************************************************)
(* The goals of one thread: GoalOperationState and GoalEventRouter         *)
(* (src/goal.ts) with startGoal, pauseGoalOperation and interruptGoalTurn  *)
(* (src/app-server-client.ts).  A goal is carried out by the app-server in *)
(* a series of physical turns, which its stream presents as one.           *)
(*                                                                         *)
(* Calls of startGoal are numbered, and a GoalOperationState bears the     *)
(* number of its call; 0 is no goal.  The coordinator runs them one at a   *)
(* time.  Responses are handled when they arrive; notifications wait in    *)
(* line on the notification queue, which a slow handler may hold up.       *)
(* What the last completion reports (the failed turn, the interruption, the *)
(* durations) is left out: a stream is the kinds of its events.            *)
(***************************************************************************)
EXTENDS Naturals, Sequences

CONSTANTS
  MaxGoals,   (* Bound on the calls of startGoal.                          *)
  MaxTurns,   (* Bound on the physical turns.                              *)
  MaxLine,    (* Bound on the notifications in line.                       *)
  MaxStream   (* Bound on the stream of a goal to which items still come.  *)

ASSUME GoalAssumption == {MaxGoals, MaxTurns, MaxLine, MaxStream} \subseteq Nat

Goals == 1..MaxGoals

VARIABLES
  active,   (* GoalEventRouter.active: the goal of the thread.             *)
  ops,      (* The GoalOperationState of each goal.                        *)
  phase,    (* Where startGoal is.                                         *)
  pause,    (* Where pauseGoalOperation is.                                *)
  failing,  (* Whether its first request failed.                           *)
  memo,     (* pausePromise of CodexGoal is set.                           *)
  rpc,      (* The request of each goal in flight, and its response.       *)
  closed,   (* The connection has ended.                                   *)
  line,     (* The notifications not yet handled.                          *)
  goal,     (* The goal the app-server stores: "none", "active", "terminal". *)
  setBy,    (* The call of startGoal that set it.                          *)
  turn,     (* The physical turn it runs, or 0.                            *)
  owner     (* The call whose goal each physical turn is for, 0 for none.  *)

router == <<active, ops>>
calls  == <<phase, pause, failing, memo, rpc>>
server == <<line, goal, setBy, turn, owner>>
vars   == <<router, calls, closed, server>>

Event(what, t, how) == [what |-> what, turn |-> t, how |-> how]

NewOp ==
  [status |-> "none", cleared |-> FALSE, physical |-> FALSE, routing |-> FALSE,
   current |-> 0, logical |-> 0, last |-> 0,
   end |-> "open", stream |-> << >>]

Init ==
  /\ active = 0
  /\ ops = [g \in Goals |-> NewOp]
  /\ phase = [g \in Goals |-> "none"]
  /\ pause = [g \in Goals |-> "none"]
  /\ failing = [g \in Goals |-> FALSE]
  /\ memo = [g \in Goals |-> FALSE]
  /\ rpc = [g \in Goals |-> [turn |-> 0, reply |-> "none"]]
  /\ closed = FALSE
  /\ line = << >>
  /\ goal \in {"none", "terminal"}
  /\ setBy = 0 /\ turn = 0 /\ owner = << >>

-----------------------------------------------------------------------------
(* GoalOperationState.                                                     *)

\* fail and finishWithCompletion.
Failed(op) == IF op.end = "open" THEN [op EXCEPT !.end = "failed"] ELSE op

Completed(op) ==
  IF op.end # "open" THEN op
  ELSE IF op.logical = 0 THEN Failed(op)
  ELSE [op EXCEPT !.end = "done", !.stream = Append(@, "completed")]

Over(op) == op.cleared \/ op.status = "terminal"

\* Faulty: every physical turn is shown.
StartedEach(op, n) ==
  [op EXCEPT !.physical = TRUE, !.current = n.turn, !.logical = IF @ = 0 THEN n.turn ELSE @,
             !.stream = Append(@, "started")]

\* turn/started: only that of the first turn is shown.
Started(op, n) ==
  LET now == [op EXCEPT !.physical = TRUE, !.current = n.turn]
  IN  IF op.logical # 0 THEN now
      ELSE [now EXCEPT !.logical = n.turn, !.stream = Append(@, "started")]

\* Faulty: only an interrupted turn ends the goal.
TurnDoneGoing(op, n) ==
  LET now == [op EXCEPT !.physical = FALSE, !.last = n.turn,
                        !.current = IF @ = n.turn THEN 0 ELSE @]
  IN  IF n.how = "interrupted" THEN Completed(now) ELSE now

\* turn/completed: the goal goes on unless it is over or was interrupted.
TurnDone(op, n) ==
  LET now == [op EXCEPT !.physical = FALSE, !.last = n.turn,
                        !.current = IF @ = n.turn THEN 0 ELSE @]
  IN  IF n.how = "interrupted" \/ Over(op) THEN Completed(now)
      ELSE IF n.how = "completed" /\ op.status = "none" THEN Failed(now)
      ELSE now

\* Faulty: a status that follows the last completion is not looked at.
AfterUpdateMissed(op) == op

\* finishAfterTerminalUpdate.
AfterUpdate(op) ==
  IF ~op.physical /\ op.last # 0 /\ Over(op) THEN Completed(op) ELSE op

\* thread/goal/updated and thread/goal/cleared.
Updated(op, n) ==
  AfterUpdate([op EXCEPT !.status = n.how, !.cleared = @ /\ n.how # "active"])
Cleared(op) == AfterUpdate([op EXCEPT !.cleared = TRUE])

\* observe, on an operation that is not finished.
Observe(op, n) ==
  CASE n.what = "updated" -> Updated(op, n)
    [] n.what = "cleared" -> Cleared(op)
    [] n.what = "started" /\ op.routing -> Started(op, n)
    [] n.what = "completed" /\ op.routing -> TurnDone(op, n)
    [] n.what = "item" /\ op.routing /\ op.logical # 0 ->
         [op EXCEPT !.stream = Append(@, "item")]
    [] OTHER -> op

TurnForInterrupt(op) ==
  IF op.current # 0 THEN op.current ELSE IF op.last # 0 THEN op.last ELSE op.logical

-----------------------------------------------------------------------------
(* GoalEventRouter.                                                        *)

\* route: a finished operation is released.
Route ==
  /\ ~closed /\ line # << >>
  /\ line' = Tail(line)
  /\ IF active = 0 THEN UNCHANGED router
     ELSE LET op == Observe(ops[active], Head(line))
          IN  /\ ops' = [ops EXCEPT ![active] = op]
              /\ active' = IF op.end = "open" THEN active ELSE 0
  /\ UNCHANGED <<calls, closed, goal, setBy, turn, owner>>

\* failAll, and the end of the requests of the connection.
FailAll ==
  /\ ~closed
  /\ closed' = TRUE
  /\ ops' = [g \in Goals |-> IF g = active THEN Failed(ops[g]) ELSE ops[g]]
  /\ active' = 0
  /\ rpc' = [g \in Goals |-> IF rpc[g].reply = "sent" THEN [rpc[g] EXCEPT !.reply = "lost"]
                                                      ELSE rpc[g]]
  /\ UNCHANGED <<phase, pause, failing, memo, server>>

-----------------------------------------------------------------------------
(* Requests.                                                               *)

Ask(g, t) ==
  rpc' = [rpc EXCEPT ![g] = [turn |-> t, reply |-> IF closed THEN "lost" ELSE "sent"]]

Answered(g) == rpc[g].reply \notin {"none", "sent"}

NoRequest(g) == rpc' = [rpc EXCEPT ![g] = [turn |-> 0, reply |-> "none"]]

Reply(g, how) == rpc' = [rpc EXCEPT ![g].reply = how]

-----------------------------------------------------------------------------
(* pauseGoalOperation and interruptGoalTurn, for the failure path of       *)
(* startGoal and for the user.                                             *)

\* Faulty: a start that fails does not release the thread.
RejectsKeeping(g) ==
  /\ ops' = [ops EXCEPT ![g] = Failed(@)]
  /\ phase' = [phase EXCEPT ![g] = "rejected"]
  /\ UNCHANGED active

\* The end of the catch of startGoal.
Rejects(g) ==
  /\ ops' = [ops EXCEPT ![g] = Failed(@)]
  /\ active' = IF active = g THEN 0 ELSE active
  /\ phase' = [phase EXCEPT ![g] = "rejected"]

PauseEnds(g, failed) ==
  /\ pause' = [pause EXCEPT ![g] = "none"]
  /\ NoRequest(g)
  /\ IF phase[g] = "cleanup"
     THEN Rejects(g) /\ UNCHANGED memo
     ELSE memo' = [memo EXCEPT ![g] = ~failed] /\ UNCHANGED <<router, phase>>

\* The goal was set to paused, or not; the turn known now is interrupted.
StatusSet(g) ==
  /\ pause[g] = "status" /\ Answered(g)
  /\ failing' = [failing EXCEPT ![g] = rpc[g].reply # "ok"]
  /\ IF TurnForInterrupt(ops[g]) = 0
     THEN PauseEnds(g, rpc[g].reply # "ok")
     ELSE /\ pause' = [pause EXCEPT ![g] = "interrupt"]
          /\ Ask(g, TurnForInterrupt(ops[g]))
          /\ UNCHANGED <<router, phase, memo>>
  /\ UNCHANGED <<closed, server>>

\* The app-server names another turn as the active one, which is then interrupted.
Interrupted(g) ==
  /\ pause[g] = "interrupt" /\ Answered(g)
  /\ IF rpc[g].reply = "found"
     THEN /\ pause' = [pause EXCEPT ![g] = "again"]
          /\ Ask(g, rpc[g].turn)
          /\ UNCHANGED <<router, phase, memo>>
     ELSE PauseEnds(g, failing[g])
  /\ UNCHANGED <<failing, closed, server>>

InterruptedAgain(g) ==
  /\ pause[g] = "again" /\ Answered(g)
  /\ PauseEnds(g, failing[g])
  /\ UNCHANGED <<failing, closed, server>>

\* CodexGoal.pause.
Pause(g) ==
  /\ phase[g] = "returned" /\ ~memo[g] /\ Len(line) < MaxLine
  /\ memo' = [memo EXCEPT ![g] = TRUE]
  /\ IF ops[g].end # "open" THEN UNCHANGED <<pause, rpc>>
     ELSE pause' = [pause EXCEPT ![g] = "status"] /\ Ask(g, 0)
  /\ UNCHANGED <<router, phase, failing, closed, server>>

-----------------------------------------------------------------------------
(* startGoal.                                                              *)

Starting == {g \in Goals : phase[g] \in {"read", "clear", "set", "wait", "cleanup"}}

\* The catch of startGoal: the goal is paused if it may be active.
Catch(g, pauses) ==
  /\ UNCHANGED <<failing, memo>>
  /\ IF pauses /\ ops[g].end = "open"
     THEN /\ phase' = [phase EXCEPT ![g] = "cleanup"]
          /\ pause' = [pause EXCEPT ![g] = "status"]
          /\ Ask(g, 0)
          /\ UNCHANGED router
     ELSE Rejects(g) /\ NoRequest(g) /\ UNCHANGED pause

Begin(g) ==
  /\ phase[g] = "none" /\ Starting = {}
  /\ IF active # 0
     THEN phase' = [phase EXCEPT ![g] = "rejected"] /\ UNCHANGED rpc
     ELSE phase' = [phase EXCEPT ![g] = "read"] /\ Ask(g, 0)
  /\ UNCHANGED <<router, pause, failing, memo, closed, server>>

\* The thread was read; it is reserved when it is idle.
ReadDone(g) ==
  /\ phase[g] = "read" /\ Answered(g)
  /\ IF rpc[g].reply = "ok"
     THEN /\ active' = g
          /\ phase' = [phase EXCEPT ![g] = "clear"]
          /\ Ask(g, 0)
     ELSE /\ phase' = [phase EXCEPT ![g] = "rejected"]
          /\ NoRequest(g)
          /\ UNCHANGED active
  /\ UNCHANGED <<ops, pause, failing, memo, closed, server>>

ClearDone(g) ==
  /\ phase[g] = "clear" /\ Answered(g)
  /\ IF rpc[g].reply = "ok"
     THEN /\ ops' = [ops EXCEPT ![g].routing = TRUE]
          /\ phase' = [phase EXCEPT ![g] = "set"]
          /\ Ask(g, 0)
          /\ UNCHANGED <<active, pause, failing, memo>>
     ELSE Catch(g, rpc[g].reply # "invalid")
  /\ UNCHANGED <<closed, server>>

SetDone(g) ==
  /\ phase[g] = "set" /\ Answered(g)
  /\ IF rpc[g].reply = "ok"
     THEN /\ phase' = [phase EXCEPT ![g] = "wait"]
          /\ NoRequest(g)
          /\ UNCHANGED <<router, pause, failing, memo>>
     ELSE Catch(g, rpc[g].reply # "invalid")
  /\ UNCHANGED <<closed, server>>

\* waitForStart: the first turn has started, the operation has failed, or the
\* time is up.
StartAwaited(g) ==
  /\ phase[g] = "wait"
  /\ IF ops[g].logical # 0
     THEN /\ phase' = [phase EXCEPT ![g] = "returned"]
          /\ UNCHANGED <<router, pause, failing, memo, rpc>>
     ELSE Catch(g, TRUE)
  /\ UNCHANGED <<closed, server>>

-----------------------------------------------------------------------------
(* The app-server.                                                         *)

\* A request of goal g reaches it; the response may be lost.
Serve(g) ==
  /\ rpc[g].reply = "sent"
  /\ UNCHANGED <<active, ops, phase, pause, failing, memo, closed>>
  /\ \/ /\ \E how \in {"invalid", "lost"} : Reply(g, how)
        /\ UNCHANGED server
     \/ /\ phase[g] = "read"
        /\ Reply(g, IF turn = 0 THEN "ok" ELSE "busy")
        /\ UNCHANGED server
     \/ /\ phase[g] = "clear"
        /\ \E how \in {"ok", "lost"} : Reply(g, how)
        /\ goal' = "none"
        /\ line' = IF goal = "none" THEN line ELSE Append(line, Event("cleared", 0, "none"))
        /\ UNCHANGED <<setBy, turn, owner>>
     \/ /\ phase[g] = "set"
        /\ \E how \in {"ok", "lost"} : Reply(g, how)
        /\ goal' = "active" /\ setBy' = g
        /\ line' = Append(line, Event("updated", 0, "active"))
        /\ UNCHANGED <<turn, owner>>
     \/ /\ pause[g] = "status" /\ goal # "none"
        /\ \E how \in {"ok", "lost"} : Reply(g, how)
        /\ goal' = "terminal"
        /\ line' = Append(line, Event("updated", 0, "terminal"))
        /\ UNCHANGED <<setBy, turn, owner>>
     \/ /\ pause[g] \in {"interrupt", "again"} /\ turn # 0
        /\ IF turn = rpc[g].turn
           THEN /\ \E how \in {"ok", "lost"} : Reply(g, how)
                /\ turn' = 0
                /\ line' = Append(line, Event("completed", turn, "interrupted"))
           ELSE /\ rpc' = [rpc EXCEPT ![g] = [turn |-> turn, reply |-> "found"]]
                /\ UNCHANGED <<line, turn>>
        /\ UNCHANGED <<goal, setBy, owner>>

\* A physical turn starts: the next of an active goal, or one of startTurn, which
\* needs the thread to itself.
TurnStarts ==
  /\ ~closed /\ turn = 0
  /\ Len(owner) < MaxTurns /\ Len(line) < MaxLine
  /\ turn' = Len(owner) + 1
  /\ line' = Append(line, Event("started", turn', "none"))
  /\ \/ goal = "active" /\ owner' = Append(owner, setBy)
     \/ goal # "active" /\ active = 0 /\ Starting = {} /\ owner' = Append(owner, 0)
  /\ UNCHANGED <<router, calls, closed, goal, setBy>>

\* A physical turn goes on or ends.
TurnRuns ==
  /\ ~closed /\ turn # 0 /\ Len(line) < MaxLine
  /\ \/ /\ \A g \in Goals : Len(ops[g].stream) < MaxStream
        /\ line' = Append(line, Event("item", turn, "none"))
        /\ UNCHANGED turn
     \/ /\ \E how \in {"completed", "failed", "interrupted"} :
             line' = Append(line, Event("completed", turn, how))
        /\ turn' = 0
  /\ UNCHANGED <<router, calls, closed, goal, setBy, owner>>

\* The stored goal ends, is cleared or resumed by another client.
GoalChanges ==
  /\ ~closed /\ goal # "none" /\ Len(line) < MaxLine
  /\ \/ goal' = "none" /\ line' = Append(line, Event("cleared", 0, "none"))
     \/ /\ goal' = IF goal = "active" THEN "terminal" ELSE "active"
        /\ line' = Append(line, Event("updated", 0, goal'))
  /\ UNCHANGED <<router, calls, closed, setBy, turn, owner>>

-----------------------------------------------------------------------------
Proceeds(g) ==
  ReadDone(g) \/ ClearDone(g) \/ SetDone(g) \/ StartAwaited(g)
    \/ StatusSet(g) \/ Interrupted(g) \/ InterruptedAgain(g)

Next ==
  \/ Route \/ FailAll \/ TurnStarts \/ TurnRuns \/ GoalChanges
  \/ \E g \in Goals : Begin(g) \/ Pause(g) \/ Proceeds(g) \/ Serve(g)

Spec == Init /\ [][Next]_vars

\* Notifications are handled, requests answered, continuations and timers run.
Fairness == WF_vars(Route) /\ \A g \in Goals : WF_vars(Proceeds(g)) /\ WF_vars(Serve(g))

FairSpec == Spec /\ Fairness

-----------------------------------------------------------------------------
(* What goals promise.                                                     *)

Operation ==
  [status : {"none", "active", "terminal"}, cleared : BOOLEAN, physical : BOOLEAN,
   routing : BOOLEAN, current : 0..MaxTurns, logical : 0..MaxTurns, last : 0..MaxTurns,
   end : {"open", "done", "failed"}, stream : Seq({"started", "item", "completed"})]

Notification ==
  [what : {"updated"}, turn : {0}, how : {"active", "terminal"}]
    \cup [what : {"cleared", "started", "item", "completed"}, turn : 0..MaxTurns,
          how : {"none", "completed", "failed", "interrupted"}]

Phases == {"none", "read", "clear", "set", "wait", "cleanup", "returned", "rejected"}
Pauses == {"none", "status", "interrupt", "again"}
Request ==
  [turn : 0..MaxTurns,
   reply : {"none", "sent", "ok", "busy", "invalid", "found", "lost"}]

RouterOK == active \in 0..MaxGoals /\ ops \in [Goals -> Operation]

CallsOK ==
  /\ phase \in [Goals -> Phases] /\ pause \in [Goals -> Pauses]
  /\ failing \in [Goals -> BOOLEAN] /\ memo \in [Goals -> BOOLEAN]
  /\ rpc \in [Goals -> Request]

ServerOK ==
  /\ line \in Seq(Notification)
  /\ goal \in {"none", "active", "terminal"} /\ setBy \in 0..MaxGoals
  /\ turn \in 0..MaxTurns /\ owner \in Seq(0..MaxGoals)

TypeOK == RouterOK /\ CallsOK /\ closed \in BOOLEAN /\ ServerOK

\* A thread is reserved exactly for the goal that is being started or that a
\* caller holds and that is not over: no failure path leaves it reserved, and no
\* goal that is held goes without its notifications (release, route, failAll).
ReservedWhileLive ==
  \A g \in Goals :
    /\ active = g => phase[g] \in {"clear", "set", "wait", "cleanup", "returned"}
                     /\ ops[g].end = "open"
    /\ phase[g] = "returned" /\ ops[g].end = "open" => active = g

\* One start at a time; it finds the thread free, and once it has reserved it,
\* it keeps it until its operation ends.
OneStart ==
  /\ \A g, h \in Starting : g = h
  /\ \A g \in Goals :
       /\ phase[g] = "read" => active = 0
       /\ phase[g] \in {"none", "read"} => ops[g].end = "open"
       /\ phase[g] \in {"clear", "set", "wait", "cleanup"} /\ ops[g].end = "open"
            => active = g

\* The inductive invariant.
IInv == TypeOK /\ ReservedWhileLive /\ OneStart

\* A goal whose status is terminal is over as soon as no physical turn runs, in
\* whichever order the status and the completion are observed.
\* docs/api.md:214, "end the logical stream after the active physical turn finishes".
OverWhenIdle ==
  \A g \in Goals :
    ops[g].last # 0 /\ ~ops[g].physical /\ Over(ops[g]) => ops[g].end # "open"

\* Every startGoal ends, and a goal it returned that stays terminal with no
\* physical turn running comes to its end.
GoalsEnd ==
  \A g \in Goals :
    /\ phase[g] = "read" ~> phase[g] \in {"returned", "rejected"}
    /\ (phase[g] = "returned" /\ ops[g].end = "open")
         ~> \/ ops[g].end # "open"
            \/ goal = "active" \/ turn # 0

\* Each goal presents one logical turn.
Logical == INSTANCE LogicalTurn WITH events <- [g \in Goals |-> ops[g].stream],
                                     end <- [g \in Goals |-> ops[g].end]
OneLogicalTurn == Logical!Spec

\* docs/api.md:211-212: the stream is that of the runtime-generated first turn and
\* its ID is the first physical turn ID.
LogicalIsGoalTurn ==
  \A g \in Goals : ops[g].logical # 0 => owner[ops[g].logical] = g
=============================================================================
