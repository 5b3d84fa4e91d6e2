------------------------ MODULE GoalOperationProofs ------------------------
(***************************************************************************)
(* The reservation of a thread by its goals, the end of a goal and its one *)
(* logical turn, for any number of goals, turns and notifications.         *)
(***************************************************************************)
EXTENDS GoalOperation, TLAPS

\* fail ends an operation and leaves the rest of it.
LEMMA FailedEnds ==
  ASSUME NEW op \in Operation
  PROVE  Failed(op) \in Operation /\ Failed(op).end # "open"
BY DEF Failed, Operation

\* finishWithCompletion keeps the type of an operation.
LEMMA CompletedType ==
  ASSUME NEW op \in Operation
  PROVE  Completed(op) \in Operation
<1> DEFINE pushed == Append(op.stream, "completed")
<1>1. pushed \in Seq({"started", "item", "completed"})
  BY DEF Operation
<1>2. CASE op.end # "open"
  BY <1>2 DEF Completed
<1>3. CASE op.end = "open" /\ op.logical = 0
  BY <1>3, FailedEnds DEF Completed
<1>4. CASE op.end = "open" /\ op.logical # 0
  <2>1. Completed(op) = [op EXCEPT !.end = "done", !.stream = pushed]
    BY <1>4 DEF Completed
  <2> HIDE DEF pushed
  <2> QED BY <1>1, <2>1 DEF Operation
<1> QED BY <1>2, <1>3, <1>4

\* A turn/started keeps the type of an operation.
LEMMA StartedType ==
  ASSUME NEW op \in Operation, NEW n \in Notification
  PROVE  Started(op, n) \in Operation
<1> DEFINE now == [op EXCEPT !.physical = TRUE, !.current = n.turn]
           pushed == Append(op.stream, "started")
<1>1. n.turn \in 0..MaxTurns
  BY GoalAssumption DEF Notification
<1>2. now \in Operation /\ now.stream = op.stream /\ now.logical = op.logical
  BY <1>1 DEF Operation
<1>3. pushed \in Seq({"started", "item", "completed"})
  BY DEF Operation
<1>4. CASE op.logical # 0
  BY <1>2, <1>4 DEF Started
<1>5. CASE op.logical = 0
  <2>1. Started(op, n) = [now EXCEPT !.logical = n.turn, !.stream = pushed]
    BY <1>2, <1>5 DEF Started
  <2> HIDE DEF pushed, now
  <2> QED BY <1>1, <1>2, <1>3, <2>1 DEF Operation
<1> QED BY <1>4, <1>5

\* A turn/completed keeps the type of an operation.
LEMMA TurnDoneType ==
  ASSUME NEW op \in Operation, NEW n \in Notification
  PROVE  TurnDone(op, n) \in Operation
<1> DEFINE now == [op EXCEPT !.physical = FALSE, !.last = n.turn,
                             !.current = IF @ = n.turn THEN 0 ELSE @]
<1>1. n.turn \in 0..MaxTurns
  BY GoalAssumption DEF Notification
<1>2. now \in Operation
  <2> DEFINE left == IF op.current = n.turn THEN 0 ELSE op.current
  <2>1. left \in 0..MaxTurns
    BY GoalAssumption DEF Operation
  <2>2. now = [op EXCEPT !.physical = FALSE, !.last = n.turn, !.current = left]
    BY DEF Operation
  <2> HIDE DEF left, now
  <2> QED BY <1>1, <2>1, <2>2 DEF Operation
<1>3. TurnDone(op, n) \in {Completed(now), Failed(now), now}
  BY DEF TurnDone
<1> HIDE DEF now
<1> QED BY <1>2, <1>3, CompletedType, FailedEnds

\* The notifications about the stored goal keep the type of an operation.
LEMMA AfterUpdateType ==
  ASSUME NEW op \in Operation
  PROVE  AfterUpdate(op) \in Operation
BY CompletedType DEF AfterUpdate

LEMMA GoalNoticeType ==
  ASSUME NEW op \in Operation, NEW n \in Notification
  PROVE  /\ n.what = "updated" => Updated(op, n) \in Operation
         /\ Cleared(op) \in Operation
<1>1. ASSUME n.what = "updated" PROVE Updated(op, n) \in Operation
  <2>1. n.how \in {"active", "terminal"}
    BY <1>1 DEF Notification
  <2>2. [op EXCEPT !.status = n.how, !.cleared = @ /\ n.how # "active"] \in Operation
    BY <2>1 DEF Operation
  <2> QED BY <2>2, AfterUpdateType DEF Updated
<1>2. [op EXCEPT !.cleared = TRUE] \in Operation
  BY DEF Operation
<1> QED BY <1>1, <1>2, AfterUpdateType DEF Cleared

\* observe keeps the type of an operation.
LEMMA ObserveType ==
  ASSUME NEW op \in Operation, NEW n \in Notification
  PROVE  Observe(op, n) \in Operation
<1>1. Append(op.stream, "item") \in Seq({"started", "item", "completed"})
  BY DEF Operation
<1>2. [op EXCEPT !.stream = Append(@, "item")] \in Operation
  BY <1>1 DEF Operation
<1>3. n.what \in {"updated", "cleared", "started", "completed", "item"}
  BY DEF Notification
<1>4. CASE n.what = "updated"
  BY <1>4, GoalNoticeType DEF Observe
<1>5. CASE n.what = "cleared"
  BY <1>5, GoalNoticeType DEF Observe
<1>6. CASE n.what = "started"
  BY <1>6, StartedType DEF Observe
<1>7. CASE n.what = "completed"
  BY <1>7, TurnDoneType DEF Observe
<1>8. CASE n.what = "item"
  BY <1>2, <1>8 DEF Observe
<1> QED BY <1>3, <1>4, <1>5, <1>6, <1>7, <1>8

-----------------------------------------------------------------------------
(* The types of what each action changes.                                  *)

LEMMA AskType ==
  ASSUME TypeOK, NEW g \in Goals, NEW t \in 0..MaxTurns, Ask(g, t)
  PROVE  rpc' \in [Goals -> Request]
BY DEF Ask, TypeOK, CallsOK, Request

LEMMA NoRequestType ==
  ASSUME TypeOK, NEW g \in Goals, NoRequest(g)
  PROVE  rpc' \in [Goals -> Request]
BY GoalAssumption DEF NoRequest, TypeOK, CallsOK, Request

LEMMA ReplyType ==
  ASSUME TypeOK, NEW g \in Goals,
         NEW how \in {"ok", "busy", "invalid", "lost"}, Reply(g, how)
  PROVE  rpc' \in [Goals -> Request]
BY DEF Reply, TypeOK, CallsOK, Request

LEMMA TargetType ==
  ASSUME TypeOK, NEW g \in Goals
  PROVE  TurnForInterrupt(ops[g]) \in 0..MaxTurns
BY DEF TurnForInterrupt, TypeOK, RouterOK, Operation

\* A start that is rejected.
LEMMA RejectsType ==
  ASSUME TypeOK, NEW g \in Goals, Rejects(g)
  PROVE  RouterOK' /\ phase' \in [Goals -> Phases]
<1>1. ops' \in [Goals -> Operation]
  BY FailedEnds DEF Rejects, TypeOK, RouterOK
<1> QED
  BY <1>1, GoalAssumption DEF Rejects, TypeOK, RouterOK, CallsOK, Phases, Goals

LEMMA PauseEndsType ==
  ASSUME TypeOK, NEW g \in Goals, NEW failed \in BOOLEAN, PauseEnds(g, failed),
         failing' \in [Goals -> BOOLEAN]
  PROVE  RouterOK' /\ CallsOK'
<1>1. rpc' \in [Goals -> Request] /\ pause' \in [Goals -> Pauses]
  BY NoRequestType DEF PauseEnds, TypeOK, CallsOK, Pauses
<1>2. CASE phase[g] = "cleanup"
  BY <1>1, <1>2, RejectsType DEF PauseEnds, TypeOK, CallsOK
<1>3. CASE phase[g] # "cleanup"
  BY <1>1, <1>3 DEF PauseEnds, TypeOK, CallsOK, RouterOK, router
<1> QED BY <1>2, <1>3

LEMMA CatchType ==
  ASSUME TypeOK, NEW g \in Goals, NEW pauses \in BOOLEAN, Catch(g, pauses)
  PROVE  RouterOK' /\ CallsOK'
<1>1. CASE pauses /\ ops[g].end = "open"
  <2>1. rpc' \in [Goals -> Request]
    BY <1>1, AskType, GoalAssumption DEF Catch
  <2> QED
    BY <1>1, <2>1 DEF Catch, TypeOK, CallsOK, RouterOK, router, Phases, Pauses
<1>2. CASE ~(pauses /\ ops[g].end = "open")
  BY <1>2, RejectsType, NoRequestType DEF Catch, TypeOK, CallsOK
<1> QED BY <1>1, <1>2

-----------------------------------------------------------------------------
(* Types.                                                                  *)

LEMMA InitType == Init => TypeOK
<1> SUFFICES ASSUME Init PROVE TypeOK
  OBVIOUS
<1>1. << >> \in Seq({"started", "item", "completed"}) /\ << >> \in Seq(Notification)
        /\ << >> \in Seq(0..MaxGoals)
  OBVIOUS
<1>2. NewOp \in Operation
  BY <1>1, GoalAssumption DEF NewOp, Operation
<1>3. RouterOK
  BY <1>2, GoalAssumption DEF Init, RouterOK
<1>4. CallsOK
  BY GoalAssumption DEF Init, CallsOK, Phases, Pauses, Request
<1>5. ServerOK
  BY <1>1, GoalAssumption DEF Init, ServerOK
<1> QED BY <1>3, <1>4, <1>5 DEF Init, TypeOK

\* The notifications of the app-server.
LEMMA NoticeType ==
  /\ \A t \in 0..MaxTurns :
       /\ Event("started", t, "none") \in Notification
       /\ Event("item", t, "none") \in Notification
       /\ \A how \in {"completed", "failed", "interrupted"} :
            Event("completed", t, how) \in Notification
  /\ Event("cleared", 0, "none") \in Notification
  /\ Event("updated", 0, "active") \in Notification
  /\ Event("updated", 0, "terminal") \in Notification
BY GoalAssumption DEF Event, Notification

LEMMA AppendType ==
  ASSUME NEW S, NEW s \in Seq(S), NEW x \in S
  PROVE  Append(s, x) \in Seq(S)
OBVIOUS

\* The line takes what the app-server sends.
LEMMA LineType ==
  ASSUME line \in Seq(Notification), NEW t \in 0..MaxTurns
  PROVE  /\ Append(line, Event("started", t, "none")) \in Seq(Notification)
         /\ Append(line, Event("item", t, "none")) \in Seq(Notification)
         /\ \A how \in {"completed", "failed", "interrupted"} :
              Append(line, Event("completed", t, how)) \in Seq(Notification)
         /\ Append(line, Event("cleared", 0, "none")) \in Seq(Notification)
         /\ Append(line, Event("updated", 0, "active")) \in Seq(Notification)
         /\ Append(line, Event("updated", 0, "terminal")) \in Seq(Notification)
BY NoticeType, AppendType

LEMMA RouteType == TypeOK /\ Route => TypeOK'
<1> SUFFICES ASSUME TypeOK, Route PROVE TypeOK'
  OBVIOUS
<1>1. Head(line) \in Notification /\ line' \in Seq(Notification)
  BY DEF Route, TypeOK, ServerOK
<1>2. RouterOK'
  <2>1. CASE active = 0
    BY <2>1 DEF Route, TypeOK, RouterOK, router
  <2>2. CASE active # 0
    <3>1. active \in Goals
      BY <2>2, GoalAssumption DEF TypeOK, RouterOK, Goals
    <3>2. Observe(ops[active], Head(line)) \in Operation
      BY <1>1, <3>1, ObserveType DEF TypeOK, RouterOK
    <3> QED BY <2>2, <3>1, <3>2, GoalAssumption DEF Route, TypeOK, RouterOK
  <2> QED BY <2>1, <2>2
<1> QED BY <1>1, <1>2 DEF Route, TypeOK, CallsOK, ServerOK, calls

LEMMA FailAllType == TypeOK /\ FailAll => TypeOK'
<1> SUFFICES ASSUME TypeOK, FailAll PROVE TypeOK'
  OBVIOUS
<1>1. RouterOK'
  BY FailedEnds, GoalAssumption DEF FailAll, TypeOK, RouterOK
<1>2. rpc' \in [Goals -> Request]
  BY DEF FailAll, TypeOK, CallsOK, Request
<1> QED BY <1>1, <1>2 DEF FailAll, TypeOK, CallsOK, ServerOK, server

LEMMA PauseType ==
  ASSUME TypeOK, NEW g \in Goals,
         Pause(g) \/ StatusSet(g) \/ Interrupted(g) \/ InterruptedAgain(g)
  PROVE  TypeOK'
<1>1. closed' = closed /\ ServerOK'
  BY DEF Pause, StatusSet, Interrupted, InterruptedAgain, TypeOK, ServerOK, server
<1>2. RouterOK' /\ CallsOK'
  <2>1. CASE Pause(g)
    <3>1. rpc' \in [Goals -> Request]
      BY <2>1, AskType, GoalAssumption DEF Pause, TypeOK, CallsOK
    <3> QED BY <2>1, <3>1 DEF Pause, TypeOK, CallsOK, RouterOK, router, Pauses
  <2>2. CASE StatusSet(g)
    <3>1. failing' \in [Goals -> BOOLEAN]
      BY <2>2 DEF StatusSet, TypeOK, CallsOK
    <3>2. CASE TurnForInterrupt(ops[g]) = 0
      BY <2>2, <3>1, <3>2, PauseEndsType DEF StatusSet
    <3>3. CASE TurnForInterrupt(ops[g]) # 0
      <4>1. rpc' \in [Goals -> Request]
        BY <2>2, <3>3, AskType, TargetType DEF StatusSet
      <4> QED BY <2>2, <3>1, <3>3, <4>1
              DEF StatusSet, TypeOK, CallsOK, RouterOK, router, Pauses
    <3> QED BY <3>2, <3>3
  <2>3. CASE Interrupted(g)
    <3>1. failing' = failing /\ failing \in [Goals -> BOOLEAN] /\ failing[g] \in BOOLEAN
      BY <2>3 DEF Interrupted, TypeOK, CallsOK
    <3>2. CASE rpc[g].reply = "found"
      <4>1. rpc[g].turn \in 0..MaxTurns
        BY DEF TypeOK, CallsOK, Request
      <4>2. rpc' \in [Goals -> Request]
        BY <2>3, <3>2, <4>1, AskType DEF Interrupted
      <4> QED BY <2>3, <3>1, <3>2, <4>2
              DEF Interrupted, TypeOK, CallsOK, RouterOK, router, Pauses
    <3>3. CASE rpc[g].reply # "found"
      BY <2>3, <3>1, <3>3, PauseEndsType DEF Interrupted
    <3> QED BY <3>2, <3>3
  <2>4. CASE InterruptedAgain(g)
    <3>1. failing' = failing /\ failing \in [Goals -> BOOLEAN] /\ failing[g] \in BOOLEAN
      BY <2>4 DEF InterruptedAgain, TypeOK, CallsOK
    <3> QED BY <2>4, <3>1, PauseEndsType DEF InterruptedAgain
  <2> QED BY <2>1, <2>2, <2>3, <2>4
<1> QED BY <1>1, <1>2 DEF TypeOK

LEMMA StartType ==
  ASSUME TypeOK, NEW g \in Goals,
         Begin(g) \/ ReadDone(g) \/ ClearDone(g) \/ SetDone(g) \/ StartAwaited(g)
  PROVE  TypeOK'
<1>1. closed' = closed /\ ServerOK'
  BY DEF Begin, ReadDone, ClearDone, SetDone, StartAwaited, TypeOK, ServerOK, server
<1>2. 0 \in 0..MaxTurns /\ g \in 0..MaxGoals
  BY GoalAssumption DEF Goals
<1>3. RouterOK' /\ CallsOK'
  <2>1. CASE Begin(g)
    <3>1. rpc' \in [Goals -> Request]
      BY <1>2, <2>1, AskType DEF Begin, TypeOK, CallsOK
    <3> QED BY <2>1, <3>1 DEF Begin, TypeOK, CallsOK, RouterOK, router, Phases
  <2>2. CASE ReadDone(g)
    <3>1. rpc' \in [Goals -> Request]
      BY <1>2, <2>2, AskType, NoRequestType DEF ReadDone
    <3> QED BY <1>2, <2>2, <3>1 DEF ReadDone, TypeOK, CallsOK, RouterOK, Phases
  <2>3. CASE ClearDone(g)
    <3>1. CASE rpc[g].reply = "ok"
      <4>1. rpc' \in [Goals -> Request]
        BY <1>2, <2>3, <3>1, AskType DEF ClearDone
      <4>2. ops' \in [Goals -> Operation]
        <5>1. ops[g] \in Operation
          BY DEF TypeOK, RouterOK
        <5>2. [ops[g] EXCEPT !.routing = TRUE] \in Operation
          BY <5>1 DEF Operation
        <5>3. ops' = [ops EXCEPT ![g] = [ops[g] EXCEPT !.routing = TRUE]]
          BY <2>3, <3>1 DEF ClearDone, TypeOK, RouterOK
        <5> QED BY <5>2, <5>3 DEF TypeOK, RouterOK
      <4> QED BY <2>3, <3>1, <4>1, <4>2 DEF ClearDone, TypeOK, CallsOK, RouterOK, Phases
    <3>2. CASE rpc[g].reply # "ok"
      BY <2>3, <3>2, CatchType DEF ClearDone
    <3> QED BY <3>1, <3>2
  <2>4. CASE SetDone(g)
    <3>1. CASE rpc[g].reply = "ok"
      <4>1. rpc' \in [Goals -> Request]
        BY <2>4, <3>1, NoRequestType DEF SetDone
      <4> QED BY <2>4, <3>1, <4>1 DEF SetDone, TypeOK, CallsOK, RouterOK, router, Phases
    <3>2. CASE rpc[g].reply # "ok"
      BY <2>4, <3>2, CatchType DEF SetDone
    <3> QED BY <3>1, <3>2
  <2>5. CASE StartAwaited(g)
    <3>1. CASE ops[g].logical # 0
      BY <2>5, <3>1 DEF StartAwaited, TypeOK, CallsOK, RouterOK, router, Phases
    <3>2. CASE ops[g].logical = 0
      BY <2>5, <3>2, CatchType DEF StartAwaited
    <3> QED BY <3>1, <3>2
  <2> QED BY <2>1, <2>2, <2>3, <2>4, <2>5
<1> QED BY <1>1, <1>3 DEF TypeOK

LEMMA ServeType ==
  ASSUME TypeOK, NEW g \in Goals, Serve(g)
  PROVE  TypeOK'
<1>1. RouterOK' /\ closed' = closed
  BY DEF Serve, TypeOK, RouterOK
<1>2. rpc' \in [Goals -> Request]
  <2>1. CASE rpc' = [rpc EXCEPT ![g] = [turn |-> turn, reply |-> "found"]]
    BY <2>1 DEF TypeOK, CallsOK, ServerOK, Request
  <2>2. CASE \E how \in {"ok", "busy", "invalid", "lost"} : Reply(g, how)
    BY <2>2, ReplyType
  <2> QED BY <2>1, <2>2 DEF Serve
<1>3. ServerOK'
  <2>1. 0 \in 0..MaxTurns /\ g \in 0..MaxGoals
    BY GoalAssumption DEF Goals
  <2>2. line' \in Seq(Notification)
    BY <2>1, LineType DEF Serve, TypeOK, ServerOK, server
  <2>3. /\ goal' \in {"none", "active", "terminal"} /\ setBy' \in 0..MaxGoals
        /\ turn' \in 0..MaxTurns /\ owner' = owner
    BY <2>1 DEF Serve, TypeOK, ServerOK, server
  <2> QED BY <2>2, <2>3 DEF TypeOK, ServerOK
<1> QED BY <1>1, <1>2, <1>3 DEF Serve, TypeOK, CallsOK

LEMMA ServerType == TypeOK /\ (TurnStarts \/ TurnRuns \/ GoalChanges) => TypeOK'
<1> SUFFICES ASSUME TypeOK, TurnStarts \/ TurnRuns \/ GoalChanges PROVE TypeOK'
  OBVIOUS
<1>1. RouterOK' /\ CallsOK' /\ closed' = closed
  BY DEF TurnStarts, TurnRuns, GoalChanges, TypeOK, RouterOK, CallsOK, router, calls
<1>2. ServerOK'
  <2>1. CASE TurnStarts
    <3>1. turn' \in 0..MaxTurns
      BY <2>1, GoalAssumption DEF TurnStarts, TypeOK, ServerOK
    <3>2. line' \in Seq(Notification)
      BY <2>1, <3>1, LineType DEF TurnStarts, TypeOK, ServerOK
    <3>3. owner' \in {Append(owner, setBy), Append(owner, 0)} /\ 0 \in 0..MaxGoals
      BY <2>1, GoalAssumption DEF TurnStarts
    <3>4. owner' \in Seq(0..MaxGoals)
      BY <3>3, AppendType DEF TypeOK, ServerOK
    <3> QED BY <2>1, <3>1, <3>2, <3>4 DEF TurnStarts, TypeOK, ServerOK
  <2>2. CASE TurnRuns
    <3>1. line' \in Seq(Notification)
      BY <2>2, LineType DEF TurnRuns, TypeOK, ServerOK
    <3> QED BY <2>2, <3>1, GoalAssumption DEF TurnRuns, TypeOK, ServerOK
  <2>3. CASE GoalChanges
    <3>1. line' \in Seq(Notification) /\ goal' \in {"none", "active", "terminal"}
      BY <2>3, LineType, GoalAssumption DEF GoalChanges, TypeOK, ServerOK
    <3> QED BY <2>3, <3>1 DEF GoalChanges, TypeOK, ServerOK
  <2> QED BY <2>1, <2>2, <2>3
<1> QED BY <1>1, <1>2 DEF TypeOK

LEMMA NextType == TypeOK /\ [Next]_vars => TypeOK'
<1> SUFFICES ASSUME TypeOK, [Next]_vars PROVE TypeOK'
  OBVIOUS
<1>1. CASE UNCHANGED vars
  BY <1>1 DEF vars, router, calls, server, TypeOK, RouterOK, CallsOK, ServerOK
<1>2. CASE Next
  <2>1. CASE Route \/ FailAll \/ TurnStarts \/ TurnRuns \/ GoalChanges
    BY <2>1, RouteType, FailAllType, ServerType
  <2>2. ASSUME NEW g \in Goals, Begin(g) \/ Pause(g) \/ Proceeds(g) \/ Serve(g)
        PROVE  TypeOK'
    BY <2>2, PauseType, StartType, ServeType DEF Proceeds
  <2> QED BY <1>2, <2>1, <2>2 DEF Next
<1> QED BY <1>1, <1>2

-----------------------------------------------------------------------------
(* The reservation.                                                        *)

\* A step that neither moves a start nor ends an operation.
LEMMA Undisturbed ==
  ASSUME ReservedWhileLive, OneStart, phase' = phase, active' = active,
         \A g \in Goals : ops'[g].end = ops[g].end
  PROVE  ReservedWhileLive' /\ OneStart'
BY DEF ReservedWhileLive, OneStart, Starting

LEMMA RouteSafe == IInv /\ Route => ReservedWhileLive' /\ OneStart'
<1> SUFFICES ASSUME IInv, Route PROVE ReservedWhileLive' /\ OneStart'
  OBVIOUS
<1>1. CASE active = 0
  BY <1>1, Undisturbed DEF IInv, Route, router, calls
<1>2. CASE active # 0
  <2> DEFINE op == Observe(ops[active], Head(line))
  <2>1. active \in Goals /\ ops[active].end = "open" /\ phase' = phase
    BY <1>2, GoalAssumption
       DEF IInv, TypeOK, RouterOK, ReservedWhileLive, Goals, Route, calls
  <2>2. /\ ops'[active] = op
        /\ \A h \in Goals \ {active} : ops'[h] = ops[h]
        /\ active' = IF op.end = "open" THEN active ELSE 0
    BY <1>2, <2>1 DEF IInv, TypeOK, RouterOK, Route
  <2> HIDE DEF op
  <2>3. CASE op.end = "open"
    BY <2>1, <2>2, <2>3, Undisturbed DEF IInv
  <2>4. CASE op.end # "open"
    <3>1. active' = 0 /\ 0 \notin Goals
      BY <2>2, <2>4 DEF Goals
    <3> QED BY <2>1, <2>2, <2>4, <3>1 DEF IInv, ReservedWhileLive, OneStart, Starting
  <2> QED BY <2>3, <2>4
<1> QED BY <1>1, <1>2

LEMMA FailAllSafe == IInv /\ FailAll => ReservedWhileLive' /\ OneStart'
<1> SUFFICES ASSUME IInv, FailAll PROVE ReservedWhileLive' /\ OneStart'
  OBVIOUS
<1>1. /\ active' = 0 /\ 0 \notin Goals /\ phase' = phase
      /\ \A h \in Goals \ {active} : ops'[h] = ops[h]
      /\ active \in Goals => ops'[active].end # "open"
  BY FailedEnds DEF IInv, TypeOK, RouterOK, FailAll, Goals
<1> QED BY <1>1 DEF IInv, ReservedWhileLive, OneStart, Starting

\* A start that fails releases the thread.
LEMMA RejectsSafe ==
  ASSUME IInv, NEW g \in Goals, phase[g] \in {"clear", "set", "wait", "cleanup"},
         Rejects(g)
  PROVE  ReservedWhileLive' /\ OneStart'
<1>1. /\ ops'[g].end # "open" /\ phase'[g] = "rejected"
      /\ \A h \in Goals \ {g} : ops'[h] = ops[h] /\ phase'[h] = phase[h]
      /\ active' = IF active = g THEN 0 ELSE active
      /\ 0 \notin Goals
  BY FailedEnds DEF IInv, TypeOK, RouterOK, CallsOK, Rejects, Goals
<1> QED BY <1>1 DEF IInv, ReservedWhileLive, OneStart, Starting

\* A pause disturbs the reservation only as the last step of a start that fails.
LEMMA PauseEndsSafe ==
  ASSUME IInv, NEW g \in Goals, NEW failed, PauseEnds(g, failed)
  PROVE  ReservedWhileLive' /\ OneStart'
<1>1. CASE phase[g] = "cleanup"
  BY <1>1, RejectsSafe DEF PauseEnds
<1>2. CASE phase[g] # "cleanup"
  BY <1>2, Undisturbed DEF IInv, PauseEnds, router
<1> QED BY <1>1, <1>2

\* The catch of startGoal keeps the thread while it pauses the goal.
LEMMA CatchSafe ==
  ASSUME IInv, NEW g \in Goals, phase[g] \in {"clear", "set", "wait"},
         NEW pauses, Catch(g, pauses)
  PROVE  ReservedWhileLive' /\ OneStart'
<1>1. CASE pauses /\ ops[g].end = "open"
  <2>1. /\ phase'[g] = "cleanup" /\ ops[g].end = "open"
        /\ \A h \in Goals \ {g} : phase'[h] = phase[h]
        /\ active' = active /\ ops' = ops
    BY <1>1 DEF IInv, TypeOK, CallsOK, Catch, router
  <2> QED BY <2>1 DEF IInv, ReservedWhileLive, OneStart, Starting
<1>2. CASE ~(pauses /\ ops[g].end = "open")
  BY <1>2, RejectsSafe DEF Catch
<1> QED BY <1>1, <1>2

\* The steps of startGoal.
LEMMA StartSafe ==
  ASSUME IInv, NEW g \in Goals,
         Begin(g) \/ ReadDone(g) \/ ClearDone(g) \/ SetDone(g) \/ StartAwaited(g)
  PROVE  ReservedWhileLive' /\ OneStart'
<1>1. /\ phase \in [Goals -> Phases] /\ ops \in [Goals -> Operation] /\ 0 \notin Goals
  BY DEF IInv, TypeOK, RouterOK, CallsOK, Goals
<1>2. CASE Begin(g)
  <2>1. /\ phase[g] = "none" /\ Starting = {} /\ active' = active /\ ops' = ops
        /\ phase'[g] = IF active # 0 THEN "rejected" ELSE "read"
        /\ \A h \in Goals \ {g} : phase'[h] = phase[h]
    BY <1>1, <1>2 DEF Begin, router
  <2> QED BY <1>1, <2>1 DEF IInv, ReservedWhileLive, OneStart, Starting
<1>3. CASE ReadDone(g)
  <2>1. /\ phase[g] = "read" /\ ops' = ops
        /\ \/ active' = g /\ phase'[g] = "clear"
           \/ active' = active /\ phase'[g] = "rejected"
        /\ \A h \in Goals \ {g} : phase'[h] = phase[h]
    BY <1>1, <1>3 DEF ReadDone
  <2>2. active = 0 /\ ops[g].end = "open"
    BY <2>1 DEF IInv, OneStart
  <2> QED BY <1>1, <2>1, <2>2 DEF IInv, ReservedWhileLive, OneStart, Starting
<1>4. CASE ClearDone(g)
  <2>1. CASE rpc[g].reply = "ok"
    <3>1. /\ phase[g] = "clear" /\ phase'[g] = "set" /\ active' = active
          /\ \A h \in Goals \ {g} : phase'[h] = phase[h]
      BY <1>1, <1>4, <2>1 DEF ClearDone
    <3>2. \A h \in Goals : ops'[h].end = ops[h].end
      <4>1. ops' = [ops EXCEPT ![g] = [ops[g] EXCEPT !.routing = TRUE]]
        BY <1>1, <1>4, <2>1 DEF ClearDone
      <4>2. ops[g] \in Operation
        BY <1>1
      <4>3. [ops[g] EXCEPT !.routing = TRUE].end = ops[g].end
        BY <4>2 DEF Operation
      <4> QED BY <1>1, <4>1, <4>3
    <3> QED BY <1>1, <3>1, <3>2 DEF IInv, ReservedWhileLive, OneStart, Starting
  <2>2. CASE rpc[g].reply # "ok"
    BY <1>4, <2>2, CatchSafe DEF ClearDone
  <2> QED BY <2>1, <2>2
<1>5. CASE SetDone(g)
  <2>1. CASE rpc[g].reply = "ok"
    <3>1. /\ phase[g] = "set" /\ phase'[g] = "wait" /\ active' = active /\ ops' = ops
          /\ \A h \in Goals \ {g} : phase'[h] = phase[h]
      BY <1>1, <1>5, <2>1 DEF SetDone, router
    <3> QED BY <1>1, <3>1 DEF IInv, ReservedWhileLive, OneStart, Starting
  <2>2. CASE rpc[g].reply # "ok"
    BY <1>5, <2>2, CatchSafe DEF SetDone
  <2> QED BY <2>1, <2>2
<1>6. CASE StartAwaited(g)
  <2>1. CASE ops[g].logical # 0
    <3>1. /\ phase[g] = "wait" /\ phase'[g] = "returned" /\ active' = active /\ ops' = ops
          /\ \A h \in Goals \ {g} : phase'[h] = phase[h]
      BY <1>1, <1>6, <2>1 DEF StartAwaited, router
    <3> QED BY <1>1, <3>1 DEF IInv, ReservedWhileLive, OneStart, Starting
  <2>2. CASE ops[g].logical = 0
    BY <1>6, <2>2, CatchSafe DEF StartAwaited
  <2> QED BY <2>1, <2>2
<1> QED BY <1>2, <1>3, <1>4, <1>5, <1>6

\* The steps of a pause.
LEMMA PauseSafe ==
  ASSUME IInv, NEW g \in Goals,
         Pause(g) \/ StatusSet(g) \/ Interrupted(g) \/ InterruptedAgain(g)
  PROVE  ReservedWhileLive' /\ OneStart'
<1>1. \/ UNCHANGED <<router, phase>>
      \/ \E failed \in {rpc[g].reply # "ok", failing[g]} : PauseEnds(g, failed)
  BY DEF Pause, StatusSet, Interrupted, InterruptedAgain
<1>2. CASE UNCHANGED <<router, phase>>
  BY <1>2, Undisturbed DEF IInv, router
<1>3. ASSUME NEW failed, PauseEnds(g, failed)
      PROVE  ReservedWhileLive' /\ OneStart'
  BY <1>3, PauseEndsSafe
<1> QED BY <1>1, <1>2, <1>3

LEMMA InitInv == Init => IInv
<1> SUFFICES ASSUME Init PROVE IInv
  OBVIOUS
<1>1. ReservedWhileLive /\ OneStart
  BY DEF Init, ReservedWhileLive, OneStart, Starting, NewOp, Goals
<1> QED BY <1>1, InitType DEF IInv

LEMMA NextInv == IInv /\ [Next]_vars => IInv'
<1> SUFFICES ASSUME IInv, [Next]_vars PROVE IInv'
  OBVIOUS
<1>1. TypeOK'
  BY NextType DEF IInv
<1>2. ReservedWhileLive' /\ OneStart'
  <2>1. CASE UNCHANGED vars
    BY <2>1, Undisturbed DEF IInv, vars, router, calls
  <2>2. CASE Route \/ FailAll
    BY <2>2, RouteSafe, FailAllSafe
  <2>3. CASE TurnStarts \/ TurnRuns \/ GoalChanges
    BY <2>3, Undisturbed DEF IInv, TurnStarts, TurnRuns, GoalChanges, router, calls
  <2>4. ASSUME NEW g \in Goals, Begin(g) \/ Pause(g) \/ Proceeds(g) \/ Serve(g)
        PROVE  ReservedWhileLive' /\ OneStart'
    <3>1. CASE Serve(g)
      BY <3>1, Undisturbed DEF IInv, Serve
    <3>2. CASE Begin(g) \/ Pause(g) \/ Proceeds(g)
      BY <3>2, StartSafe, PauseSafe DEF Proceeds
    <3> QED BY <2>4, <3>1, <3>2
  <2> QED BY <2>1, <2>2, <2>3, <2>4 DEF Next
<1> QED BY <1>1, <1>2 DEF IInv

-----------------------------------------------------------------------------
(* The logical turn and its end: what one step does to an operation.       *)

\* OverWhenIdle, of one operation.
EndedWhenIdle(op) == op.last # 0 /\ ~op.physical /\ Over(op) => op.end # "open"

\* The stream of an operation begins with its first physical turn.
BegunWithTurn(op) == op.logical # 0 <=> op.stream # << >>

\* The first notification about a physical turn names it.
TurnsNamed == \A i \in DOMAIN line : line[i].what = "started" => line[i].turn # 0

OpsOK == \A g \in Goals : EndedWhenIdle(ops[g]) /\ BegunWithTurn(ops[g])

\* The strengthening from which OverWhenIdle and the refinement follow.
LogicalInv == IInv /\ TurnsNamed /\ OpsOK

Pushes(op, new, what) ==
  new.stream = Append(op.stream, what) /\ (op.stream = << >> <=> what = "started")

\* What a step of LogicalTurn does to a stream.
LogicalStep(op, new) ==
  \/ new.stream = op.stream /\ new.end = op.end
  \/ /\ op.end = "open"
     /\ \/ new.stream = op.stream /\ new.end = "failed"
        \/ \E what \in {"started", "item"} : Pushes(op, new, what) /\ new.end = "open"
        \/ Pushes(op, new, "completed") /\ new.end = "done"

Advances(op, new) ==
  /\ EndedWhenIdle(new) /\ BegunWithTurn(new)
  /\ LogicalStep(op, new)

LEMMA FailedAdvances ==
  ASSUME NEW op \in Operation, EndedWhenIdle(op), BegunWithTurn(op)
  PROVE  Advances(op, Failed(op))
<1>1. CASE op.end = "open"
  <2>1. Failed(op) = [op EXCEPT !.end = "failed"]
    BY <1>1 DEF Failed
  <2> QED BY <1>1, <2>1
          DEF Operation, Advances, EndedWhenIdle, BegunWithTurn, LogicalStep, Over
<1>2. CASE op.end # "open"
  BY <1>2 DEF Failed, Advances, LogicalStep
<1> QED BY <1>1, <1>2

\* finishWithCompletion ends the operation and its stream in one step.
LEMMA CompletedAdvances ==
  ASSUME NEW op \in Operation, op.end = "open", BegunWithTurn(op)
  PROVE  /\ Completed(op).end # "open"
         /\ BegunWithTurn(Completed(op))
         /\ LogicalStep(op, Completed(op))
<1>1. CASE op.logical = 0
  <2>1. Completed(op) = [op EXCEPT !.end = "failed"]
    BY <1>1 DEF Completed, Failed
  <2> QED BY <2>1 DEF Operation, BegunWithTurn, LogicalStep
<1>2. CASE op.logical # 0
  <2> DEFINE pushed == Append(op.stream, "completed")
  <2>1. pushed # << >> /\ op.stream # << >>
    BY <1>2 DEF Operation, BegunWithTurn
  <2>2. Completed(op) = [op EXCEPT !.end = "done", !.stream = pushed]
    BY <1>2 DEF Completed
  <2>3. /\ Completed(op).end = "done" /\ Completed(op).stream = pushed
        /\ Completed(op).logical = op.logical
    BY <2>2 DEF Operation
  <2> QED BY <1>2, <2>1, <2>3 DEF BegunWithTurn, LogicalStep, Pushes
<1> QED BY <1>1, <1>2

\* turn/started shows the first turn, and no other.
LEMMA StartedAdvances ==
  ASSUME NEW op \in Operation, op.end = "open", BegunWithTurn(op),
         NEW n \in Notification, n.turn # 0
  PROVE  Advances(op, Started(op, n))
<1> DEFINE now == [op EXCEPT !.physical = TRUE, !.current = n.turn]
           pushed == Append(op.stream, "started")
<1>1. /\ now \in [status : {"none", "active", "terminal"}, cleared : BOOLEAN,
                  physical : BOOLEAN, routing : BOOLEAN, current : {n.turn},
                  logical : 0..MaxTurns, last : 0..MaxTurns,
                  end : {"open", "done", "failed"},
                  stream : Seq({"started", "item", "completed"})]
      /\ now.physical /\ now.end = "open"
      /\ now.stream = op.stream /\ now.logical = op.logical
  BY DEF Operation
<1>2. CASE op.logical # 0
  <2>1. Started(op, n) = now
    BY <1>1, <1>2 DEF Started
  <2> HIDE DEF now
  <2> QED BY <1>1, <2>1 DEF Advances, EndedWhenIdle, BegunWithTurn, LogicalStep
<1>3. CASE op.logical = 0
  <2>1. pushed # << >>
    BY DEF Operation
  <2>2. op.stream = << >>
    BY <1>3 DEF BegunWithTurn
  <2>3. Started(op, n) = [now EXCEPT !.logical = n.turn, !.stream = pushed]
    BY <1>1, <1>3 DEF Started
  <2> HIDE DEF now
  <2>4. /\ Started(op, n).physical /\ Started(op, n).end = "open"
        /\ Started(op, n).stream = pushed /\ Started(op, n).logical = n.turn
    BY <1>1, <2>3
  <2> QED BY <2>1, <2>2, <2>4
          DEF Advances, EndedWhenIdle, BegunWithTurn, LogicalStep, Pushes
<1> QED BY <1>2, <1>3

\* turn/completed ends the operation if it is over, and else shows nothing.
LEMMA TurnDoneAdvances ==
  ASSUME NEW op \in Operation, op.end = "open", BegunWithTurn(op),
         NEW n \in Notification
  PROVE  Advances(op, TurnDone(op, n))
<1> DEFINE now == [op EXCEPT !.physical = FALSE, !.last = n.turn,
                             !.current = IF @ = n.turn THEN 0 ELSE @]
<1>1. now \in Operation
  <2> DEFINE left == IF op.current = n.turn THEN 0 ELSE op.current
  <2>1. left \in 0..MaxTurns /\ n.turn \in 0..MaxTurns
    BY GoalAssumption DEF Operation, Notification
  <2>2. now = [op EXCEPT !.physical = FALSE, !.last = n.turn, !.current = left]
    BY DEF Operation
  <2> HIDE DEF left, now
  <2> QED BY <2>1, <2>2 DEF Operation
<1>2. /\ now.end = op.end /\ now.stream = op.stream /\ now.logical = op.logical
      /\ now.status = op.status /\ now.cleared = op.cleared
  BY DEF Operation
<1>3. /\ TurnDone(op, n) \in {Completed(now), Failed(now), now}
      /\ Over(op) => TurnDone(op, n) = Completed(now)
  BY DEF TurnDone
<1> HIDE DEF now
<1>4. BegunWithTurn(now) /\ Over(now) = Over(op)
  BY <1>2 DEF BegunWithTurn, Over
<1>5. CASE TurnDone(op, n) = Completed(now)
  BY <1>1, <1>2, <1>4, <1>5, CompletedAdvances
     DEF Advances, EndedWhenIdle, LogicalStep, Pushes
<1>6. CASE ~Over(op) /\ TurnDone(op, n) = Failed(now)
  <2>1. EndedWhenIdle(now)
    BY <1>4, <1>6 DEF EndedWhenIdle
  <2>2. Advances(now, Failed(now))
    BY <1>1, <1>4, <2>1, FailedAdvances
  <2> QED BY <1>2, <1>6, <2>2 DEF Advances, LogicalStep, Pushes
<1>7. CASE ~Over(op) /\ TurnDone(op, n) = now
  BY <1>2, <1>4, <1>7 DEF Advances, EndedWhenIdle, LogicalStep
<1> QED BY <1>3, <1>5, <1>6, <1>7

\* A status ends an operation that is over and runs no turn.
LEMMA AfterUpdateAdvances ==
  ASSUME NEW op \in Operation, op.end = "open", BegunWithTurn(op)
  PROVE  Advances(op, AfterUpdate(op))
<1>1. CASE ~op.physical /\ op.last # 0 /\ Over(op)
  BY <1>1, CompletedAdvances DEF AfterUpdate, Advances, EndedWhenIdle
<1>2. CASE ~(~op.physical /\ op.last # 0 /\ Over(op))
  BY <1>2 DEF AfterUpdate, Advances, EndedWhenIdle, LogicalStep
<1> QED BY <1>1, <1>2

\* The same of a notification that first writes the status.
LEMMA StatusAdvances ==
  ASSUME NEW op \in Operation, NEW now \in Operation, op.end = "open", BegunWithTurn(op),
         now.end = op.end, now.stream = op.stream, now.logical = op.logical
  PROVE  Advances(op, AfterUpdate(now))
<1>1. BegunWithTurn(now)
  BY DEF BegunWithTurn
<1>2. Advances(now, AfterUpdate(now))
  BY <1>1, AfterUpdateAdvances
<1> QED BY <1>2 DEF Advances, LogicalStep, Pushes

\* observe.
LEMMA ObserveAdvances ==
  ASSUME NEW op \in Operation, op.end = "open", EndedWhenIdle(op), BegunWithTurn(op),
         NEW n \in Notification, n.what = "started" => n.turn # 0
  PROVE  Advances(op, Observe(op, n))
<1>1. Advances(op, op)
  BY DEF Advances, LogicalStep
<1>2. CASE n.what = "updated"
  <2> DEFINE now == [op EXCEPT !.status = n.how, !.cleared = @ /\ n.how # "active"]
  <2>1. n.how \in {"active", "terminal"}
    BY <1>2 DEF Notification
  <2>2. now \in Operation /\ now.end = op.end /\ now.stream = op.stream
        /\ now.logical = op.logical
    BY <2>1 DEF Operation
  <2>3. Observe(op, n) = AfterUpdate(now)
    BY <1>2 DEF Observe, Updated
  <2> HIDE DEF now
  <2> QED BY <2>2, <2>3, StatusAdvances
<1>3. CASE n.what = "cleared"
  <2> DEFINE now == [op EXCEPT !.cleared = TRUE]
  <2>1. now \in Operation /\ now.end = op.end /\ now.stream = op.stream
        /\ now.logical = op.logical
    BY DEF Operation
  <2>2. Observe(op, n) = AfterUpdate(now)
    BY <1>3 DEF Observe, Cleared
  <2> HIDE DEF now
  <2> QED BY <2>1, <2>2, StatusAdvances
<1>4. CASE n.what = "started"
  BY <1>1, <1>4, StartedAdvances DEF Observe
<1>5. CASE n.what = "completed"
  BY <1>1, <1>5, TurnDoneAdvances DEF Observe
<1>6. CASE n.what = "item" /\ op.routing /\ op.logical # 0
  <2> DEFINE pushed == Append(op.stream, "item")
             new == [op EXCEPT !.stream = pushed]
  <2>1. op.stream # << >> /\ pushed # << >>
    BY <1>6 DEF Operation, BegunWithTurn
  <2>2. Observe(op, n) = new
    BY <1>6 DEF Observe
  <2>3. /\ new.stream = pushed /\ new.end = op.end /\ new.logical = op.logical
        /\ new.last = op.last /\ new.physical = op.physical
        /\ new.status = op.status /\ new.cleared = op.cleared
    BY DEF Operation
  <2> HIDE DEF new
  <2> QED BY <1>6, <2>1, <2>2, <2>3
          DEF Advances, EndedWhenIdle, BegunWithTurn, Over, LogicalStep, Pushes
<1>7. CASE n.what = "item" /\ ~(op.routing /\ op.logical # 0)
  BY <1>1, <1>7 DEF Observe
<1>8. n.what \in {"updated", "cleared", "started", "completed", "item"}
  BY DEF Notification
<1> QED BY <1>2, <1>3, <1>4, <1>5, <1>6, <1>7, <1>8

-----------------------------------------------------------------------------
(* What each action does to the operations: one of them moves, at most.    *)

Moved ==
  \/ ops' = ops
  \/ \E g \in Goals : \E new \in Operation :
       ops' = [ops EXCEPT ![g] = new] /\ Advances(ops[g], new)

LEMMA RouteMoves == LogicalInv /\ Route => Moved
<1> SUFFICES ASSUME LogicalInv, Route PROVE Moved
  OBVIOUS
<1>1. CASE active = 0
  BY <1>1 DEF Route, Moved, router
<1>2. CASE active # 0
  <2> DEFINE op == Observe(ops[active], Head(line))
  <2>1. active \in Goals /\ ops[active] \in Operation /\ ops[active].end = "open"
    BY <1>2, GoalAssumption
       DEF LogicalInv, IInv, TypeOK, RouterOK, ReservedWhileLive, Goals
  <2>2. /\ Head(line) \in Notification
        /\ Head(line).what = "started" => Head(line).turn # 0
    BY DEF Route, LogicalInv, IInv, TypeOK, ServerOK, TurnsNamed
  <2>3. op \in Operation /\ Advances(ops[active], op)
    BY <2>1, <2>2, ObserveType, ObserveAdvances DEF LogicalInv, OpsOK
  <2>4. ops' = [ops EXCEPT ![active] = op]
    BY <1>2 DEF Route
  <2> HIDE DEF op
  <2> QED BY <2>1, <2>3, <2>4 DEF Moved
<1> QED BY <1>1, <1>2

LEMMA FailAllMoves == LogicalInv /\ FailAll => Moved
<1> SUFFICES ASSUME LogicalInv, FailAll PROVE Moved
  OBVIOUS
<1>1. ops \in [Goals -> Operation]
  BY DEF LogicalInv, IInv, TypeOK, RouterOK
<1>2. CASE active \in Goals
  <2>1. Failed(ops[active]) \in Operation /\ Advances(ops[active], Failed(ops[active]))
    BY <1>1, <1>2, FailedEnds, FailedAdvances DEF LogicalInv, OpsOK
  <2>2. ops' = [ops EXCEPT ![active] = Failed(ops[active])]
    BY <1>1 DEF FailAll
  <2> QED BY <1>2, <2>1, <2>2 DEF Moved
<1>3. CASE active \notin Goals
  BY <1>1, <1>3 DEF FailAll, Moved
<1> QED BY <1>2, <1>3

LEMMA RejectsMoves ==
  ASSUME LogicalInv, NEW g \in Goals, Rejects(g)
  PROVE  Moved
<1>1. ops[g] \in Operation
  BY DEF LogicalInv, IInv, TypeOK, RouterOK
<1>2. Failed(ops[g]) \in Operation /\ Advances(ops[g], Failed(ops[g]))
  BY <1>1, FailedEnds, FailedAdvances DEF LogicalInv, OpsOK
<1> QED BY <1>2 DEF Rejects, Moved

LEMMA CatchMoves ==
  ASSUME LogicalInv, NEW g \in Goals, NEW pauses, Catch(g, pauses)
  PROVE  Moved
BY RejectsMoves DEF Catch, Moved, router

LEMMA StartMoves ==
  ASSUME LogicalInv, NEW g \in Goals,
         Begin(g) \/ ReadDone(g) \/ ClearDone(g) \/ SetDone(g) \/ StartAwaited(g)
  PROVE  Moved
<1>1. CASE Begin(g) \/ ReadDone(g)
  BY <1>1 DEF Begin, ReadDone, Moved, router
<1>2. CASE ClearDone(g) /\ rpc[g].reply = "ok"
  <2> DEFINE new == [ops[g] EXCEPT !.routing = TRUE]
  <2>1. ops[g] \in Operation /\ EndedWhenIdle(ops[g]) /\ BegunWithTurn(ops[g])
    BY DEF LogicalInv, IInv, TypeOK, RouterOK, OpsOK
  <2>2. /\ new \in Operation
        /\ new.stream = ops[g].stream /\ new.end = ops[g].end
        /\ new.logical = ops[g].logical /\ new.last = ops[g].last
        /\ new.physical = ops[g].physical /\ new.status = ops[g].status
        /\ new.cleared = ops[g].cleared
    BY <2>1 DEF Operation
  <2>3. ops' = [ops EXCEPT ![g] = new]
    BY <1>2 DEF ClearDone, LogicalInv, IInv, TypeOK, RouterOK
  <2> HIDE DEF new
  <2>4. Advances(ops[g], new)
    BY <2>1, <2>2 DEF Advances, EndedWhenIdle, BegunWithTurn, Over, LogicalStep
  <2> QED BY <2>2, <2>3, <2>4 DEF Moved
<1>3. CASE ClearDone(g) /\ rpc[g].reply # "ok"
  BY <1>3, CatchMoves DEF ClearDone
<1>4. CASE SetDone(g) \/ StartAwaited(g)
  BY <1>4, CatchMoves DEF SetDone, StartAwaited, Moved, router
<1> QED BY <1>1, <1>2, <1>3, <1>4

LEMMA PauseMoves ==
  ASSUME LogicalInv, NEW g \in Goals,
         Pause(g) \/ StatusSet(g) \/ Interrupted(g) \/ InterruptedAgain(g)
  PROVE  Moved
<1>1. \/ UNCHANGED router
      \/ \E failed \in {rpc[g].reply # "ok", failing[g]} : PauseEnds(g, failed)
  BY DEF Pause, StatusSet, Interrupted, InterruptedAgain
<1>2. ASSUME NEW failed, PauseEnds(g, failed)
      PROVE  Moved
  BY <1>2, RejectsMoves DEF PauseEnds, Moved, router
<1> QED BY <1>1, <1>2 DEF Moved, router

LEMMA NextMoves == LogicalInv /\ [Next]_vars => Moved
<1> SUFFICES ASSUME LogicalInv, [Next]_vars PROVE Moved
  OBVIOUS
<1>1. CASE UNCHANGED vars
  BY <1>1 DEF vars, router, Moved
<1>2. CASE Route \/ FailAll
  BY <1>2, RouteMoves, FailAllMoves
<1>3. CASE TurnStarts \/ TurnRuns \/ GoalChanges
  BY <1>3 DEF TurnStarts, TurnRuns, GoalChanges, router, Moved
<1>4. ASSUME NEW g \in Goals, Begin(g) \/ Pause(g) \/ Proceeds(g) \/ Serve(g)
      PROVE  Moved
  <2>1. CASE Serve(g)
    BY <2>1 DEF Serve, Moved
  <2>2. CASE Begin(g) \/ Pause(g) \/ Proceeds(g)
    BY <2>2, StartMoves, PauseMoves DEF Proceeds
  <2> QED BY <1>4, <2>1, <2>2
<1> QED BY <1>1, <1>2, <1>3, <1>4 DEF Next

-----------------------------------------------------------------------------
(* The notifications about turns, and the invariant.                       *)

\* Whatever happens, the line keeps its order: it loses its head, or gains one
\* notification, which names its turn when it is of a start.
LEMMA NextNamed == LogicalInv /\ [Next]_vars => TurnsNamed'
<1> SUFFICES ASSUME LogicalInv, [Next]_vars PROVE TurnsNamed'
  OBVIOUS
<1>1. TypeOK /\ TurnsNamed /\ line \in Seq(Notification)
  BY DEF LogicalInv, IInv, TypeOK, ServerOK
<1>2. CASE line' = line
  BY <1>1, <1>2 DEF TurnsNamed
<1>3. CASE Route
  BY <1>1, <1>3 DEF Route, TurnsNamed
<1>4. ASSUME NEW what \in {"updated", "cleared", "item", "completed"}, NEW t, NEW how,
             line' = Append(line, Event(what, t, how))
      PROVE  TurnsNamed'
  <2>1. ASSUME NEW i \in DOMAIN line'
        PROVE  line'[i].what # "started" \/ (i \in DOMAIN line /\ line'[i] = line[i])
    BY <1>1, <1>4, <2>1 DEF Event
  <2> QED BY <1>1, <2>1 DEF TurnsNamed
<1>5. CASE TurnStarts
  <2>1. turn' # 0 /\ line' = Append(line, Event("started", turn', "none"))
    BY <1>1, <1>5 DEF TurnStarts, TypeOK, ServerOK
  <2>2. ASSUME NEW i \in DOMAIN line'
        PROVE  line'[i].turn # 0 \/ (i \in DOMAIN line /\ line'[i] = line[i])
    BY <1>1, <2>1, <2>2 DEF Event
  <2> QED BY <1>1, <2>2 DEF TurnsNamed
<1>6. CASE TurnRuns \/ GoalChanges
  BY <1>4, <1>6 DEF TurnRuns, GoalChanges
<1>7. ASSUME NEW g \in Goals, Serve(g)
      PROVE  TurnsNamed'
  BY <1>2, <1>4, <1>7 DEF Serve, server
<1>8. ASSUME NEW g \in Goals, Begin(g) \/ Pause(g) \/ Proceeds(g)
      PROVE  line' = line
  BY <1>8 DEF Begin, Pause, Proceeds, ReadDone, ClearDone, SetDone, StartAwaited,
              StatusSet, Interrupted, InterruptedAgain, server
<1>9. CASE FailAll \/ UNCHANGED vars
  BY <1>2, <1>9 DEF FailAll, vars, server
<1> QED BY <1>2, <1>3, <1>5, <1>6, <1>7, <1>8, <1>9 DEF Next

LEMMA LogicalInit == Init => LogicalInv
<1> SUFFICES ASSUME Init PROVE LogicalInv
  OBVIOUS
<1>1. TurnsNamed
  BY DEF Init, TurnsNamed
<1>2. OpsOK
  BY DEF Init, OpsOK, NewOp, EndedWhenIdle, BegunWithTurn
<1> QED BY <1>1, <1>2, InitInv DEF LogicalInv

LEMMA LogicalNext == LogicalInv /\ [Next]_vars => LogicalInv'
<1> SUFFICES ASSUME LogicalInv, [Next]_vars PROVE LogicalInv'
  OBVIOUS
<1>1. IInv' /\ TurnsNamed'
  BY NextInv, NextNamed DEF LogicalInv
<1>2. OpsOK'
  <2>1. ops \in [Goals -> Operation]
    BY DEF LogicalInv, IInv, TypeOK, RouterOK
  <2>2. CASE ops' = ops
    BY <2>2 DEF LogicalInv, OpsOK
  <2>3. ASSUME NEW g \in Goals, NEW new \in Operation,
               ops' = [ops EXCEPT ![g] = new], Advances(ops[g], new)
        PROVE  OpsOK'
    BY <2>1, <2>3 DEF LogicalInv, OpsOK, Advances
  <2> QED BY <2>2, <2>3, NextMoves DEF Moved
<1> QED BY <1>1, <1>2 DEF LogicalInv

\* A step of one operation is a step of its logical turn.
LEMMA MoveRefines ==
  ASSUME ops \in [Goals -> Operation], NEW g \in Goals, NEW new \in Operation,
         ops' = [ops EXCEPT ![g] = new], LogicalStep(ops[g], new)
  PROVE  [Logical!Next]_(Logical!vars)
<1> DEFINE events == [h \in Goals |-> ops[h].stream]
           ends == [h \in Goals |-> ops[h].end]
<1>1. /\ events' = [events EXCEPT ![g] = new.stream]
      /\ ends' = [ends EXCEPT ![g] = new.end]
      /\ events[g] = ops[g].stream /\ ends[g] = ops[g].end
  OBVIOUS
<1>2. CASE new.stream = ops[g].stream /\ new.end = ops[g].end
  BY <1>1, <1>2 DEF Logical!vars
<1>3. CASE ops[g].end = "open" /\ new.stream = ops[g].stream /\ new.end = "failed"
  <2>1. Logical!Fail(g)
    BY <1>1, <1>3 DEF Logical!Fail
  <2> QED BY <2>1 DEF Logical!Next
<1>4. CASE ops[g].end = "open" /\ new.end = "open" /\ Pushes(ops[g], new, "started")
  <2>1. Logical!Start(g)
    BY <1>1, <1>4 DEF Logical!Start, Logical!Push, Pushes
  <2> QED BY <2>1 DEF Logical!Next
<1>5. CASE ops[g].end = "open" /\ new.end = "open" /\ Pushes(ops[g], new, "item")
  <2>1. Logical!Continue(g)
    BY <1>1, <1>5 DEF Logical!Continue, Logical!Push, Pushes
  <2> QED BY <2>1 DEF Logical!Next
<1>6. CASE ops[g].end = "open" /\ new.end = "done" /\ Pushes(ops[g], new, "completed")
  <2>1. Logical!Complete(g)
    BY <1>1, <1>6 DEF Logical!Complete, Logical!Push, Pushes
  <2> QED BY <2>1 DEF Logical!Next
<1> QED BY <1>2, <1>3, <1>4, <1>5, <1>6 DEF LogicalStep

-----------------------------------------------------------------------------
\* The inductive invariant holds in every behaviour of the goals of a thread.
THEOREM Invariance == Spec => []IInv
BY InitInv, NextInv, PTL DEF Spec

\* The operations, the calls and the notifications in line keep their types.
THEOREM TypeCorrect == Spec => []TypeOK
<1>1. IInv => TypeOK
  BY DEF IInv
<1> QED BY <1>1, Invariance, PTL

\* A thread is reserved exactly for the goal that is being started or held and
\* is not over, whatever fails, in every behaviour (release, route, failAll).
THEOREM Reserved == Spec => []ReservedWhileLive
<1>1. IInv => ReservedWhileLive
  BY DEF IInv
<1> QED BY <1>1, Invariance, PTL

\* What the operations, their streams and the line have in common, in every
\* behaviour.
THEOREM LogicalInvariance == Spec => []LogicalInv
BY LogicalInit, LogicalNext, PTL DEF Spec

\* A goal that is over and runs no physical turn has ended, in whichever order
\* its status and its last completion are observed (finishAfterTerminalUpdate).
THEOREM EndsWhenOver == Spec => []OverWhenIdle
<1>1. LogicalInv => OverWhenIdle
  BY DEF LogicalInv, OpsOK, EndedWhenIdle, OverWhenIdle
<1> QED BY <1>1, LogicalInvariance, PTL

\* However many physical turns a goal takes, its stream is that of one turn
\* that starts, goes on and completes once, or fails.
THEOREM PresentsOneTurn == Spec => OneLogicalTurn
<1>1. Init => Logical!Init
  BY DEF Init, NewOp, Logical!Init
<1>2. LogicalInv /\ [Next]_vars => [Logical!Next]_(Logical!vars)
  <2> SUFFICES ASSUME LogicalInv, [Next]_vars
               PROVE  [Logical!Next]_(Logical!vars)
    OBVIOUS
  <2>1. ops \in [Goals -> Operation]
    BY DEF LogicalInv, IInv, TypeOK, RouterOK
  <2>2. CASE ops' = ops
    BY <2>2 DEF Logical!vars
  <2>3. ASSUME NEW g \in Goals, NEW new \in Operation,
               ops' = [ops EXCEPT ![g] = new], Advances(ops[g], new)
        PROVE  [Logical!Next]_(Logical!vars)
    BY <2>1, <2>3, MoveRefines DEF Advances
  <2> QED BY <2>2, <2>3, NextMoves DEF Moved
<1> QED BY <1>1, <1>2, LogicalInvariance, PTL DEF Spec, OneLogicalTurn, Logical!Spec
=============================================================================
