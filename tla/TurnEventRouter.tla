-------------------------- MODULE TurnEventRouter --------------------------
(***************************************************************************)
(* The fan-out of turn notifications to the readers of a turn:             *)
(* src/turn-event-router.ts.  Several handles may read the same turn; each *)
(* owns an independent TurnEventStream.  The router keeps, per turn of a   *)
(* thread, what a handle that joins later must still be given, and keeps   *)
(* it while a turn/start request of the thread is in flight, because the   *)
(* events of a turn may precede the response that names it.                *)
(*                                                                         *)
(* An event is identified by its position in log, the order of arrival,    *)
(* which is what the code's sequence numbers record.  The methods of both  *)
(* classes run to completion without an await, so each one is one action.  *)
(***************************************************************************)
EXTENDS Integers, Sequences, FiniteSets, EventOrder

CONSTANTS
  Threads,          (* Thread ids.                                         *)
  Turns,            (* Turn ids; a fork replays them under another thread. *)
  Items,            (* Item ids of item/completed notifications.           *)
  Streams,          (* TurnEventStream objects.                            *)
  Starts,           (* start operations, each with its reservation token.  *)
  MaxPendingTurns,  (* MAX_PENDING_TURNS, 128 in the code.                 *)
  MaxPendingEvents, (* MAX_PENDING_EVENTS_PER_TURN, 2000 in the code.      *)
  MaxEvents,        (* Bounds the model: notifications routed.             *)
  MaxWaiters,       (* Bounds the model: unanswered next() per stream.     *)
  MaxConnections    (* Bounds the model: connections, each ended by failAll. *)

ASSUME RouterAssumption ==
  /\ MaxPendingTurns \in Nat \ {0}
  /\ MaxPendingEvents \in Nat \ {0}
  /\ MaxEvents \in Nat
  /\ MaxWaiters \in Nat
  /\ MaxConnections \in Nat
  /\ Items \cap {"usage", "delta", "completed"} = {}

VARIABLES
  starts,   (* The starts map: thread to the tokens reserved on it.        *)
  states,   (* The states map: turn to its TurnState.                      *)
  streams,  (* The TurnEventStream objects.                                *)
  ops,      (* The callers that reserve, open and release.                 *)
  log,      (* Every notification routed, in order of arrival.             *)
  conn      (* The number of the current connection.                       *)

vars == <<starts, states, streams, ops, log, conn>>

-----------------------------------------------------------------------------
(* The data of the router.                                                 *)

Keys == Threads \X Turns
ThreadOf(k) == k[1]

\* Faulty: a turn is known by its turn id alone.
KeyByTurn(th, turn) == <<CHOOSE any \in Threads : TRUE, turn>>

\* The key under which a turn is found in states.
KeyOf(th, turn) == <<th, turn>>

\* What a notification carries, as far as the router looks at it: the id of a
\* completed item, a token usage update, any transient event, or the completion.
What == Items \cup {"usage", "delta", "completed"}
Event == [key: Keys, what: What]

\* Events are numbered from 1; 0 stands for undefined.
TurnState ==
  [streams: SUBSET Streams, early: Seq(Nat), items: Seq(Nat), usage: Nat,
   terminal: Nat, subscribed: BOOLEAN, born: Nat]

\* A turn that is not in the map and one freshly inserted behave alike, so the
\* map is total.  born, the first event seen, is the place of an unsubscribed
\* turn in the insertion order of the map.
NewState ==
  [streams |-> {}, early |-> <<>>, items |-> <<>>, usage |-> 0,
   terminal |-> 0, subscribed |-> FALSE, born |-> 0]

\* got, since, reserved, opened and conn are history: what the reader has
\* received, the events after which it is owed every result, after which it is
\* owed the transient events too, and after which it was opened, and the
\* connection its start was made on.
Stream ==
  [phase: {"new", "open", "done", "returned", "failed"}, key: Keys \cup {<<>>},
   values: Seq(Nat), waiters: Nat, got: Seq(Nat),
   since: Nat, reserved: Nat, opened: Nat, conn: Nat]

NewStream ==
  [phase |-> "new", key |-> <<>>, values |-> <<>>, waiters |-> 0,
   got |-> <<>>, since |-> 0, reserved |-> 0, opened |-> 0, conn |-> 0]

\* since is the last event before the reservation, conn its connection.
Op == [phase: {"idle", "reserved", "opened", "released"},
       thread: Threads \cup {<<>>}, since: Nat, conn: Nat]

NewOp == [phase |-> "idle", thread |-> <<>>, since |-> 0, conn |-> 0]

IsCompletion(n) == log[n].what = "completed"

\* Some start of the thread is in flight.
PendingStart(k) == starts[ThreadOf(k)] # {}

-----------------------------------------------------------------------------
(* TurnEventStream.                                                        *)

\* push hands the value to the oldest waiting next(), or queues it.
Push(s, n) ==
  IF s.phase # "open" THEN s
  ELSE IF s.waiters > 0
       THEN [s EXCEPT !.waiters = @ - 1, !.got = Append(@, n)]
       ELSE [s EXCEPT !.values = Append(@, n)]

\* Faulty: complete drops what is queued.
CompleteDropping(s) ==
  IF s.phase # "open" THEN s
  ELSE [s EXCEPT !.phase = "done", !.waiters = 0, !.values = <<>>]

\* complete ends the stream after the values still queued.
Complete(s) ==
  IF s.phase # "open" THEN s
  ELSE [s EXCEPT !.phase = "done", !.waiters = IF s.values = <<>> THEN 0 ELSE @]

\* fail drops the queued values and rejects every waiting next().
Fail(s) ==
  IF s.phase # "open" THEN s
  ELSE [s EXCEPT !.phase = "failed", !.values = <<>>, !.waiters = 0]

\* The reader takes the next queued value.
Take(h) ==
  /\ streams[h].phase \in {"open", "done"}
  /\ streams[h].values # <<>>
  /\ streams' = [streams EXCEPT
       ![h].values = Tail(@), ![h].got = Append(@, Head(streams[h].values))]
  /\ UNCHANGED <<starts, states, ops, log, conn>>

\* The reader finds nothing queued and waits.
Wait(h) ==
  /\ streams[h].phase = "open"
  /\ streams[h].values = <<>>
  /\ streams[h].waiters < MaxWaiters
  /\ streams' = [streams EXCEPT ![h].waiters = @ + 1]
  /\ UNCHANGED <<starts, states, ops, log, conn>>

-----------------------------------------------------------------------------
(* TurnEventRouter.                                                        *)

\* What remains of turn k, in state st, once its reader h is disposed.
Disposed(st, h, k) ==
  LET rest == [st EXCEPT !.streams = @ \ {h}]
  IN  IF rest.terminal # 0 /\ rest.streams = {} /\ ~PendingStart(k)
      THEN NewState ELSE rest

\* return() completes the reader, which leaves the turn, and drops its queue.
Return(h) ==
  LET s == streams[h]
  IN  /\ s.phase \in {"open", "done"}
      /\ streams' = [streams EXCEPT
           ![h] = [Complete(s) EXCEPT !.phase = "returned", !.values = <<>>]]
      /\ states' = IF s.phase = "open"
                   THEN [states EXCEPT ![s.key] = Disposed(@, h, s.key)]
                   ELSE states
      /\ UNCHANGED <<starts, ops, log, conn>>

ReserveStart(t, th) ==
  /\ ops[t].phase = "idle"
  /\ starts' = [starts EXCEPT ![th] = @ \cup {t}]
  /\ ops' = [ops EXCEPT ![t] =
       [phase |-> "reserved", thread |-> th, since |-> Len(log), conn |-> conn]]
  /\ UNCHANGED <<states, streams, log, conn>>

\* Faulty: any turn without readers is let go; a finished turn stays.
SettledUnread(st) == IF st.streams = {} THEN NewState ELSE [st EXCEPT !.early = <<>>]
SettledKeeping(st) == IF ~st.subscribed THEN NewState ELSE [st EXCEPT !.early = <<>>]

\* The turn once the last reservation of its thread is gone.
Settled(st) ==
  IF ~st.subscribed \/ (st.terminal # 0 /\ st.streams = {})
  THEN NewState ELSE [st EXCEPT !.early = <<>>]

\* Faulty: the set a token was in is not compared with the one in the map.
ReleaseStale(t) ==
  LET th == ops[t].thread
  IN  /\ ops[t].phase \in {"reserved", "opened"}
      /\ ops' = [ops EXCEPT ![t].phase = "released"]
      /\ starts' = [starts EXCEPT ![th] = IF t \in @ THEN @ \ {t} ELSE {}]
      /\ UNCHANGED <<states, streams, log, conn>>

\* The function reserveStart returns.  A token that is no longer in the map
\* belongs to a connection that failAll ended, or was released before.
Release(t) ==
  LET th == ops[t].thread
  IN  /\ ops[t].phase \in {"reserved", "opened"}
      /\ ops' = [ops EXCEPT ![t].phase = "released"]
      /\ IF t \notin starts[th] THEN UNCHANGED <<starts, states>>
         ELSE /\ starts' = [starts EXCEPT ![th] = @ \ {t}]
              /\ IF starts[th] # {t} THEN UNCHANGED states
                 ELSE states' = [k \in Keys |->
                        IF ThreadOf(k) = th THEN Settled(states[k]) ELSE states[k]]
      /\ UNCHANGED <<streams, log, conn>>

\* Everything a new reader of turn k is replayed.
Replay(k) ==
  LET st == states[k]
  IN  RangeOf(st.early) \cup RangeOf(st.items)
        \cup ({st.usage, st.terminal} \ {0})
        \cup UNION {RangeOf(streams[h].values) : h \in st.streams}

\* Faulty: the new stream takes what follows the completion too.
ReplayEverything(k) == InOrder(Replay(k), Len(log))

\* The replay in order of arrival; the completion ends the new stream, which
\* ignores whatever follows.
ReplaySeq(k) ==
  InOrder({n \in Replay(k) : \A c \in Replay(k) : IsCompletion(c) => n <= c},
          Len(log))

\* The state of turn k with its new reader h.
Opened(k, h, completes) ==
  LET st == [states[k] EXCEPT !.subscribed = TRUE, !.streams = @ \cup {h}]
      kept == IF completes THEN Disposed(st, h, k) ELSE st
  IN  IF PendingStart(k) THEN kept ELSE [kept EXCEPT !.early = <<>>]

\* The event after which a reader opened by t is owed every result: the
\* reservation of t, or that of an earlier reader of the turn.
OwedSince(t, k) ==
  LET readers == {h \in Streams : streams[h].key = k /\ streams[h].conn = conn}
      claims == {streams[h].since : h \in readers} \cup {ops[t].since}
  IN  IF t \in starts[ThreadOf(k)]
      THEN CHOOSE n \in claims : \A m \in claims : n <= m
      ELSE Len(log)

\* The server answers turn/start with a turn that had not completed before.
ServerMayName(t, k) ==
  \A n \in 1..ops[t].since : ~(log[n].key = k /\ IsCompletion(n))

\* The response of start operation t names the turn; its handle reads stream h.
\* startTurn resumes several promises after the response has arrived, by when the
\* connection may have ended.
Open(t, turn, h) ==
  LET k == KeyOf(ops[t].thread, turn)
      completes == \E n \in Replay(k) : IsCompletion(n)
  IN  /\ ops[t].phase = "reserved"
      /\ ServerMayName(t, <<ops[t].thread, turn>>)
      /\ streams[h].phase = "new"
      /\ streams' = [streams EXCEPT ![h] =
           [phase |-> IF completes THEN "done" ELSE "open", key |-> <<ops[t].thread, turn>>,
            values |-> ReplaySeq(k), waiters |-> 0, got |-> <<>>,
            since |-> OwedSince(t, k),
            reserved |-> IF t \in starts[ThreadOf(k)] THEN ops[t].since ELSE Len(log),
            opened |-> Len(log), conn |-> ops[t].conn]]
      /\ states' = [states EXCEPT ![k] = Opened(k, h, completes)]
      /\ ops' = [ops EXCEPT ![t].phase = "opened"]
      /\ UNCHANGED <<starts, log, conn>>

\* items.set: a repeated item id keeps its place and takes the new event.
SetItem(items, n, what) ==
  IF \E p \in DOMAIN items : log[items[p]].what = what
  THEN [p \in DOMAIN items |-> IF log[items[p]].what = what THEN n ELSE items[p]]
  ELSE Append(items, n)

\* The snapshot of turn k after event n: its semantic events, and the early
\* events while no reader, or a start that may yet join, has claimed the turn.
Recorded(k, n, what) ==
  LET st == states[k]
      ended == st.terminal # 0 \/ what = "completed"
  IN  [streams    |-> IF ended THEN {} ELSE st.streams,
       early      |-> IF ~st.subscribed \/ PendingStart(k)
                      THEN LastOf(Append(st.early, n), MaxPendingEvents)
                      ELSE st.early,
       items      |-> IF what \in Items THEN SetItem(st.items, n, what) ELSE st.items,
       usage      |-> IF what = "usage" THEN n ELSE st.usage,
       terminal   |-> IF what = "completed" THEN n ELSE st.terminal,
       subscribed |-> st.subscribed,
       born       |-> IF st.born = 0 THEN n ELSE st.born]

\* trimUnclaimed: of the turns nobody owns or is starting, only the newest
\* MaxPendingTurns stay, each with its newest MaxPendingEvents items.
Unclaimed(sts) == {k \in Keys : sts[k].born # 0 /\ ~sts[k].subscribed /\ ~PendingStart(k)}

\* Faulty: one turn too many stays.
TrimmedLate(sts) ==
  LET newer(k) == {j \in Unclaimed(sts) : sts[j].born > sts[k].born}
  IN  [k \in Keys |->
        IF k \in Unclaimed(sts) /\ Cardinality(newer(k)) > MaxPendingTurns
        THEN NewState ELSE sts[k]]

Trimmed(sts) ==
  LET newer(k) == {j \in Unclaimed(sts) : sts[j].born > sts[k].born}
  IN  [k \in Keys |->
        IF k \notin Unclaimed(sts) THEN sts[k]
        ELSE IF Cardinality(newer(k)) >= MaxPendingTurns THEN NewState
        ELSE [sts[k] EXCEPT !.items = LastOf(@, MaxPendingEvents)]]

\* The server sends no result of a turn after its completion.
ServerMaySend(k, what) ==
  what = "delta" \/ \A n \in 1..Len(log) : ~(log[n].key = k /\ IsCompletion(n))

\* route: the snapshot, then every reader of the turn, then what can be let go.
Route(th, turn, what) ==
  LET n == Len(log) + 1
      k == KeyOf(th, turn)
      st == Recorded(k, n, what)
      finished == st.subscribed /\ st.terminal # 0 /\ st.streams = {} /\ ~PendingStart(k)
      delivered(s) == IF st.terminal # 0 THEN Complete(Push(s, n)) ELSE Push(s, n)
  IN  /\ n <= MaxEvents
      /\ ServerMaySend(<<th, turn>>, what)
      /\ log' = Append(log, [key |-> <<th, turn>>, what |-> what])
      /\ streams' = [h \in Streams |->
           IF h \in states[k].streams THEN delivered(streams[h]) ELSE streams[h]]
      /\ states' = Trimmed([states EXCEPT ![k] = IF finished THEN NewState ELSE st])
      /\ UNCHANGED <<starts, ops, conn>>

\* failAll, at the end of a connection.
FailAll ==
  /\ conn < MaxConnections
  /\ starts' = [th \in Threads |-> {}]
  /\ streams' = [h \in Streams |->
       IF \E k \in Keys : h \in states[k].streams THEN Fail(streams[h]) ELSE streams[h]]
  /\ states' = [k \in Keys |-> NewState]
  /\ conn' = conn + 1
  /\ UNCHANGED <<ops, log>>

-----------------------------------------------------------------------------
Init ==
  /\ starts = [th \in Threads |-> {}]
  /\ states = [k \in Keys |-> NewState]
  /\ streams = [h \in Streams |-> NewStream]
  /\ ops = [t \in Starts |-> NewOp]
  /\ log = <<>>
  /\ conn = 0

Next ==
  \/ \E h \in Streams : Take(h) \/ Wait(h) \/ Return(h)
  \/ \E t \in Starts, th \in Threads : ReserveStart(t, th)
  \/ \E t \in Starts, turn \in Turns, h \in Streams : Open(t, turn, h)
  \/ \E t \in Starts : Release(t)
  \/ \E th \in Threads, turn \in Turns, what \in What : Route(th, turn, what)
  \/ FailAll

Spec == Init /\ [][Next]_vars

-----------------------------------------------------------------------------
(* What the router promises.                                               *)

\* What the reader of stream h has seen and will still see.
View(h) == streams[h].got \o streams[h].values

\* The variables hold what the fields and maps of the two classes may hold.
TypeOK ==
  /\ starts \in [Threads -> SUBSET Starts]
  /\ states \in [Keys -> TurnState]
  /\ streams \in [Streams -> Stream]
  /\ ops \in [Starts -> Op]
  /\ log \in Seq(Event)
  /\ conn \in Nat

\* A start that reserved has a thread, a reader that was opened has a turn.
Placed ==
  /\ \A h \in Streams : streams[h].phase # "new" => streams[h].key \in Keys
  /\ \A t \in Starts : ops[t].phase # "idle" => ops[t].thread \in Threads

\* A reader that has neither ended nor failed is registered with the turn it
\* reads, and with no other: no path discards a turn that still has readers, so
\* routing and failAll reach every live reader (streams, onDispose, discard).
LiveReadersRegistered ==
  \A h \in Streams, k \in Keys :
    h \in states[k].streams <=> streams[h].phase = "open" /\ streams[h].key = k

\* Across replay, sorting and delivery to waiters, a reader sees events of its
\* own turn only (a fork replays turn ids), in order of arrival, each at most
\* once (open, route).
ViewsInOrder ==
  \A h \in Streams :
    /\ \A i \in 1..Len(View(h)) : log[View(h)[i]].key = streams[h].key
    /\ \A i \in 1..(Len(View(h)) - 1) : View(h)[i] < View(h)[i + 1]

\* Event n is of turn k.
OfTurn(n, k) == log[n].key = k

\* Event n was superseded before the reader opened: the same item completed
\* again, or a later usage report.
Superseded(n, h) ==
  /\ log[n].what # "delta"
  /\ \E m \in (n + 1)..streams[h].opened : log[m] = log[n]

\* Event n is transient, and when the reader opened it was past or had fallen
\* out of the bounded early buffer.
TransientLost(n, h) ==
  /\ log[n].what = "delta"
  /\ \/ n <= streams[h].reserved
     \/ Cardinality({m \in n..streams[h].opened : OfTurn(m, streams[h].key)}) > MaxPendingEvents

\* A reader that was not abandoned is owed, from the reservation of its start
\* on, every event of its turn up to the completion: every item and the usage
\* that are not superseded, the completion, and the transient events that were
\* buffered (the in-flight starts and owned turns of trimUnclaimed's comment).
ResultsComplete ==
  \A h \in Streams :
    streams[h].phase \in {"open", "done"} =>
      \A n \in (streams[h].since + 1)..Len(log) :
        \/ ~OfTurn(n, streams[h].key)
        \/ n \in RangeOf(View(h))
        \/ n <= streams[h].opened /\ (Superseded(n, h) \/ TransientLost(n, h))
        \/ streams[h].phase = "done" /\ \E c \in RangeOf(View(h)) : c < n /\ IsCompletion(c)

\* A reader that came to the end of its turn saw the completion last, and no
\* other reader has seen one: collectTurnResult never finds a stream that ended
\* without a completion event (complete, isCompletion).
EndsWithCompletion ==
  \A h \in Streams :
    LET v == View(h)
        completions == {i \in DOMAIN v : IsCompletion(v[i])}
    IN  /\ completions \subseteq {Len(v)}
        /\ streams[h].phase = "done" => completions # {}
        /\ streams[h].phase = "open" => completions = {}

\* The end of a connection fails every reader of its turns: none is left open
\* that no event will ever reach.  tests/thread.test.ts:128, "fails all waiting
\* consumers on disconnect".
ReadersFailOnDisconnect ==
  \A h \in Streams : streams[h].phase = "open" => streams[h].conn = conn

\* No next() waits on a stream that has ended or failed, or that has a value
\* queued: whichever way a stream ends, its reader is told.
NoForgottenWaiter ==
  \A h \in Streams :
    streams[h].waiters > 0 => streams[h].phase = "open" /\ streams[h].values = <<>>

\* A start in flight keeps its reservation until its own release or the end of
\* its connection: the finally of a start of an older connection does not
\* release it (reserveStart's comment).
ReservationHeld ==
  \A t \in Starts :
    ops[t].phase \in {"reserved", "opened"} /\ ops[t].conn = conn
      => t \in starts[ops[t].thread]

\* Nobody the router owes something is forgotten, whichever of return, complete,
\* failAll and release comes last: an open reader is registered with its turn, a
\* next() waits only where an event or an end can reach it, and a start in flight
\* keeps what came for it.
NobodyForgotten == LiveReadersRegistered /\ NoForgottenWaiter /\ ReservationHeld

\* A turn that is owned and that no start in flight may still join retains
\* nothing it does not need: no early events, which a later joining reader would
\* be replayed although others consumed them, and no state once it is over
\* (dispose, complete and release, whichever comes last).
OwnedTurnsLetGo ==
  \A k \in Keys :
    states[k].subscribed /\ ~PendingStart(k)
      => states[k].early = <<>> /\ states[k].terminal = 0

\* Histories nobody asked for stay bounded: at most MaxPendingTurns turns, each
\* with a bounded number of events and items (trimUnclaimed).
UnclaimedBounded ==
  /\ Cardinality(Unclaimed(states)) <= MaxPendingTurns
  /\ \A k \in Unclaimed(states) :
       /\ Len(states[k].items) <= MaxPendingEvents
       /\ Len(states[k].early) <= MaxPendingEvents

\* A turn with live readers is owned and has not completed.
ReadersMeanRunning ==
  \A k \in Keys : states[k].streams # {} => states[k].subscribed /\ states[k].terminal = 0

\* The terminal event of a turn is a completion that was routed.
TerminalRouted ==
  \A k \in Keys :
    states[k].terminal # 0 =>
      states[k].terminal \in 1..Len(log) /\ IsCompletion(states[k].terminal)

\* The inductive invariant: a turn is discarded only without readers because
\* a turn with readers is owned and running.
IInv ==
  /\ TypeOK
  /\ Placed
  /\ LiveReadersRegistered
  /\ ReadersMeanRunning
  /\ TerminalRouted
  /\ NoForgottenWaiter
  /\ ReservationHeld
  /\ \A t \in Starts : ops[t].conn <= conn
  /\ OwnedTurnsLetGo

\* What a reader has seen or has queued is never reordered or taken back: only
\* the reader itself, by returning, or the end of the connection drops it; a
\* joining handle does not steal another's unread events (unread's comment).
ViewsOnlyGrow ==
  [][\A h \in Streams :
       \/ streams'[h].phase \in {"returned", "failed"}
       \/ /\ Len(View(h)) <= Len(View(h)')
          /\ SubSeq(View(h)', 1, Len(View(h))) = View(h)]_vars
=============================================================================
