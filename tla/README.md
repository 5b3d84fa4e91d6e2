# Verification of codex-app-server-client

TLA+ models of the concurrent core of this repository (`src/` of the package: a
TypeScript client for `codex app-server`) and of its release to npm, TLC configurations that check them on
small instances, and theorems about them that TLAPS checks for every value of
the constants.  Paths below are relative to the package (`src/x.ts` is
`src/src/x.ts` in `PROJECT.json`, which counts from the root of the checkout).

The program runs on one thread of JavaScript: code between two `await`s is
atomic, and everything hard about it is what may happen at an `await`, in a
callback or on the other side of the connection.  So an action of a model is
the code from one await (or event) to the next, and the models interleave those
pieces in every order that promises, timers, streams and the app-server allow.
The release runs on GitHub's runners and people's machines: an action there is a
step of a job or of a script.

## 1. Inventory

| Component | State | Operations | Hard parts |
|---|---|---|---|
| `turn-event-router.ts` `TurnEventStream` | queued values, waiting `next()`s, done / failure | next, return, push, complete, fail | a stream ends while readers wait or values are queued |
| `turn-event-router.ts` `TurnEventRouter` | `states` (per turn: readers, early events, snapshots of items, usage, completion), `starts` (reservations per thread) | reserveStart / release, open, route, failAll | events of a turn before the response that names it; handles that join; reservations of dead connections; bounded buffers |
| `operation-coordinator.ts` | `tails`: the last promise of each key | run | calls interleave at the await; the deletion in the finally |
| `jsonl-rpc-peer.ts` `JsonRpcPeer` | pending requests, handlers, `writeQueue`, `notificationQueue`, closed | request, notify, onNotification, onServerRequest, close, dispose, handleMessage | timeouts, aborts, failing sends, late answers and the close race; handlers are asynchronous and throw |
| `jsonl-rpc-peer.ts` `JsonlStreamTransport` | streams, closed, closeReason | send, close, dispose | a write settles after the close |
| `websocket-transport.ts` | socket, closeReason, disposed | connect, send, close, dispose | close handshake, its timeout, aborted connects |
| `app-server-client.ts` lifecycle | state, peer, child, initializeResponse, connectPromise, closePromise, connectAbortController | connect, start, close, stop, handlePeerClose, handleExit | connect and close wait for each other; the process exits at any moment |
| `app-server-client.ts` operations | (the routers, the coordinator) | startTurn, startGoal, pauseGoalOperation, interruptGoalTurn, request, notify, handlers | continuations that resume on another connection |
| `goal.ts` | logical turn, current physical turn, last and failed completions, goal status | observe, waitForStart, fail, finish, pause | status and completion in either order; start timeout; rollover |
| `login.ts` | completed logins, waiters, failure | route, wait, failAll, reset | completion before wait; reconnects; the cap of 64 |
| `thread.ts` | `consumed` | startTurn, steer, interrupt, result | folds the event stream; nothing ends a wait for a turn that a goal took over |
| `retry.ts` | attempt, delay | retryOnAppServerOverload | what must not be retried; the place in the queue of a retry |
| `trusted-release.mjs`, `npm-release-candidate.yml`, `npm-publish.yml` | main and its CI, runs, artifacts, the registry | gate, select, artifact, before, after; jobs verify, publish, registry-consumers | checks that are stale when used; registry reads that lag; a write whose answer is lost; reruns |
| `preview-pack.mjs`, `promote-candidate.mjs` | checkout, `artifacts/` | release:pack | the checkout changes meanwhile; interrupted between its renames |
| `errors.ts` | none | isRetryableAppServerError, isStartRefusal | which failures mean that nothing was done |
| `protocol-validator.ts`, `external-message.ts`, `typed-handlers.ts`, `types.ts`, `codex-binary.ts`, generated code | none | pure functions, types | not modelled |
| other scripts, examples | | generators, checks of the package | not modelled |

How they interact.  The client owns one peer per connection.  `configurePeer`
installs one notification handler that gives each notification to the login
router, then to the goal router and, when no goal takes it, to the turn router,
then calls the user's handlers; all of it in one queue.  `startTurn` and
`startGoal` run under the coordinator, one at a time per thread; `startTurn`
reserves the thread in the turn router, sends `turn/start`, opens a reader for
the turn the response names and releases the reservation.  Responses overtake
queued notifications.  The end of a connection (`stop`, `handlePeerClose`,
`handleExit`) fails the three routers.

What makes each component correct: a reader gets every event it is owed, in
order, once, and ends (turn router); one operation per thread at a time, in
order, none forgotten (coordinator); every promise settles, messages keep their
order, nothing is sent for a dead request (peer); no process is leaked or
doubled, connect and close end, "connected" means connected (lifecycle); no input is
executed twice and no turn starts under a goal (operations of a thread); what is
published is what was verified, and a receipt is true (release).

## 2. Modules

| Module | Models | Actions |
|---|---|---|
| `EventOrder` | sorting and bounding of event lists | (operators) |
| `TurnEventRouter` | both classes of `turn-event-router.ts` | Take, Wait, Return (reader); ReserveStart, Open, Release (start operation); Route; FailAll |
| `KeyedMutex` | what the coordinator promises | Enter, Begin, Finish |
| `OperationCoordinator` | `operation-coordinator.ts` | Run, Begin, Finish: the three pieces of `run` |
| `ThreadOperations` | `startTurn`, `startGoal`, `retry.ts`, `thread.ts` on the coordinator | Call, Retries, GiveUp, Collected (users); TurnBegins, BeginRefused, Refused, TurnAnswered, TimesOut (startTurn); GoalBegins, ReadDone, ClearDone, SetDone, StartAwaited, PauseDone (startGoal); Serve, ServeLate, GoalTurnStarts, TurnEnds (app-server); Route, Handled |
| `JsonRpcPeer` | `JsonRpcPeer` over a transport | Request, Cancel, Respond, Notify, StartWrite, SendSettled, ServerRequest, HandlerSettles, SetHandler, Subscribe, Unsubscribe, Receive, Handle, Handled, Close |
| `ClientLifecycle` | connect and close over either transport | Connect, CloseAwaited, InterruptedAwaited, AttemptAwaited; Load, Spawned, SocketOpened, Configure, Answered, Notify, Notified, CleanedUp (start); Close, PeerClosed, ChildReaped (stop); PeerLeaves, Exits |
| `LogicalTurn` | what the stream of a goal promises | Start, Continue, Complete, Fail |
| `GoalOperation` | `goal.ts`, `startGoal` and pause | Begin, ReadDone, ClearDone, SetDone, StartAwaited (startGoal); Pause, StatusSet, Interrupted, InterruptedAgain; Route, FailAll; Serve, TurnStarts, TurnRuns, GoalChanges (app-server) |
| `LoginEventRouter` | `LoginEventRouter` of `login.ts` | Route, Wait, GiveUp, FailAll, Reset |
| `WebSocketTransport` | `WebSocketMessageTransport` and the peer on it | Connect, Abort, Continue, MakePeer, Tell, Send, Written, WriteFails, Close, CloseAwaited, Closed; SocketOpens, SocketFails, SocketCloses, BinaryFrame |
| `CandidatePacking` | `preview-pack.mjs` and `promote-candidate.mjs` on a checkout | PackStarts, TreeChanges, Pack, Stage, PromoteArchive, PromoteEvidence, PackEnds |
| `NpmRelease` | both workflows with `trusted-release.mjs`, on `CandidatePacking` | Merge, CiMovesOn; Prepare, CandidateGate, CandidatePacks, CandidateUploads, CandidateFails, Expires; Dispatch, Rerun, Select, Verify, Recheck, Write, Read, ReadsAgain, Consume, Fails; Propagates, CliPublishes (registry) |
| `*Proofs` | theorems about the module they extend | |
| `MC*` | model values and symmetry for TLC | |

**TurnEventRouter.**  An event is its position in `log`, the order of arrival,
which is what `sequence` records in the code; what it carries is one item id,
`"usage"`, `"delta"` (any transient event) or `"completed"`, all the router looks
at.  `states` is total over the keys: a missing entry and a fresh one behave
alike, and `born` keeps the insertion order that `trimUnclaimed` depends on.  A
stream carries, besides the fields of the class, history: what its reader got,
and from which event on it is owed what.  `ops` are the callers: `startTurn`
between its reservation and its finally.  The limits are constants.

Two assumptions on the app-server are in the guards, named: `ServerMayName` (the
answer to `turn/start` names a turn that had not completed before the request)
and `ServerMaySend` (no item, usage or second completion of a turn after its
completion; transient events may come at any time).

**OperationCoordinator.**  A call of `run` is its promise; `tails` and `pred`
hold calls.  `ticket` is history, the order of the calls, and lets the refinement
to `KeyedMutex` be a plain `INSTANCE`: the abstract lock grants a key to the call
with the lowest ticket, the code compares no tickets and only awaits a promise.

**ThreadOperations.**  A user makes one start of a turn or a goal; each attempt
is a call of `run`, so the module is built on `OperationCoordinator` by
`INSTANCE`.  `step` is the await a running operation is at, `rpc` its request with
the response.  A request that times out may still be served (`late`).  Notifications
wait in `line`; a `handler` that awaits a start or a result of its own user holds
the line up, and this the model keeps.  A turn is its completion here, and a goal one
physical turn; the connection does not end: the rest is in `TurnEventRouter`,
`GoalOperation` and `ClientLifecycle`.

**JsonRpcPeer.**  `queue` and `sending` are `writeQueue`, `inbox`, `current`,
`rest` and `busy` are `notificationQueue`.  Messages are a kind and a sender.
What cannot be serialised, what a handler throws and what a transport refuses
are choices.  A request is its id: the ids are random UUIDs (the factory a test
may give is never set by the client).

**ClientLifecycle.**  An attempt is a call of `start`; its child process, its peer
and its `initialize` response bear its number.  Two promise delays decide what
can happen, and are a constant: `"open"`, that other events run between the spawn
event and the continuation of `start` (the chain of async functions takes
several microtasks), and `"write"`, that the write callback of a message in
flight reports success after the peer closed (`JsonlStreamTransport.dispose` does
not cancel it and `stop` ends stdin, which flushes).  `late` records the attempts that
were delayed.  The process of every attempt is
`"none"` at first, or `"remote"` when the app-server is somebody else's behind a
WebSocket; of the socket only what `WebSocketTransport` shows is used: an aborted
connect fails, and closing ends.

**GoalOperation.**  One thread.  `ops[g]` is the `GoalOperationState` of the g-th
call of `startGoal`, `phase` the await that call is at, `pause` the await
`pauseGoalOperation` is at, for its failure path or for the user, and `rpc` the
one request either has in flight.  Responses are handled when they arrive and
notifications when their turn in `line` comes.  The app-server keeps one stored
goal and runs one physical turn at a time; a response may be lost (a timeout or
an abort) after its request took effect.  A stream is the kinds of its events,
which `LogicalTurn` restricts to one started, items, one completed.

**LoginEventRouter.**  `completed` is the `Map` with its order of insertion;
`waiters` are the waits in its sets.  `era` numbers connections and `log` is
history, what the bounded map is compared with.

**WebSocketTransport.**  `ready` is `readyState` of the ws socket, whose events
are actions; `opened`, `telling` and `closing` are promises and microtasks settled
but not yet continued.  `handlers` says whose close handlers are registered
(`waitForOpen`, the peer, `close`).

**NpmRelease.**  A commit is a number, `VersionOf` the version its `package.json`
has; a tree is a commit and whether it is dirty; a build is an archive, known by its
hash, and `builds` remembers the tree it was made of.  The registry is the `log` of
what was written, each entry with the version, the build and the commit claimed
for it; a read sees a prefix of it that may differ from read to read, but not less
than `settled`.  A publish run keeps its inputs, the step and the job it is at, the
tags it saw before the write, the number of reads after it and its receipt.  People
publish from the command line too, from what `artifacts/` holds; that they look at
the evidence first is an assumption (`CliPublishes`).

## 3. Runs

All with the default (breadth-first, exhaustive) search.  The type invariants are
proved (4) and not checked again.

| Run | Shows | Bounds |
|---|---|---|
| `TurnJoin` | ResultsComplete, EndsWithCompletion, ViewsOnlyGrow: what a reader sees; NobodyForgotten: no reader, no waiting `next()` and no reservation is lost; OwnedTurnsLetGo: what is retained | 1 turn, 2 readers, 2 starts, 1 item id, 3 events, early buffer of 1, one end of the connection |
| `TurnFork` | ViewsInOrder, UnclaimedBounded | 2 threads sharing a turn id, 2 readers, 2 starts, 2 item ids, 2 events, room for 1 unclaimed turn with 1 event |
| `TurnOrphan` (violation) | a reader opened after failAll | see 6 |
| `Threads` | TailsExact and the refinement MutexSpec: one operation at a time, in order; GoalExcludesTurns; ExecutedOnce; StartsSettle, HandlersGoOn, ResultsSettle | 1 thread, 2 users that start a turn (one retries once, one in a handler), 1 that starts a goal |
| `Peer` | NoRequestForgotten, WritesInOrder, OneAnswer, WritesEnd; InTransportOrder, QuietAfterClose, NotificationsEnd | 2 requests, 1 notice, 1 server request, 2 handlers, 3 notifications, 3 messages in either queue |
| `Lifecycle` | ServersOwned; ConnectedIsLive, PromptConnectRejects, as long as nothing was delayed; CallsEnd | 2 connects, 2 closes, 2 attempts, both transports, both delays |
| `LifecycleRace` (violation) | an interrupted connect resolves | see 6 |
| `Goals` | ReservedWhileLive, OverWhenIdle; the refinement OneLogicalTurn; GoalsEnd: every start and every idle goal ends | 1 goal, 2 physical turns, 2 notifications in line, items while the stream has fewer than 2 events |
| `GoalTurn` (violation) | an earlier turn becomes the goal's | see 6 |
| `Logins` | NoWaiterForgotten, ResolvedInItsConnection, RecentKept | 3 logins, room for 2, 2 waits, 2 connections of at most 4 completions |
| `WebSocket` | NoSocketLeft, PeerLearns; CallsEnd | one attempt, 3 messages |
| `Release` | EvidenceTrue, PublishedAsClaimed, ReceiptTrue, NoDowngrade, RunsEnd | 2 builds, 1 candidate run, 1 publish run with 1 rerun, 3 reads |

Why the bounds suffice.  The router's cases are: an event before, between and
after the opens; a joining reader next to one that has consumed, queued or
abandoned; a repeated item; one event more than the buffers hold; a start of an
old connection next to one of the new.  Two readers, two starts and three events
reach each (the mutants show it: every property is broken by a small change of
the code within the same bounds).  The coordinator needs three calls of one key
for the deletion race, which two users and a retry make, and a goal between two
turns.  The lifecycle needs an attempt that is interrupted and the one that follows
it.  A goal needs a second physical turn for the rollover.  `MaxLine` bounds what
turns, other clients and pauses put in line, not the answers to requests.  The
`Map` of logins needs one login more than it keeps, and a repetition.  The release
needs a build of the workflow and one by hand, a version somebody else publishes in
between, and one read less than the registry needs to show the write.  Packing by hand
is over before the first publish run is dispatched (`PackingFirst`, `PackingOver`),
which meets a packing only in what `CliPublishes` takes from it; and one publish run
does not exercise the concurrency group of the workflow, which the guards of
`Dispatch` and `Rerun` state.

Symmetry is used in the runs of the router, between readers and between starts,
and of the logins, between logins and between waits, which no operator tells apart
(the one `CHOOSE` there is over a set of one); never with liveness.
`CHECK_DEADLOCK FALSE` where the system may stop: everyone is done, or the server
is silent.

Fairness.  `ThreadOperations`: continuations of released promises run, requests are
answered or time out, the timer of `waitForStart` fires, the line is delivered while no
handler holds it and delays end; not that users call or that turns start or end.  `JsonRpcPeer`: the chains advance, the transport settles a send, handlers
settle; not that anything is answered.  `ClientLifecycle`: continuations run, the
timers of `stop` and the handshake fire, `initialize` is answered or fails; not that
the process exits or that anyone calls.  `GoalOperation`: notifications are handled,
requests answered or given up, the timer of `waitForStart` fires (30 seconds unless the
caller says otherwise); not that turns end or start.  `WebSocketTransport`:
continuations and the timer of `close` run, and a socket that connects opens or fails
within the handshake timeout (a caller who sets it to 0 turns that off); not that the
server answers a close.  `NpmRelease`: every job has `timeout-minutes`, so each of its
steps ends; not that a write ever reaches the readers.

## 4. Proofs

Every invariant and every action property that a passing run checks is the statement of
a theorem.  Constants are arbitrary, up to the assumptions their modules name, which TLC
evaluates for the instances it checks.

`TurnEventRouterProofs` proves the inductive invariant `IInv` for any threads,
turns, readers, starts and limits, from the one assumption `RouterAssumption`
(limits positive, item ids not reserved words).  It begins with what the operators of
`EventOrder` return: the sort of the replay lists a given set, each element once,
increasing (`InOrderLists`).  The properties alone are not
inductive: a turn is discarded only when it has no readers, and that needs that a
turn with readers is owned and has not completed (`ReadersMeanRunning`), that a
terminal event is a routed completion (`TerminalRouted`), and that a stream which
is open is registered exactly once (`LiveReadersRegistered`, `Placed`).  One lemma
per action; the theorems `TypeCorrect`, `NobodyIsForgotten`, `OwnedTurnsSettle` follow.
So does `DisconnectFailsReaders`, which bounds the finding `TurnOrphan`: the end of a
connection fails every reader that is open then, and only one opened later is left.
What readers see takes a second strengthening, `ViewInv`: everything a turn keeps was
routed to it (`HeldOfTurn`), and what a reader sees is increasing and of its turn, with
a completion last or not at all as its phase says (`ReaderSees`).  `HeldOfTurn` is there
for the replay, which is sorted (`InOrderLists`) and cut at its first completion
(`ReplaySees`).  A step either extends what a reader sees or ends the reader
(`Follows`); `ViewsInOrder`, `EndsWithCompletion` and `ViewsOnlyGrow` follow.
`UnclaimedBounded` needs that the places of two turns in the insertion order differ,
being events of one turn each (`BornApart`): of finitely many turns with distinct places
those with fewer than `MaxPendingTurns` above them are at most that many (`FewKept`),
and no step but `route` makes a turn unclaimed.

`ReadersGetResults`, that a reader gets everything it is owed, is the longest argument.
What a new reader is given is what its turn kept, so the third strengthening, `OwedInv`,
says for whom a turn must have kept what.  For a start in flight, every result and the
buffered events since its reservation (`KeptForStarts`): the reservation is what keeps
`trimUnclaimed` and `release` from them, from before the turn is known.  For a reader that
may be joined by another, every result since the time that reader is owed from, as long
as the turn runs or a start that could be answered with it is in flight
(`KeptForReaders`); a turn that completed before every start in flight may be let go, and
`ServerMayName` is why no start then opens it.  A result is kept or came again
(`Keeps`), a transient event is in the early buffer or as many followed as the buffer holds
(`Buffers`), which takes the buffer to be in order of arrival (`EarlyInOrder`), and the one
usage kept to be a usage report (`UsageRouted`).  `InThePast` says that reservations and
readers are of the log and the connection as they were.  An event then reaches the
snapshots and every reader (`KeptByRoute`, `GivenToReader`), and a reader that opens is
given what the replay sorts out of snapshots, buffer and the events others have not read
(`GivenByOpen`).

`ThreadOperationsProofs` first proves what the coordinator does, alone: the calls of a key
form a chain in the order of their tickets whose last element is the tail
(`Chained`), from which mutual exclusion, the exactness of the map, and the
refinement to `KeyedMutex` follow (`LockInvariance`, `MutualExclusion`, `TailsExactness`,
`LockRefinement`).  Then it shows that every step of the users' operations is a step of
the coordinator or leaves it alone (`UsesLock`), so that those theorems hold of them
(`StartsInOrder`, `EntriesExact`).
`GoalExclusion` needs more: a `turn/start` is in flight only while its call holds the
thread, a reservation is made only by the holder of the thread and ends with its
operation or its goal, and a turn looked for the reservation after it got the thread.
`AtMostOnce` rests on what a failure says: a user retries only after an overload, which
the app-server answers instead of executing, so that of the attempts of one user at
most the last one can have been executed, late or in time.

`JsonRpcPeerProofs` proves the five safety properties of the peer for any requests,
notices, server requests, handlers and notifications, from `PeerAssumption` (bounds that
are naturals, and a value that is no handler and no message).  The invariant has a part
for each piece.  `NoRequestForgotten` is inductive with the types.  `WritesInOrder` is not: a
message that is written now must not have been handed over before one on the wire, so the
messages that wait are the last of those handed over, in order, and all on the wire came
before them (`Chain`).  Nor is `OneAnswer`: an answer may be added only if none is on its way
or accepted, which follows from the state the server request is in (`Answers`), and a
result that was refused is off the chain before the error is made.  `InTransportOrder` needs
that what waits is what arrived last (`InboxInv`), that the notification being handled is
later than those given before, and that a handler it has still to reach does not have it
(`SeenInv`); the last because a subscription is there once (`HandlersInv`), however handlers
come and go while one is called.

`LoginEventRouterProofs` proves its three invariants for any logins, waits and capacity of
the map, from `LoginAssumption`.  The first two need that what is kept is of the connection of
the moment and that a router that failed keeps nothing (`ConnectionInv`).  `RecentKept`
compares a `Map` with the history of completions, and holds because the map lists the last
logins of the history in the order of their last completion: what follows an entry in the
map is what followed that completion in the history (`KeptInOrder`), and a login is missing
only from a full map (`GoneWhenFull`).

`GoalOperationProofs` proves `TypeOK`, `ReservedWhileLive`, `OverWhenIdle` and the
refinement `OneLogicalTurn` for any numbers of goals, turns, notifications and events,
from `GoalAssumption` (these are naturals). `ReservedWhileLive` alone is not inductive:
a start that reserves the thread must find it free and must still hold it when it
returns, which is `OneStart`: one start at a time, before its reservation nobody holds
the thread, after it the start does until its operation ends. The proof has one lemma
for each of the ways an operation ends (`Rejects`, `Route`, `FailAll`) and one for
everything that ends none (`Undisturbed`). `OverWhenIdle` and the refinement have one
more invariant in common: a stream is empty exactly while its goal knows no physical
turn (`BegunWithTurn`), for which a `turn/started` in line must name its turn
(`TurnsNamed`). `NextMoves` shows that a step moves one operation at most, and that what
it does to the operation (`Advances`) keeps both and is a step of `LogicalTurn`; that
only an open operation observes anything is the reservation again.

`WebSocketTransportProofs` proves `NoSocketLeft`, `PeerLearns` and `NoGapInWrites` for
any number of messages.  The strengthening says who listens at each stage of the
connection (`Listening`), that a connection that failed or was disposed does not come
back (`Ended`), and that messages are sent in sequence (`InSequence`);
`SignalCloseEffect` sums up the one operation every end goes through.

`ClientLifecycleProofs` proves `ServersOwned`, `ConnectedIsLive` and
`PromptConnectRejects` for any numbers of connects, closes and attempts.  None is
inductive.  A new process may be spawned because at most one attempt is in progress, it
is the last, and it can be aborted until it has been (`AttemptsInv`); because a stop in
progress leaves nothing to abort (`StopsInv`), an attempt that is not aborted meets no
stop; and the child is always that of the last attempt, which is in progress or has
succeeded (`ChildInv`), so that an attempt which loads has none.  `LiveInv` says the
same of the peer, as long as nothing was delayed.

`NpmReleaseProofs` proves `EvidenceTrue`, `PublishedAsClaimed`, `ReceiptTrue` and
`NoDowngrade` for any versions, builds, candidates, publish runs, reruns and reads.
Three facts carry it.  The tree an archive was packed from lies between the tree the
packing started with and the one the checkout has now, in an order in which trees only
move forward (`Before`), so when the two ends are equal at `Stage` all three are.  A
candidate run that has succeeded never changes, builds only are added, and the registry
only grows: what a publish run verified of them stays true.  And the record of a run
stays sound through its jobs and reruns (`RunsSound`): whatever is at `write` was
verified against the candidate it names.

Model-checked only: what holds under fairness (`StartsSettle`, `HandlersGoOn`,
`ResultsSettle`, `WritesEnd`, `NotificationsEnd`, `CallsEnd` of the lifecycle and of the
WebSocket, `GoalsEnd`, `RunsEnd`), which is beyond the prover, and so are the absence of
deadlock, which speaks of ENABLED, and the three violations of section 6.

## 5. What is not modelled

`TurnEventRouter.clear` (no caller); the content of messages and their
validation; what the completion of a goal reports (the failed turn, an explicit
interruption, durations); the options of a WebSocket; stderr,
error observers, typed wrappers; ids given by `requestIdFactory`.

A handler of the user that awaits the result of a turn stops the line that would
deliver it: `ThreadOperations` has that behaviour, and `HandlersGoOn` and
`ResultsSettle` say of whom it is true.  A user who interrupts a goal while its turn is
ending may interrupt the next turn of the thread (`pauseGoalOperation`,
`src/app-server-client.ts:936`): `GoalOperation` has it, and the documentation promises
no more (`docs/api.md:216`).

Of the release: the preview mode of `preview-pack.mjs`, the contents of an archive, the
lengths of delays, a rerun of a candidate run (a new candidate is the same), and a
checkout that changes during a packing and changes back.

Most of the lines of this repository that no module stands for are generated: the
protocol's types (`src/generated/`), 1,678 lines of re-exports in one file alone, and
the validators made of its schemas.  They have no state.  Other scripts generate them
and compare them, in one pass.

## 6. Findings

`LifecycleRace`: `start` does not look at the abort signal after
`await peer.notify("initialized")` (`src/app-server-client.ts:780`).  If `close()`
runs while that write is in flight and the write still succeeds, the interrupted
`connect()` resolves, `state` is `"connected"` and `initialization` answers a
connection that is gone; later `connect()` calls return it.
The same follows from a `close()` in the few microtasks between the spawn or open event and
the assignment of `this.peer` (the delay `"open"`), when the new peer is not yet known to `stop`.
`tests/app-server-integration.test.ts:54-73` expects the interrupted connect to
reject and the reconnect to be live.

`TurnOrphan`: `startTurn` opens its reader some promise continuations after the
response was handled (`src/app-server-client.ts:535`); if the connection ends in
between, `failAll` has already run and the reader is never failed.
`tests/thread.test.ts:128`: "fails all waiting consumers on disconnect".

`GoalTurn`: `startGoal` activates turn routing when the response of
`thread/goal/clear` is handled (`src/app-server-client.ts:573`).  Responses overtake
notifications held up by a slow handler, so the `turn/started` of a turn that ended
before the goal may be routed to the goal and become its logical turn.
`docs/api.md:211-213`: the logical turn is the "runtime-generated first turn".

## 7. Plan

Done, in order: the turn router and its proofs; the coordinator, its
abstraction and its proofs; the peer; the lifecycle; goals and `LogicalTurn`; logins;
the WebSocket transport and its proofs; the proofs of goals; the operations of a
thread with retries, handlers and results, and their proofs; the release and its proofs;
the lifecycle over the WebSocket and its proofs; the proofs of the peer, of the logins, and
of what readers are owed.

Next, in order:

1. `ThreadOperations` with the end of the connection and a second physical turn of a
   goal, for which its run needs a smaller instance of the rest.
2. The aggregation of what a goal's completion reports (`logicalCompletion`).
