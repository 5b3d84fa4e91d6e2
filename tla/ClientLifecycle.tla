-------------------------- MODULE ClientLifecycle --------------------------
(***************************************************************************)
(* connect and close of CodexAppServerClient (src/app-server-client.ts)    *)
(* over either transport, the app-server a child process behind stdio or   *)
(* somebody else's behind a WebSocket: connections are started, fail, are  *)
(* closed by their user and die with their process, while other calls of   *)
(* connect and close are in the middle of their awaits.  Of a WebSocket    *)
(* only what WebSocketTransport shows is used: connect and close end, a    *)
(* connect that is aborted fails, and no socket outlives its peer.         *)
(*                                                                         *)
(* Each call of start is an attempt, numbered from 1; the child process,   *)
(* the peer and the initialize response of an attempt bear its number, and *)
(* 0 stands for null.  An action is the code between two awaits, or an     *)
(* event with its listeners.                                               *)
(***************************************************************************)
EXTENDS Naturals

CONSTANTS
  Callers,      (* Calls of connect.                                       *)
  MaxAttempts,  (* Bound on the calls of start.                            *)
  MaxCloses,    (* Bound on the calls of close by the user.                *)
  Delays        (* What may happen after other events than the one that    *)
                (* causes it: "open", the chain of async functions from    *)
                (* the spawn or open event to start; "write", the success  *)
                (* of a write whose peer has closed meanwhile.             *)

ASSUME LifecycleAssumption ==
  /\ MaxAttempts \in Nat /\ MaxCloses \in Nat
  /\ Delays \subseteq {"open", "write"}

Attempts == 1..MaxAttempts

VARIABLES
  state,           (* currentState.                                        *)
  init,            (* initializeResponse.                                  *)
  peer,            (* this.peer.                                           *)
  child,           (* this.child.                                          *)
  connectPromise,  (* connectPromise: the attempt in progress.             *)
  closePromise,    (* closePromise: the stop in progress, by its number.   *)
  abortable,       (* connectAbortController: the attempt it belongs to.   *)
  aborted,         (* The attempts whose signal is aborted.                *)
  open,            (* The peers that are not closed.                       *)
  process,         (* The child process of each attempt, or "remote".      *)
  attempt,         (* Where start is in each attempt.                      *)
  awaits,          (* The stop whose end the catch of start awaits.        *)
  stop,            (* Where stop is in the stop in progress.               *)
  stopping,        (* The child of the stop in progress.                   *)
  killed,          (* The processes sent SIGKILL.                          *)
  call,            (* Where each call of connect is.                       *)
  on,              (* The stop or the attempt it awaits, or its result.    *)
  started, stopped, closes, (* How many attempts, stops and closes there were. *)
  late             (* History: the attempts that went on with such a delay. *)

fields == <<state, init, peer, child, abortable>>
stopVars == <<closePromise, stop, stopping, stopped>>
startVars == <<connectPromise, attempt, awaits, started>>
world == <<open, process, killed, aborted>>
callVars == <<call, on, closes, late>>
vars == <<fields, stopVars, startVars, world, callVars>>

Init ==
  /\ state = "disconnected"
  /\ init = 0 /\ peer = 0 /\ child = 0 /\ abortable = 0
  /\ connectPromise = 0 /\ closePromise = 0
  /\ aborted = {} /\ open = {} /\ killed = {}
  /\ \E p \in {"none", "remote"} : process = [g \in Attempts |-> p]
  /\ attempt = [g \in Attempts |-> "none"]
  /\ awaits = [g \in Attempts |-> 0]
  /\ stop = "none" /\ stopping = 0
  /\ call = [c \in Callers |-> "none"]
  /\ on = [c \in Callers |-> 0]
  /\ started = 0 /\ stopped = 0 /\ closes = 0 /\ late = {}

-----------------------------------------------------------------------------
(* close and stop.                                                         *)

\* close: a stop begins, up to its await of peer.close, unless one is in progress.
CloseClient(p, c, isOpen) ==
  IF closePromise # 0
  THEN /\ peer' = p /\ child' = c /\ open' = isOpen
       /\ UNCHANGED <<stopVars, abortable, aborted>>
  ELSE /\ closePromise' = stopped + 1
       /\ stopped' = stopped + 1
       /\ stop' = "peer"
       /\ stopping' = c
       /\ aborted' = aborted \cup ({abortable} \ {0})
       /\ abortable' = 0
       /\ peer' = 0 /\ child' = 0
       /\ open' = isOpen \ {p}

Close ==
  /\ closes < MaxCloses
  /\ closes' = closes + 1
  /\ CloseClient(peer, child, open)
  /\ IF closePromise # 0 THEN UNCHANGED <<state, init>> ELSE state' = "closing" /\ init' = 0
  /\ UNCHANGED <<startVars, process, killed, call, on, late>>

\* The end of stop and the finally of close.
StopEnds ==
  /\ state' = "disconnected"
  /\ closePromise' = 0
  /\ stop' = "none" /\ stopping' = 0
  /\ UNCHANGED stopped

\* Faulty: stop also waits for the connection attempt it interrupts.
PeerClosedWaiting ==
  /\ stop = "peer" /\ connectPromise = 0
  /\ IF stopping = 0
     THEN StopEnds
     ELSE stop' = "child" /\ UNCHANGED <<state, closePromise, stopping, stopped>>
  /\ UNCHANGED <<init, peer, child, abortable, startVars, world, callVars>>

\* stop after peer.close: there is no child, or it is asked to leave (SIGTERM).
PeerClosed ==
  /\ stop = "peer"
  /\ IF stopping = 0
     THEN StopEnds
     ELSE stop' = "child" /\ UNCHANGED <<state, closePromise, stopping, stopped>>
  /\ UNCHANGED <<init, peer, child, abortable, startVars, world, callVars>>

\* stop after its races: the child has exited, or is killed and given up.
ChildReaped ==
  /\ stop = "child"
  /\ \/ process[stopping] # "running" /\ UNCHANGED killed
     \/ process[stopping] = "running" /\ killed' = killed \cup {stopping}
  /\ StopEnds
  /\ UNCHANGED <<init, peer, child, abortable, startVars, open, process, aborted, callVars>>

-----------------------------------------------------------------------------
(* start.                                                                  *)

\* A throw inside the try of start: the catch awaits close.
Throw(g) ==
  /\ attempt' = [attempt EXCEPT ![g] = "cleanup"]
  /\ awaits' = [awaits EXCEPT ![g] = IF closePromise # 0 THEN closePromise ELSE stopped + 1]
  /\ IF closePromise # 0 THEN UNCHANGED <<state, init>> ELSE state' = "closing" /\ init' = 0
  /\ UNCHANGED <<connectPromise, started>>

Fails(g) == Throw(g) /\ CloseClient(peer, child, open) /\ UNCHANGED <<process, killed>>

\* The finally of start and the one of connect.
Settled(g, how) ==
  /\ attempt' = [attempt EXCEPT ![g] = how]
  /\ abortable' = IF abortable = g THEN 0 ELSE abortable
  /\ connectPromise' = IF connectPromise = g THEN 0 ELSE connectPromise
  /\ UNCHANGED <<awaits, started>>

\* Faulty: the signal is not looked at after the await.
LoadUnchecked(g) ==
  /\ attempt[g] = "loading" /\ process[g] = "none"
  /\ attempt' = [attempt EXCEPT ![g] = "spawning"]
  /\ child' = g
  /\ process' = [process EXCEPT ![g] = "running"]
  /\ UNCHANGED <<state, init, peer, abortable, stopVars, connectPromise, awaits,
                 started, open, killed, aborted, callVars>>

\* After the await of loadProtocolValidator: the process is spawned, or the socket made.
Load(g) ==
  /\ attempt[g] = "loading"
  /\ \/ Fails(g)
     \/ /\ g \notin aborted
        /\ \/ /\ process[g] = "none"
              /\ attempt' = [attempt EXCEPT ![g] = "spawning"]
              /\ child' = g
              /\ \E p \in {"running", "failed"} : process' = [process EXCEPT ![g] = p]
           \/ /\ process[g] = "remote"
              /\ attempt' = [attempt EXCEPT ![g] = "connecting"]
              /\ UNCHANGED <<child, process>>
        /\ UNCHANGED <<state, init, peer, abortable, stopVars, connectPromise, awaits,
                       started, open, killed, aborted>>
  /\ UNCHANGED callVars

\* The peer is made, and openPeer returns it to start.
PeerMade(g) ==
  /\ open' = open \cup {g}
  /\ \/ /\ "open" \in Delays
        /\ attempt' = [attempt EXCEPT ![g] = "opened"]
        /\ late' = late \cup {g}
        /\ UNCHANGED peer
     \/ /\ attempt' = [attempt EXCEPT ![g] = "initializing"]
        /\ peer' = g
        /\ UNCHANGED late
  /\ UNCHANGED <<state, init, child, abortable, stopVars, connectPromise, awaits,
                 started, process, killed, aborted>>

\* openStdioPeer after the spawn event.
Spawned(g) ==
  /\ attempt[g] = "spawning"
  /\ \/ (process[g] = "failed" \/ child # g) /\ Fails(g) /\ UNCHANGED late
     \/ process[g] # "failed" /\ child = g /\ PeerMade(g)
  /\ UNCHANGED <<call, on, closes>>

\* WebSocketMessageTransport.connect after its wait for the open event.
SocketOpened(g) ==
  /\ attempt[g] = "connecting"
  /\ \/ Fails(g) /\ UNCHANGED late
     \/ g \notin aborted /\ PeerMade(g)
  /\ UNCHANGED <<call, on, closes>>

\* start after openPeer: configurePeer, which throws on a closed peer, and the
\* initialize request.
Configure(g) ==
  /\ attempt[g] = "opened"
  /\ \/ /\ g \notin open
        /\ Throw(g) /\ CloseClient(g, child, open) /\ UNCHANGED <<process, killed>>
     \/ /\ g \in open
        /\ peer' = g
        /\ attempt' = [attempt EXCEPT ![g] = "initializing"]
        /\ UNCHANGED <<state, init, child, abortable, stopVars, connectPromise, awaits,
                       started, world>>
  /\ UNCHANGED callVars

\* The initialize request settles.
Answered(g) ==
  /\ attempt[g] = "initializing"
  /\ \/ Fails(g)
     \/ /\ g \in open
        /\ attempt' = [attempt EXCEPT ![g] = "answered"]
        /\ UNCHANGED <<fields, stopVars, connectPromise, awaits, started, world>>
  /\ UNCHANGED callVars

\* The response is examined and the initialized notification is written.
Notify(g) ==
  /\ attempt[g] = "answered"
  /\ \/ Fails(g)
     \/ /\ g \in open
        /\ attempt' = [attempt EXCEPT ![g] = "notifying"]
        /\ UNCHANGED <<fields, stopVars, connectPromise, awaits, started, world>>
  /\ UNCHANGED callVars

\* The write settles, and start ends or throws.
Notified(g) ==
  /\ attempt[g] = "notifying"
  /\ \/ Fails(g) /\ UNCHANGED late
     \/ /\ g \in open \/ "write" \in Delays
        /\ late' = IF g \in open THEN late ELSE late \cup {g}
        /\ init' = g
        /\ state' = "connected"
        /\ Settled(g, "connected")
        /\ UNCHANGED <<peer, child, stopVars, world>>
  /\ UNCHANGED <<call, on, closes>>

\* close has ended: start throws.
CleanedUp(g) ==
  /\ attempt[g] = "cleanup"
  /\ closePromise # awaits[g]
  /\ Settled(g, "failed")
  /\ UNCHANGED <<state, init, peer, child, stopVars, world, callVars>>

-----------------------------------------------------------------------------
(* Events of the connection.                                               *)

\* beginClose of the peer of g with handlePeerClose, which configurePeer installed
\* (running: whether this.child is).
PeerLost(g, running) ==
  IF peer # g
  THEN open' = open \ {g} /\ UNCHANGED <<fields, stopVars, aborted>>
  ELSE /\ init' = 0
       /\ IF state = "closing"
          THEN /\ UNCHANGED <<state, child, stopVars, abortable, aborted>>
               /\ peer' = 0 /\ open' = open \ {g}
          ELSE IF child # 0 /\ running
               THEN /\ CloseClient(0, child, open \ {g})
                    /\ state' = IF closePromise # 0 THEN "disconnected" ELSE "closing"
               ELSE /\ state' = "disconnected"
                    /\ peer' = 0 /\ open' = open \ {g}
                    /\ UNCHANGED <<child, stopVars, abortable, aborted>>

\* The peer closes by itself: an invalid message, the end of the stream, an error.
PeerLeaves(g) ==
  /\ g \in open
  /\ PeerLost(g, child # 0 => process[child] = "running")
  /\ UNCHANGED <<startVars, process, killed, callVars>>

\* Faulty: handleExit leaves the initialize response.
ExitsKeeping(g) ==
  /\ process[g] = "running"
  /\ process' = [process EXCEPT ![g] = "exited"]
  /\ IF child # g
     THEN UNCHANGED <<fields, open>>
     ELSE /\ open' = open \ {peer}
          /\ peer' = 0 /\ child' = 0
          /\ state' = "disconnected"
          /\ UNCHANGED <<init, abortable>>
  /\ UNCHANGED <<stopVars, startVars, killed, aborted, callVars>>

\* The process exits, and handleExit.
Exits(g) ==
  /\ process[g] = "running"
  /\ process' = [process EXCEPT ![g] = "exited"]
  /\ IF child # g
     THEN UNCHANGED <<fields, open>>
     ELSE /\ open' = open \ {peer}
          /\ peer' = 0 /\ child' = 0 /\ init' = 0
          /\ state' = "disconnected"
          /\ UNCHANGED abortable
  /\ UNCHANGED <<stopVars, startVars, killed, aborted, callVars>>

-----------------------------------------------------------------------------
(* connect.                                                                *)

\* Faulty: connect does not wait for the close in progress.
EnterEagerly(c) ==
  \/ /\ init # 0
     /\ call' = [call EXCEPT ![c] = "resolved"]
     /\ on' = [on EXCEPT ![c] = init]
     /\ UNCHANGED <<fields, startVars>>
  \/ /\ init = 0 /\ connectPromise # 0
     /\ call' = [call EXCEPT ![c] = "attached"]
     /\ on' = [on EXCEPT ![c] = connectPromise]
     /\ UNCHANGED <<fields, startVars>>
  \/ /\ init = 0 /\ connectPromise = 0
     /\ started < MaxAttempts
     /\ started' = started + 1
     /\ attempt' = [attempt EXCEPT ![started + 1] = "loading"]
     /\ connectPromise' = started + 1
     /\ state' = "connecting"
     /\ abortable' = started + 1
     /\ call' = [call EXCEPT ![c] = "attached"]
     /\ on' = [on EXCEPT ![c] = started + 1]
     /\ UNCHANGED <<init, peer, child, awaits>>

\* The body of connect: it answers at once, waits for the stop in progress, joins
\* the attempt in progress or starts one.
Enter(c) ==
  \/ /\ init # 0
     /\ call' = [call EXCEPT ![c] = "resolved"]
     /\ on' = [on EXCEPT ![c] = init]
     /\ UNCHANGED <<fields, startVars>>
  \/ /\ init = 0 /\ closePromise # 0
     /\ call' = [call EXCEPT ![c] = "closing"]
     /\ on' = [on EXCEPT ![c] = closePromise]
     /\ UNCHANGED <<fields, startVars>>
  \/ /\ init = 0 /\ closePromise = 0 /\ connectPromise # 0
     /\ call' = [call EXCEPT ![c] = "attached"]
     /\ on' = [on EXCEPT ![c] = connectPromise]
     /\ UNCHANGED <<fields, startVars>>
  \/ /\ init = 0 /\ closePromise = 0 /\ connectPromise = 0
     /\ started < MaxAttempts
     /\ started' = started + 1
     /\ attempt' = [attempt EXCEPT ![started + 1] = "loading"]
     /\ connectPromise' = started + 1
     /\ state' = "connecting"
     /\ abortable' = started + 1
     /\ call' = [call EXCEPT ![c] = "attached"]
     /\ on' = [on EXCEPT ![c] = started + 1]
     /\ UNCHANGED <<init, peer, child, awaits>>

Connect(c) ==
  /\ call[c] = "none"
  /\ Enter(c)
  /\ UNCHANGED <<stopVars, world, closes, late>>

\* The close it waited for has ended: it waits for the attempt that close
\* interrupted, or connects.
CloseAwaited(c) ==
  /\ call[c] = "closing" /\ closePromise # on[c]
  /\ IF connectPromise # 0
     THEN /\ call' = [call EXCEPT ![c] = "interrupted"]
          /\ on' = [on EXCEPT ![c] = connectPromise]
          /\ UNCHANGED <<fields, startVars>>
     ELSE Enter(c)
  /\ UNCHANGED <<stopVars, world, closes, late>>

Ended(g) == attempt[g] \in {"connected", "failed"}

\* The interrupted attempt has ended, one way or the other.
InterruptedAwaited(c) ==
  /\ call[c] = "interrupted" /\ Ended(on[c])
  /\ Enter(c)
  /\ UNCHANGED <<stopVars, world, closes, late>>

\* The attempt it joined has ended.
AttemptAwaited(c) ==
  /\ call[c] = "attached" /\ Ended(on[c])
  /\ call' = [call EXCEPT ![c] = IF attempt[on[c]] = "connected" THEN "resolved" ELSE "rejected"]
  /\ UNCHANGED <<fields, startVars, stopVars, world, on, closes, late>>

-----------------------------------------------------------------------------
Start(g) ==
  \/ Load(g) \/ Spawned(g) \/ SocketOpened(g) \/ Configure(g)
  \/ Answered(g) \/ Notify(g) \/ Notified(g) \/ CleanedUp(g)

Awaited(c) == CloseAwaited(c) \/ InterruptedAwaited(c) \/ AttemptAwaited(c)

Next ==
  \/ Close \/ PeerClosed \/ ChildReaped
  \/ \E g \in Attempts : Start(g) \/ PeerLeaves(g) \/ Exits(g)
  \/ \E c \in Callers : Connect(c) \/ Awaited(c)

Spec == Init /\ [][Next]_vars

\* Continuations run, timers fire and the app-server answers initialize or leaves.
Fairness ==
  /\ WF_vars(PeerClosed) /\ WF_vars(ChildReaped)
  /\ \A g \in Attempts : WF_vars(Start(g))
  /\ \A c \in Callers : WF_vars(Awaited(c))

FairSpec == Spec /\ Fairness

-----------------------------------------------------------------------------
(* What connect and close promise.                                         *)

\* The types of the fields and of the promises by their numbers, of what is known of
\* the attempts, and of the calls.
FieldsOK ==
  /\ state \in {"disconnected", "connecting", "connected", "closing"}
  /\ init \in 0..MaxAttempts /\ peer \in 0..MaxAttempts /\ child \in 0..MaxAttempts
  /\ connectPromise \in 0..MaxAttempts /\ abortable \in 0..MaxAttempts
  /\ stopping \in 0..MaxAttempts /\ stop \in {"none", "peer", "child"}
  /\ started \in 0..MaxAttempts /\ closes \in 0..MaxCloses
  /\ stopped \in Nat /\ closePromise \in 0..stopped

AttemptsOK ==
  /\ aborted \subseteq Attempts /\ open \subseteq Attempts /\ killed \subseteq Attempts
  /\ process \in [Attempts -> {"none", "running", "failed", "exited", "remote"}]
  /\ attempt \in [Attempts -> {"none", "loading", "spawning", "connecting", "opened",
                               "initializing", "answered", "notifying", "cleanup",
                               "connected", "failed"}]
  /\ awaits \in [Attempts -> Nat]
  /\ late \subseteq Attempts

CallsOK ==
  /\ call \in [Callers -> {"none", "closing", "interrupted", "attached", "resolved", "rejected"}]
  /\ on \in [Callers -> Nat]

TypeOK == FieldsOK /\ AttemptsOK /\ CallsOK

\* No child process is forgotten: a running one is the client's, is being stopped
\* or has been killed, in whatever order spawn, close, exit and the end of its
\* stream come (openStdioPeer, stop, handlePeerClose, handleExit).
ProcessesOwned ==
  \A g \in Attempts :
    process[g] = "running" => child = g \/ stopping = g \/ g \in killed

\* The client never runs two app-servers: a new one is spawned only when the one
\* before has exited or been killed (connect waits for the close in progress).
OneServer ==
  \A g, h \in Attempts :
    process[g] = "running" /\ process[h] = "running" /\ g < h => g \in killed

\* So at most one app-server lives that the client has not killed, and it is known
\* to the client or to the stop in progress.
ServersOwned == ProcessesOwned /\ OneServer

\* As long as nothing was delayed, the client has an initialize response exactly
\* while it is connected, and then of the peer it holds, and the connections that
\* are open are those of the peer it holds: initialization never answers for a lost
\* connection, and no connection outlives the client's knowledge of it.
ConnectedIsLive ==
  late = {} =>
    /\ init # 0 <=> state = "connected"
    /\ init # 0 => peer = init
    /\ open = {peer} \ {0}

\* A connection attempt that close interrupts is rejected.
\* tests/app-server-integration.test.ts:54-70, "closes safely during startup".
InterruptedConnectRejects == \A g \in aborted : attempt[g] # "connected"

\* It is, as long as no continuation was delayed: the checks of the abort signal and
\* of the child that start makes leave no other way (app-server-client.ts:757-763, 846).
PromptConnectRejects == late = {} => InterruptedConnectRejects

\* Every close ends, though attempts in progress wait for it (start's catch), and
\* every connect is answered, though it may wait for a close and for the attempt
\* which that close interrupted, which itself waits for a close.
CallsEnd ==
  /\ \A k \in 1..(MaxCloses + 2 * MaxAttempts) : closePromise = k ~> closePromise # k
  /\ \A c \in Callers :
       call[c] # "none" ~> call[c] \in {"resolved", "rejected"} \/ started = MaxAttempts
=============================================================================
