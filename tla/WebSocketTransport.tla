------------------------- MODULE WebSocketTransport -------------------------
(***************************************************************************)
(* WebSocketMessageTransport (src/websocket-transport.ts): one connection  *)
(* attempt, the transport it yields and the JsonRpcPeer made of it, whose  *)
(* handler of the close disposes both.                                     *)
(*                                                                         *)
(* The ws library emits the events of the socket; a promise they settle is *)
(* continued later, and other events may come first.                       *)
(***************************************************************************)
EXTENDS Naturals

CONSTANT MaxSends   (* Bound on the messages.                              *)

ASSUME SendsAssumption == MaxSends \in Nat

Sends == 1..MaxSends

VARIABLES
  ready,      (* readyState of the socket; "none" before it is created.    *)
  attempt,    (* The call of connect.                                      *)
  opened,     (* The promise of waitForOpen.                               *)
  aborted,    (* The signal given to connect.                              *)
  reason,     (* closeReason is set.                                       *)
  disposed,   (* disposed.                                                 *)
  handlers,   (* Whose handlers closeHandlers holds.                       *)
  telling,    (* The microtask of onClose is queued.                       *)
  peer,       (* The JsonRpcPeer: "none", "open", "closed".                *)
  closing,    (* Its call of close.                                        *)
  sends       (* Its messages, sent one after the other.                   *)

transport == <<reason, disposed, handlers>>
vars == <<ready, attempt, opened, aborted, transport, telling, peer, closing, sends>>

Init ==
  /\ ready = "none" /\ attempt = "none" /\ opened = "pending" /\ aborted = FALSE
  /\ reason = FALSE /\ disposed = FALSE /\ handlers = {}
  /\ telling = FALSE /\ peer = "none" /\ closing = "none"
  /\ sends = [s \in Sends |-> "none"]

Alive(r) == r \in {"connecting", "open", "closing"}

\* Faulty: a socket that is still connecting is left alone.
TerminatedIfOpen(r) == IF r \in {"open", "closing"} THEN "closing" ELSE r

\* terminateSocket.
Terminated(r) == IF Alive(r) THEN "closing" ELSE r

\* dispose of the transport.
Dispose(r) == disposed' = TRUE /\ handlers' = {} /\ ready' = Terminated(r)

\* The handler of the peer, JsonRpcPeer.dispose.
TellPeer(r) ==
  IF peer = "open" THEN peer' = "closed" /\ Dispose(r)
  ELSE ready' = r /\ UNCHANGED <<peer, disposed, handlers>>

\* signalClose, on a socket whose readyState is r by then.
SignalClose(r) ==
  IF reason \/ disposed
  THEN ready' = r /\ UNCHANGED <<transport, opened, peer>>
  ELSE /\ reason' = TRUE
       /\ opened' = IF "open" \in handlers THEN "rejected" ELSE opened
       /\ IF "peer" \in handlers THEN TellPeer(r)
          ELSE ready' = r /\ UNCHANGED <<peer, disposed, handlers>>

-----------------------------------------------------------------------------
(* connect.                                                                *)

Connect ==
  /\ attempt = "none"
  /\ IF aborted
     THEN attempt' = "threw" /\ UNCHANGED <<ready, handlers>>
     ELSE attempt' = "opening" /\ ready' = "connecting" /\ handlers' = {"open"}
  /\ UNCHANGED <<opened, aborted, reason, disposed, telling, peer, closing, sends>>

\* The signal is heard while connect waits: abortConnection.
Abort ==
  /\ attempt \in {"none", "opening"} /\ ~aborted
  /\ aborted' = TRUE
  /\ IF attempt = "opening" THEN SignalClose(Terminated(ready))
                            ELSE UNCHANGED <<ready, transport, opened, peer>>
  /\ UNCHANGED <<attempt, telling, closing, sends>>

\* connect goes on after its await of waitForOpen.
Continue ==
  /\ attempt = "opening" /\ opened # "pending"
  /\ IF opened = "resolved" /\ ~aborted
     THEN attempt' = "returned" /\ UNCHANGED <<ready, disposed, handlers>>
     ELSE attempt' = "threw" /\ Dispose(ready)
  /\ UNCHANGED <<opened, aborted, reason, telling, peer, closing, sends>>

\* Faulty: onClose does not tell a handler of a close that came before it.
MakePeerUntold ==
  /\ attempt = "returned" /\ peer = "none"
  /\ peer' = "open"
  /\ handlers' = handlers \cup {"peer"}
  /\ UNCHANGED <<ready, attempt, opened, aborted, reason, disposed, telling, closing, sends>>

\* openPeer makes the peer, which subscribes with onClose.
MakePeer ==
  /\ attempt = "returned" /\ peer = "none"
  /\ peer' = "open"
  /\ IF reason THEN telling' = TRUE /\ UNCHANGED handlers
               ELSE handlers' = handlers \cup {"peer"} /\ UNCHANGED telling
  /\ UNCHANGED <<ready, attempt, opened, aborted, reason, disposed, closing, sends>>

\* The microtask of onClose.
Tell ==
  /\ telling
  /\ telling' = FALSE
  /\ TellPeer(ready)
  /\ UNCHANGED <<attempt, opened, aborted, reason, closing, sends>>

-----------------------------------------------------------------------------
(* send and close.                                                         *)

Send(s) ==
  /\ peer = "open" /\ sends[s] = "none"
  /\ \A e \in 1..(s - 1) : sends[e] \in {"sent", "failed"}
  /\ sends' = [sends EXCEPT ![s] =
                 IF reason \/ disposed \/ ready # "open" THEN "failed" ELSE "writing"]
  /\ UNCHANGED <<ready, attempt, opened, aborted, transport, telling, peer, closing>>

Written(s) ==
  /\ sends[s] = "writing"
  /\ sends' = [sends EXCEPT ![s] = "sent"]
  /\ UNCHANGED <<ready, attempt, opened, aborted, transport, telling, peer, closing>>

\* The callback of a write that failed.
WriteFails(s) ==
  /\ sends[s] = "writing"
  /\ sends' = [sends EXCEPT ![s] = "failed"]
  /\ SignalClose(Terminated(ready))
  /\ UNCHANGED <<attempt, aborted, telling, closing>>

\* JsonRpcPeer.close and, when the close is not known yet, the handshake.
Close ==
  /\ peer = "open"
  /\ peer' = "closed"
  /\ IF reason \/ disposed \/ ready = "closed"
     THEN /\ closing' = "returned"
          /\ handlers' = handlers \ {"peer"}
          /\ UNCHANGED ready
     ELSE /\ closing' = "waiting"
          /\ handlers' = (handlers \ {"peer"}) \cup {"close"}
          /\ ready' = IF ready = "open" THEN "closing" ELSE ready
  /\ UNCHANGED <<attempt, opened, aborted, reason, disposed, telling, sends>>

\* Faulty: close has no timer.
CloseAwaitedUntimed ==
  /\ closing = "waiting" /\ reason
  /\ closing' = "returned"
  /\ UNCHANGED <<ready, attempt, opened, aborted, transport, telling, peer, sends>>

\* The race of the close and its timer is over; the timer ends the connection.
CloseAwaited ==
  /\ closing = "waiting"
  /\ closing' = "returned"
  /\ SignalClose(IF reason THEN ready ELSE Terminated(ready))
  /\ UNCHANGED <<attempt, aborted, telling, sends>>

\* The finally of JsonRpcPeer.close.
Closed ==
  /\ closing = "returned"
  /\ closing' = "done"
  /\ IF disposed THEN UNCHANGED <<disposed, handlers, ready>> ELSE Dispose(ready)
  /\ UNCHANGED <<attempt, opened, aborted, reason, telling, peer, sends>>

-----------------------------------------------------------------------------
(* The socket.                                                             *)

SocketOpens ==
  /\ ready = "connecting"
  /\ ready' = "open"
  /\ opened' = "resolved"
  /\ handlers' = handlers \ {"open"}
  /\ UNCHANGED <<attempt, aborted, reason, disposed, telling, peer, closing, sends>>

\* An error event: ws closes the socket, and its close event follows.
SocketFails ==
  /\ Alive(ready)
  /\ SignalClose("closing")
  /\ UNCHANGED <<attempt, aborted, telling, closing, sends>>

SocketCloses ==
  /\ ready \in {"open", "closing"}
  /\ SignalClose("closed")
  /\ UNCHANGED <<attempt, aborted, telling, closing, sends>>

\* handleMessage, of a binary frame.
BinaryFrame ==
  /\ ready \in {"open", "closing"} /\ ~disposed
  /\ SignalClose("closing")
  /\ UNCHANGED <<attempt, aborted, telling, closing, sends>>

-----------------------------------------------------------------------------
Continues == Continue \/ MakePeer \/ Tell \/ CloseAwaited \/ Closed

Next ==
  \/ Connect \/ Abort \/ Close \/ Continues
  \/ SocketOpens \/ SocketFails \/ SocketCloses \/ BinaryFrame
  \/ \E s \in Sends : Send(s) \/ Written(s) \/ WriteFails(s)

Spec == Init /\ [][Next]_vars

\* Promises and timers go on, and the handshake has a timeout; not that the
\* other side ever closes.
Fairness ==
  /\ WF_vars(Continue) /\ WF_vars(MakePeer) /\ WF_vars(Tell)
  /\ WF_vars(CloseAwaited) /\ WF_vars(Closed)
  /\ WF_vars(ready = "connecting" /\ (SocketOpens \/ SocketFails))

FairSpec == Spec /\ Fairness

-----------------------------------------------------------------------------
TypeOK ==
  /\ ready \in {"none", "connecting", "open", "closing", "closed"}
  /\ attempt \in {"none", "opening", "returned", "threw"}
  /\ opened \in {"pending", "resolved", "rejected"}
  /\ aborted \in BOOLEAN /\ reason \in BOOLEAN
  /\ disposed \in BOOLEAN /\ telling \in BOOLEAN
  /\ handlers \subseteq {"open", "peer", "close"}
  /\ peer \in {"none", "open", "closed"}
  /\ closing \in {"none", "waiting", "returned", "done"}
  /\ sends \in [Sends -> {"none", "writing", "sent", "failed"}]

\* A connect whose signal was aborted throws, even when the socket had just
\* opened, and one that threw, like a peer that is closed, leaves no socket that
\* connects or is open (websocket-transport.ts:127-131, 191-205, 246-259).
NoSocketLeft ==
  /\ aborted => attempt # "returned"
  /\ attempt = "threw" \/ peer = "closed" => ready \notin {"connecting", "open"}

\* A peer that is open learns that its transport closed, even when that was
\* before it could subscribe (websocket-transport.ts:166-171, 235-239).
PeerLearns == peer = "open" /\ (reason \/ ready = "closed") => telling

\* No message is sent once an earlier one has failed (websocket-transport.ts:149-155).
NoGapInWrites ==
  \A s, later \in Sends : s < later /\ sends[s] = "failed" => sends[later] # "sent"

\* Why: the way to the socket is one way.  Before connect returns nobody but the
\* wait for the open event listens; after it the socket has been open, and the
\* peer is told of its end by its handler or by the microtask.
Listening ==
  /\ attempt \in {"none", "opening"} => peer = "none"
  /\ attempt = "none" => ready = "none" /\ ~reason /\ opened = "pending"
  /\ attempt = "opening" /\ aborted => reason
  /\ attempt = "threw" => peer = "none" /\ (disposed \/ ready = "none")
  /\ attempt = "returned" => opened = "resolved"
  /\ opened = "resolved" => ready \notin {"none", "connecting"} /\ "open" \notin handlers
  /\ ready = "connecting" => attempt = "opening"
  /\ ready = "none" => attempt # "opening"
  /\ closing # "none" => peer = "closed"
  /\ disposed => attempt = "threw" \/ peer = "closed"
  /\ peer = "open" /\ ~telling => "peer" \in handlers /\ ~reason

\* A connection that failed or was disposed does not carry messages again.
Ended ==
  /\ reason \/ disposed => ready \notin {"connecting", "open"}
  /\ ready = "closed" => reason \/ disposed

\* Messages are sent one after the other, and none is written after a failure.
InSequence ==
  /\ (\E s \in Sends : sends[s] # "none") => attempt = "returned"
  /\ \A s, later \in Sends :
       s < later /\ sends[later] # "none" => sends[s] \in {"sent", "failed"}
  /\ \A s \in Sends : sends[s] = "failed" => ready \notin {"connecting", "open"}
  /\ \A s, later \in Sends :
       s < later /\ sends[s] = "failed" => sends[later] \in {"none", "failed"}

\* The inductive invariant.
IInv == TypeOK /\ NoSocketLeft /\ Listening /\ Ended /\ InSequence

\* Every connect ends (the handshake timeout) and every close ends although the
\* other side never answers it (websocket-transport.ts:194-205).
CallsEnd ==
  /\ attempt = "opening" ~> attempt \in {"returned", "threw"}
  /\ closing = "waiting" ~> closing = "done"
=============================================================================
