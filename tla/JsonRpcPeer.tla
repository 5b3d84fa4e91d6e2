---------------------------- MODULE JsonRpcPeer ----------------------------
(***************************************************************************)
(* JsonRpcPeer (src/jsonl-rpc-peer.ts): the requests of this side, the     *)
(* requests and notifications of the app-server, and the chain of writes   *)
(* they share, over a transport that may fail or close at any time.        *)
(*                                                                         *)
(* A request is identified with its id: nextRequestId draws a random UUID. *)
(* Messages carry no content; what the code tells apart is whether one can *)
(* be serialised, whether a handler throws and whether a write succeeds.   *)
(* Every operation queued on writeQueue is a message of queue, the one the *)
(* transport has not settled is sending; notificationQueue is inbox, and   *)
(* current is the notification whose handlers are being called.            *)
(***************************************************************************)
EXTENDS Naturals, Sequences, FiniteSets, SequencesExt

CONSTANTS
  Requests,          (* Requests this side makes.                          *)
  Notices,           (* Notifications this side sends (notify).            *)
  ServerRequests,    (* Requests the app-server makes.                     *)
  Handlers,          (* Notification handlers.                             *)
  MaxNotifications,  (* Bound on the notifications the app-server sends.   *)
  MaxTraffic,        (* Bound on the messages of all kinds that originate.  *)
  Nothing            (* No message, no handler.                            *)


VARIABLES
  closed,     (* closed.                                                   *)
  pending,    (* The requests in the pending map.                          *)
  outcome,    (* How the promise of each request stands.                   *)
  told,       (* How the promise of each notice stands.                    *)
  asked,      (* Where handleServerRequest is with each server request.    *)
  serving,    (* Whether a server request handler is installed.            *)
  queue,      (* The writes queued on writeQueue that have not started.    *)
  sending,    (* The message whose send has not settled, or Nothing.       *)
  wire,       (* History: the messages handed to the transport.            *)
  accepted,   (* History: the messages whose send succeeded.               *)
  order,      (* History: the messages handed to enqueueWrite.             *)
  handlers,   (* notificationHandlers, in the order of the Set.            *)
  arrived,    (* How many notifications arrived; each is named by its rank.*)
  inbox,      (* The notifications waiting on notificationQueue.           *)
  current,    (* The notification being handled, 0 when there is none.     *)
  rest,       (* The handlers current has yet to be given to.              *)
  busy,       (* The handler that has current, or Nothing.                 *)
  seen        (* History: the calls of handlers, in order.                 *)

connection == <<closed, pending, outcome, serving, handlers>>
writes     == <<queue, sending, wire, accepted, order, told, asked>>
dispatch   == <<arrived, inbox, current, rest, busy, seen>>
vars       == <<connection, writes, dispatch>>

Message(kind, who) == [kind |-> kind, of |-> who]

Messages == {Message("request", r) : r \in Requests}
            \cup {Message("notice", n) : n \in Notices}
            \cup {Message(k, s) : k \in {"result", "error"}, s \in ServerRequests}

ASSUME PeerAssumption ==
  /\ MaxNotifications \in Nat
  /\ MaxTraffic \in Nat
  /\ Nothing \notin Handlers \cup Messages

Init ==
  /\ closed = FALSE
  /\ pending = {}
  /\ outcome = [r \in Requests |-> "none"]
  /\ told = [n \in Notices |-> "none"]
  /\ asked = [s \in ServerRequests |-> "none"]
  /\ serving = FALSE
  /\ queue = << >> /\ sending = Nothing
  /\ wire = << >> /\ accepted = {} /\ order = << >>
  /\ handlers = << >>
  /\ arrived = 0 /\ inbox = << >>
  /\ current = 0 /\ rest = << >> /\ busy = Nothing /\ seen = << >>

-----------------------------------------------------------------------------
(* Closing: close, dispose, the transport's close, an invalid message.     *)

\* Faulty: the pending requests are dropped without being rejected.
BeginCloseSilent ==
  /\ closed' = TRUE
  /\ pending' = {}
  /\ UNCHANGED outcome
  /\ serving' = FALSE
  /\ handlers' = << >>

\* Faulty: the notification handlers stay subscribed.
BeginCloseKeeping ==
  /\ closed' = TRUE
  /\ pending' = {}
  /\ outcome' = [r \in Requests |-> IF r \in pending THEN "closed" ELSE outcome[r]]
  /\ serving' = FALSE
  /\ UNCHANGED handlers

\* beginClose on an open peer.
BeginClose ==
  /\ closed' = TRUE
  /\ pending' = {}
  /\ outcome' = [r \in Requests |-> IF r \in pending THEN "closed" ELSE outcome[r]]
  /\ serving' = FALSE
  /\ handlers' = << >>

Close ==
  /\ ~closed
  /\ BeginClose
  /\ UNCHANGED <<writes, dispatch>>

\* The bound on what originates, on either side, in one behaviour.
MoreTraffic ==
  Cardinality({r \in Requests : outcome[r] # "none"})
  + Cardinality({n \in Notices : told[n] # "none"})
  + Cardinality({s \in ServerRequests : asked[s] # "none"}) + arrived < MaxTraffic

-----------------------------------------------------------------------------
(* Requests, notices and the chain of writes.                              *)

\* enqueueWrite of a message that can be serialised, on an open peer.
Enqueue(m) ==
  /\ queue' = Append(queue, m)
  /\ order' = Append(order, m)

\* requestWithId: the signal has already aborted, the message cannot be
\* serialised, or its write is queued.
Request(r) ==
  /\ ~closed
  /\ outcome[r] = "none" /\ MoreTraffic
  /\ \/ /\ \E why \in {"cancelled", "failed"} : outcome' = [outcome EXCEPT ![r] = why]
        /\ UNCHANGED <<pending, queue, order>>
     \/ /\ pending' = pending \cup {r}
        /\ outcome' = [outcome EXCEPT ![r] = "open"]
        /\ Enqueue(Message("request", r))
  /\ UNCHANGED <<closed, serving, handlers, sending, wire, accepted, told, asked, dispatch>>

\* The request leaves pending and its promise is settled.
Settle(r, how) ==
  /\ pending' = pending \ {r}
  /\ outcome' = [outcome EXCEPT ![r] = IF r \in pending THEN how ELSE @]

\* The timer of the request fires, or its signal aborts.
Cancel(r) ==
  /\ r \in pending
  /\ Settle(r, "cancelled")
  /\ UNCHANGED <<closed, serving, handlers, writes, dispatch>>

\* handleResponse.  The app-server answers what it was sent, late or not; it may
\* have read a message whose send has not settled.
Respond(r) ==
  /\ ~closed
  /\ Message("request", r) \in ToSet(wire)
  /\ Settle(r, "answered")
  /\ UNCHANGED <<closed, serving, handlers, writes, dispatch>>

\* notify.
Notify(n) ==
  /\ ~closed
  /\ told[n] = "none" /\ MoreTraffic
  /\ \/ /\ told' = [told EXCEPT ![n] = "failed"]
        /\ UNCHANGED <<queue, order>>
     \/ /\ told' = [told EXCEPT ![n] = "queued"]
        /\ Enqueue(Message("notice", n))
  /\ UNCHANGED <<connection, sending, wire, accepted, asked, dispatch>>

\* The write of m was rejected: the catch of requestWithId, the caller of notify,
\* the catch of handleServerRequest (which answers with an error while the peer is
\* open), or the dispose of handleMessage when that error cannot be written.
Rejected(m) ==
  /\ told' = IF m.kind = "notice" THEN [told EXCEPT ![m.of] = "failed"] ELSE told
  /\ asked' = CASE m.kind = "result" /\ ~closed -> [asked EXCEPT ![m.of] = "error"]
                [] m.kind = "result" /\ closed  -> [asked EXCEPT ![m.of] = "dropped"]
                [] m.kind = "error"             -> [asked EXCEPT ![m.of] = "dropped"]
                [] OTHER                        -> asked
  /\ order' = IF m.kind = "result" /\ ~closed
              THEN Append(order, Message("error", m.of)) ELSE order
  /\ CASE m.kind = "request" -> Settle(m.of, "failed") /\ UNCHANGED <<closed, serving, handlers>>
       [] m.kind = "error" /\ ~closed -> BeginClose
       [] OTHER -> UNCHANGED connection

\* What is left of the queue once the write of m is rejected.
AfterRejection(m, left) ==
  IF m.kind = "result" /\ ~closed THEN Append(left, Message("error", m.of)) ELSE left

Live(m) == m.kind = "request" => m.of \in pending

\* Faulty: the chain is taken from its other end.
StartWriteNewest ==
  /\ queue # << >> /\ sending = Nothing /\ ~closed
  /\ queue' = SubSeq(queue, 1, Len(queue) - 1)
  /\ sending' = queue[Len(queue)]
  /\ wire' = Append(wire, queue[Len(queue)])
  /\ UNCHANGED <<connection, accepted, order, told, asked, dispatch>>

\* Faulty: what is queued when the peer closes is never run.
StartWriteStopping ==
  /\ queue # << >> /\ sending = Nothing /\ ~closed
  /\ queue' = Tail(queue)
  /\ IF Live(Head(queue))
     THEN sending' = Head(queue) /\ wire' = Append(wire, Head(queue))
     ELSE UNCHANGED <<sending, wire>>
  /\ UNCHANGED <<connection, accepted, order, told, asked, dispatch>>

\* The operation at the head of the chain starts: it is rejected when the peer has
\* closed, skipped when its request has settled, handed to the transport otherwise.
StartWrite ==
  /\ queue # << >> /\ sending = Nothing
  /\ LET m == Head(queue) IN
       \/ /\ closed
          /\ queue' = AfterRejection(m, Tail(queue))
          /\ Rejected(m)
          /\ UNCHANGED <<sending, wire, accepted>>
       \/ /\ ~closed /\ ~Live(m)
          /\ queue' = Tail(queue)
          /\ UNCHANGED <<connection, sending, wire, accepted, order, told, asked>>
       \/ /\ ~closed /\ Live(m)
          /\ queue' = Tail(queue)
          /\ sending' = m
          /\ wire' = Append(wire, m)
          /\ UNCHANGED <<connection, accepted, order, told, asked>>
  /\ UNCHANGED dispatch

\* Faulty: the error answer is written whether or not the result was.
SendSettledTwice ==
  /\ sending # Nothing
  /\ sending' = Nothing
  /\ accepted' = accepted \cup {sending}
  /\ Rejected(sending)
  /\ queue' = AfterRejection(sending, queue)
  /\ UNCHANGED <<wire, dispatch>>

\* The transport settles the send; what it was handed may have been read even
\* when it says it failed.
SendSettled ==
  /\ sending # Nothing
  /\ sending' = Nothing
  /\ \/ /\ accepted' = accepted \cup {sending}
        /\ told' = IF sending.kind = "notice"
                   THEN [told EXCEPT ![sending.of] = "sent"] ELSE told
        /\ asked' = IF sending.kind \in {"result", "error"}
                    THEN [asked EXCEPT ![sending.of] = "answered"] ELSE asked
        /\ UNCHANGED <<connection, queue, order>>
     \/ /\ Rejected(sending)
        /\ queue' = AfterRejection(sending, queue)
        /\ UNCHANGED accepted
  /\ UNCHANGED <<wire, dispatch>>

-----------------------------------------------------------------------------
(* Requests of the app-server.                                             *)

\* onServerRequest, and the function it returns.
SetHandler ==
  /\ ~closed
  /\ serving' = ~serving
  /\ UNCHANGED <<closed, pending, outcome, handlers, writes, dispatch>>

\* handleServerRequest up to its first await.
ServerRequest(s) ==
  /\ ~closed
  /\ asked[s] = "none" /\ MoreTraffic
  /\ IF serving
     THEN asked' = [asked EXCEPT ![s] = "handling"] /\ UNCHANGED <<queue, order>>
     ELSE asked' = [asked EXCEPT ![s] = "error"] /\ Enqueue(Message("error", s))
  /\ UNCHANGED <<connection, sending, wire, accepted, told, dispatch>>

\* The handler settles: with a value, with an error (or with undefined, or with a
\* value that cannot be serialised), or with an error whose data cannot be.
HandlerSettles(s) ==
  /\ asked[s] = "handling"
  /\ \/ /\ closed
        /\ asked' = [asked EXCEPT ![s] = "dropped"]
        /\ UNCHANGED <<connection, queue, order>>
     \/ /\ ~closed
        /\ \E answer \in {"result", "error"} :
             /\ asked' = [asked EXCEPT ![s] = answer]
             /\ Enqueue(Message(answer, s))
        /\ UNCHANGED connection
     \/ /\ ~closed
        /\ asked' = [asked EXCEPT ![s] = "dropped"]
        /\ BeginClose
        /\ UNCHANGED <<queue, order>>
  /\ UNCHANGED <<sending, wire, accepted, told, dispatch>>

-----------------------------------------------------------------------------
(* Notifications of the app-server.                                        *)

\* Faulty: a handler is added to an array, not to a set.
SubscribeTwice(h) ==
  /\ ~closed
  /\ handlers' = Append(handlers, h)
  /\ UNCHANGED <<closed, pending, outcome, serving, writes, dispatch>>

\* onNotification, and the function it returns.
Subscribe(h) ==
  /\ ~closed
  /\ h \notin ToSet(handlers)
  /\ handlers' = Append(handlers, h)
  /\ UNCHANGED <<closed, pending, outcome, serving, writes, dispatch>>

Unsubscribe(h) ==
  /\ \E i \in DOMAIN handlers : handlers[i] = h /\ handlers' = RemoveAt(handlers, i)
  /\ UNCHANGED <<closed, pending, outcome, serving, writes, dispatch>>

Receive ==
  /\ ~closed
  /\ arrived < MaxNotifications /\ MoreTraffic
  /\ arrived' = arrived + 1
  /\ inbox' = Append(inbox, arrived + 1)
  /\ UNCHANGED <<connection, writes, current, rest, busy, seen>>

\* Notification n is given to the first of hs, or is finished when there is none.
Give(n, hs) ==
  IF hs = << >>
  THEN current' = 0 /\ rest' = << >> /\ busy' = Nothing /\ UNCHANGED seen
  ELSE /\ current' = n /\ rest' = Tail(hs) /\ busy' = Head(hs)
       /\ seen' = Append(seen, [handler |-> Head(hs), of |-> n])

\* handleNotification starts on the notification at the head of the chain.
Handle ==
  /\ inbox # << >> /\ current = 0
  /\ inbox' = Tail(inbox)
  /\ Give(Head(inbox), handlers)
  /\ UNCHANGED <<connection, writes, arrived>>

\* Faulty: an error of a handler breaks the chain.
HandledBreaking ==
  /\ busy # Nothing
  /\ \/ Give(current, rest)
     \/ busy' = Nothing /\ UNCHANGED <<current, rest, seen>>
  /\ UNCHANGED <<connection, writes, arrived, inbox>>

\* The handler settles; when it throws, the handlers after it are skipped and the
\* error is reported.
Handled ==
  /\ busy # Nothing
  /\ Give(current, rest) \/ Give(current, << >>)
  /\ UNCHANGED <<connection, writes, arrived, inbox>>

-----------------------------------------------------------------------------
Next ==
  \/ Close \/ StartWrite \/ SendSettled \/ SetHandler \/ Receive \/ Handle \/ Handled
  \/ \E r \in Requests : Request(r) \/ Cancel(r) \/ Respond(r)
  \/ \E n \in Notices : Notify(n)
  \/ \E s \in ServerRequests : ServerRequest(s) \/ HandlerSettles(s)
  \/ \E h \in Handlers : Subscribe(h) \/ Unsubscribe(h)

Spec == Init /\ [][Next]_vars

\* Continuations run, the transport settles every send, handlers settle.
Fairness ==
  /\ WF_vars(StartWrite) /\ WF_vars(SendSettled)
  /\ WF_vars(Handle) /\ WF_vars(Handled)
  /\ \A s \in ServerRequests : WF_vars(HandlerSettles(s))

FairSpec == Spec /\ Fairness

-----------------------------------------------------------------------------
(* What the peer promises.                                                 *)

\* The types of the state.
TypeOK ==
  /\ closed \in BOOLEAN
  /\ pending \subseteq Requests
  /\ outcome \in [Requests -> {"none", "open", "answered", "cancelled", "failed", "closed"}]
  /\ told \in [Notices -> {"none", "queued", "sent", "failed"}]
  /\ asked \in [ServerRequests ->
                  {"none", "handling", "result", "error", "answered", "dropped"}]
  /\ serving \in BOOLEAN
  /\ queue \in Seq(Messages) /\ sending \in Messages \cup {Nothing}
  /\ wire \in Seq(Messages) /\ accepted \subseteq Messages /\ order \in Seq(Messages)
  /\ handlers \in Seq(Handlers)
  /\ arrived \in 0..MaxNotifications /\ inbox \in Seq(1..MaxNotifications)
  /\ current \in 0..MaxNotifications
  /\ rest \in Seq(Handlers) /\ busy \in Handlers \cup {Nothing}
  /\ seen \in Seq([handler : Handlers, of : 1..MaxNotifications])

\* A promise that has not settled is in the pending map, where an answer, a
\* timeout, a failed write or the close will find it; after the close there is
\* none, whatever races with it (beginClose, fail, handleResponse).
NoRequestForgotten ==
  /\ pending = {r \in Requests : outcome[r] = "open"}
  /\ closed => pending = {}

\* Messages reach the transport in the order they were handed to the peer, though
\* requests, notices and answers to server requests come from different callers
\* and some are skipped or fail (the chain of enqueueWrite).
WritesInOrder ==
  \A i, j \in DOMAIN wire :
    i < j => \E a, b \in DOMAIN order : a < b /\ order[a] = wire[i] /\ order[b] = wire[j]

\* A server request gets one answer: an error is written after a result only
\* when the transport refused the result (the try of handleServerRequest).
OneAnswer ==
  \A s \in ServerRequests :
    ~({Message("result", s), Message("error", s)} \subseteq accepted)

\* Handlers get notifications in the order of the transport, each at most once,
\* and no handler gets one before every handler is done with those before it.
InTransportOrder ==
  \A i, j \in DOMAIN seen :
    i < j => /\ seen[i].of <= seen[j].of
             /\ seen[i].of = seen[j].of => seen[i].handler # seen[j].handler

\* A notification that waited on the queue when the peer closed reaches no handler.
QuietAfterClose ==
  [][closed /\ seen' # seen => current # 0 /\ current' = current]_vars

\* The promise of notify settles, and a server request that reached a handler is
\* answered or dropped with the connection, whatever becomes of the writes.
WritesEnd ==
  /\ \A n \in Notices : told[n] = "queued" ~> told[n] \in {"sent", "failed"}
  /\ \A s \in ServerRequests :
       asked[s] = "handling" ~> asked[s] \in {"answered", "dropped"}

\* Every queued notification is handled, whatever handlers before it throw.
NotificationsEnd ==
  \A n \in 1..MaxNotifications :
    n \in ToSet(inbox) ~> n \notin ToSet(inbox) /\ current # n

=============================================================================
