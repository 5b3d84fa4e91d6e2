---------------------- MODULE WebSocketTransportProofs ----------------------
(***************************************************************************)
(* What the transport promises its peer, for any number of messages.       *)
(***************************************************************************)
EXTENDS WebSocketTransport, TLAPS

LEMMA InitInv == Init => IInv
BY DEF Init, IInv, TypeOK, NoSocketLeft, Listening, Ended, InSequence

\* Messages stay in sequence while none moves and no connection comes back.
LEMMA SendsKept ==
  ASSUME IInv, sends' = sends,
         attempt = "returned" => attempt' = attempt,
         ready \notin {"connecting", "open"} /\ attempt = "returned"
           => ready' \notin {"connecting", "open"}
  PROVE  InSequence'
BY DEF IInv, InSequence

\* signalClose does nothing more than once, and its handlers at most dispose.
LEMMA SignalCloseEffect ==
  ASSUME NEW r, SignalClose(r)
  PROVE  LET heard == IF "open" \in handlers THEN "rejected" ELSE opened
         IN
         \/ /\ reason \/ disposed
            /\ ready' = r /\ reason' = reason /\ disposed' = disposed
            /\ handlers' = handlers /\ opened' = opened /\ peer' = peer
         \/ /\ ~reason /\ ~disposed /\ reason' = TRUE /\ opened' = heard
            /\ ~("peer" \in handlers /\ peer = "open")
            /\ ready' = r /\ disposed' = disposed /\ handlers' = handlers /\ peer' = peer
         \/ /\ ~reason /\ ~disposed /\ reason' = TRUE /\ opened' = heard
            /\ peer = "open"
            /\ ready' = Terminated(r) /\ disposed' = TRUE /\ handlers' = {}
            /\ peer' = "closed"
BY DEF SignalClose, TellPeer, Dispose, transport

-----------------------------------------------------------------------------
(* connect, the events of the socket, and close.                           *)

LEMMA ConnectInv == IInv /\ Connect => IInv'
<1> SUFFICES ASSUME IInv, Connect PROVE IInv'
  OBVIOUS
<1> USE DEF Connect
<1>1. TypeOK'
  BY DEF IInv, TypeOK
<1>2. NoSocketLeft' /\ Ended'
  BY DEF IInv, TypeOK, NoSocketLeft, Listening, Ended
<1>3. Listening'
  BY DEF IInv, TypeOK, Listening, Ended
<1>4. InSequence'
  BY SendsKept DEF IInv, Listening
<1> QED BY <1>1, <1>2, <1>3, <1>4 DEF IInv

LEMMA ContinueInv == IInv /\ Continue => IInv'
<1> SUFFICES ASSUME IInv, Continue PROVE IInv'
  OBVIOUS
<1> USE DEF Continue, Dispose, Terminated, Alive
<1>1. TypeOK'
  BY DEF IInv, TypeOK
<1>2. NoSocketLeft' /\ Ended'
  BY DEF IInv, TypeOK, NoSocketLeft, Listening, Ended
<1>3. Listening'
  BY DEF IInv, TypeOK, Listening, Ended
<1>4. InSequence'
  BY SendsKept DEF IInv, Listening
<1> QED BY <1>1, <1>2, <1>3, <1>4 DEF IInv

LEMMA MakePeerInv == IInv /\ MakePeer => IInv'
<1> SUFFICES ASSUME IInv, MakePeer PROVE IInv'
  OBVIOUS
<1> USE DEF MakePeer
<1>1. TypeOK'
  BY DEF IInv, TypeOK
<1>2. NoSocketLeft' /\ Ended'
  BY DEF IInv, TypeOK, NoSocketLeft, Listening, Ended
<1>3. Listening'
  BY DEF IInv, TypeOK, Listening, Ended
<1>4. InSequence'
  BY SendsKept DEF IInv, Listening
<1> QED BY <1>1, <1>2, <1>3, <1>4 DEF IInv

LEMMA CloseInv == IInv /\ Close => IInv'
<1> SUFFICES ASSUME IInv, Close PROVE IInv'
  OBVIOUS
<1> USE DEF Close
<1>1. TypeOK'
  BY DEF IInv, TypeOK
<1>2. NoSocketLeft' /\ Ended'
  BY DEF IInv, TypeOK, NoSocketLeft, Listening, Ended
<1>3. Listening'
  BY DEF IInv, TypeOK, Listening, Ended
<1>4. InSequence'
  BY SendsKept DEF IInv, Listening
<1> QED BY <1>1, <1>2, <1>3, <1>4 DEF IInv

LEMMA ClosedInv == IInv /\ Closed => IInv'
<1> SUFFICES ASSUME IInv, Closed PROVE IInv'
  OBVIOUS
<1> USE DEF Closed, Dispose, Terminated, Alive
<1>1. TypeOK'
  BY DEF IInv, TypeOK
<1>2. NoSocketLeft' /\ Ended'
  BY DEF IInv, TypeOK, NoSocketLeft, Listening, Ended
<1>3. Listening'
  BY DEF IInv, TypeOK, Listening, Ended
<1>4. InSequence'
  BY SendsKept DEF IInv, Listening
<1> QED BY <1>1, <1>2, <1>3, <1>4 DEF IInv

LEMMA SocketOpensInv == IInv /\ SocketOpens => IInv'
<1> SUFFICES ASSUME IInv, SocketOpens PROVE IInv'
  OBVIOUS
<1> USE DEF SocketOpens
<1>1. TypeOK'
  BY DEF IInv, TypeOK
<1>2. NoSocketLeft' /\ Ended'
  BY DEF IInv, TypeOK, NoSocketLeft, Listening, Ended
<1>3. Listening'
  BY DEF IInv, TypeOK, Listening, Ended
<1>4. InSequence'
  BY SendsKept DEF IInv, Listening
<1> QED BY <1>1, <1>2, <1>3, <1>4 DEF IInv

\* A close that is signalled, by whomever.
LEMMA SignalCloseSafe ==
  ASSUME IInv, NEW r \in {"closing", "closed"}, SignalClose(r), ready # "none",
         attempt = "opening" \/ aborted' = aborted, aborted' \in BOOLEAN,
         UNCHANGED <<attempt, telling>>,
         sends' \in [Sends -> {"none", "writing", "sent", "failed"}],
         closing' # closing => closing = "waiting" /\ closing' = "returned"
  PROVE  TypeOK' /\ NoSocketLeft' /\ Ended' /\ Listening'
<1> USE DEF Terminated, Alive
<1>1. TypeOK'
  <2>1. closing' \in {"none", "waiting", "returned", "done"}
    BY DEF IInv, TypeOK
  <2> QED BY <2>1, SignalCloseEffect DEF IInv, TypeOK
<1>2. NoSocketLeft'
  <2>1. ready' \notin {"connecting", "open"}
    BY SignalCloseEffect
  <2> QED BY <2>1 DEF IInv, NoSocketLeft
<1>3. Ended'
  BY SignalCloseEffect DEF IInv, TypeOK, NoSocketLeft, Listening, Ended
<1>4. Listening'
  <2>1. /\ ready' \in {"closing", "closed"}
        /\ peer' # peer => peer = "open" /\ peer' = "closed"
        /\ disposed' => disposed \/ peer' = "closed"
        /\ disposed => disposed'
    BY SignalCloseEffect DEF IInv, TypeOK
  <2>2. attempt' = "opening" /\ aborted' => reason'
    BY SignalCloseEffect DEF IInv, TypeOK, Listening
  <2>3. attempt' = "returned" => opened' = "resolved"
    BY SignalCloseEffect DEF IInv, TypeOK, Listening
  <2>4. opened' = "resolved" => "open" \notin handlers'
    BY SignalCloseEffect DEF IInv, TypeOK, Listening
  <2>5. peer' = "open" /\ ~telling' => "peer" \in handlers' /\ ~reason'
    BY SignalCloseEffect DEF IInv, TypeOK, Listening
  <2> QED BY <2>1, <2>2, <2>3, <2>4, <2>5 DEF IInv, TypeOK, Listening
<1> QED BY <1>1, <1>2, <1>3, <1>4

\* In particular one that moves no message.
LEMMA SignalCloseInv ==
  ASSUME IInv, NEW r \in {"closing", "closed"}, SignalClose(r), ready # "none",
         attempt = "opening" \/ aborted' = aborted, aborted' \in BOOLEAN,
         UNCHANGED <<attempt, telling, sends>>,
         closing' # closing => closing = "waiting" /\ closing' = "returned"
  PROVE  IInv'
<1>1. TypeOK' /\ NoSocketLeft' /\ Ended' /\ Listening'
  BY SignalCloseSafe DEF IInv, TypeOK
<1>2. ready' \notin {"connecting", "open"}
  BY SignalCloseEffect DEF Terminated, Alive
<1> QED BY <1>1, <1>2, SendsKept DEF IInv

LEMMA AbortInv == IInv /\ Abort => IInv'
<1> SUFFICES ASSUME IInv, Abort PROVE IInv'
  OBVIOUS
<1>1. CASE attempt = "none"
  <2> USE <1>1 DEF Abort, transport
  <2>1. TypeOK'
    BY DEF IInv, TypeOK
  <2>2. NoSocketLeft' /\ Ended'
    BY DEF IInv, NoSocketLeft, Ended
  <2>3. Listening'
    BY DEF IInv, Listening
  <2>4. InSequence'
    BY SendsKept
  <2> QED BY <2>1, <2>2, <2>3, <2>4 DEF IInv
<1>2. CASE attempt = "opening"
  <2>1. SignalClose(Terminated(ready)) /\ ready # "none"
    BY <1>2 DEF Abort, IInv, Listening
  <2>2. Terminated(ready) \in {"closing", "closed"}
    BY <2>1 DEF IInv, TypeOK, Terminated, Alive
  <2> QED BY <1>2, <2>1, <2>2, SignalCloseInv DEF Abort, IInv, TypeOK
<1> QED BY <1>1, <1>2 DEF Abort

LEMMA SocketEndsInv == IInv /\ (SocketFails \/ SocketCloses \/ BinaryFrame) => IInv'
BY SignalCloseInv DEF SocketFails, SocketCloses, BinaryFrame, Alive, IInv, TypeOK

LEMMA CloseAwaitedInv == IInv /\ CloseAwaited => IInv'
<1> SUFFICES ASSUME IInv, CloseAwaited PROVE IInv'
  OBVIOUS
<1> DEFINE r == IF reason THEN ready ELSE Terminated(ready)
<1>1. ready # "none" /\ r \in {"closing", "closed"}
  BY DEF CloseAwaited, Terminated, Alive, IInv, TypeOK, Listening, Ended
<1>2. SignalClose(r)
  BY DEF CloseAwaited
<1> HIDE DEF r
<1> QED BY <1>1, <1>2, SignalCloseInv DEF CloseAwaited, IInv, TypeOK

LEMMA TellInv == IInv /\ Tell => IInv'
<1> SUFFICES ASSUME IInv, Tell PROVE IInv'
  OBVIOUS
<1> USE DEF Tell, TellPeer, Dispose, Terminated, Alive
<1>1. CASE peer = "open"
  <2>1. TypeOK'
    BY <1>1 DEF IInv, TypeOK
  <2>2. NoSocketLeft' /\ Ended'
    BY <1>1 DEF IInv, TypeOK, NoSocketLeft, Ended
  <2>3. Listening'
    BY <1>1 DEF IInv, TypeOK, Listening, Ended
  <2>4. InSequence'
    BY <1>1, SendsKept DEF IInv, Listening
  <2> QED BY <2>1, <2>2, <2>3, <2>4 DEF IInv
<1>2. CASE peer # "open"
  <2>1. TypeOK'
    BY <1>2 DEF IInv, TypeOK
  <2>2. NoSocketLeft' /\ Ended'
    BY <1>2 DEF IInv, NoSocketLeft, Ended
  <2>3. Listening'
    BY <1>2 DEF IInv, TypeOK, Listening
  <2>4. InSequence'
    BY <1>2, SendsKept DEF IInv
  <2> QED BY <2>1, <2>2, <2>3, <2>4 DEF IInv
<1> QED BY <1>1, <1>2

-----------------------------------------------------------------------------
(* The messages.                                                           *)

LEMMA SendInv ==
  ASSUME IInv, NEW s \in Sends, Send(s) \/ Written(s)
  PROVE  IInv'
<1>1. UNCHANGED <<ready, attempt, opened, aborted, transport, telling, peer, closing>>
  BY DEF Send, Written
<1>2. sends \in [Sends -> {"none", "writing", "sent", "failed"}]
  BY DEF IInv, TypeOK
<1>3. TypeOK'
  BY <1>1, <1>2 DEF Send, Written, IInv, TypeOK, transport
<1>4. NoSocketLeft' /\ Listening' /\ Ended'
  BY <1>1 DEF IInv, NoSocketLeft, Listening, Ended, transport
<1>5. InSequence'
  <2>1. CASE Send(s)
    <3>1. peer = "open" /\ attempt = "returned" /\ ready # "connecting"
      BY <2>1 DEF Send, IInv, TypeOK, Listening
    <3>2. /\ sends[s] = "none" /\ sends'[s] \in {"writing", "failed"}
          /\ \A t \in Sends \ {s} : sends'[t] = sends[t]
          /\ \A t \in Sends : t < s => sends[t] \in {"sent", "failed"}
          /\ ready # "open" => sends'[s] = "failed"
          /\ sends'[s] = "failed" => ready # "open"
      BY <1>2, <2>1, SendsAssumption DEF Send, Sends, IInv, Ended
    <3>3. \A t \in Sends : sends'[t] = "failed" => ready \notin {"connecting", "open"}
      BY <3>1, <3>2 DEF IInv, InSequence
    <3>4. \A t, later \in Sends :
            t < later /\ sends'[later] # "none" => sends'[t] \in {"sent", "failed"}
      BY <3>2, SendsAssumption DEF IInv, InSequence, Sends
    <3>5. \A t, later \in Sends :
            t < later /\ sends'[t] = "failed" => sends'[later] \in {"none", "failed"}
      BY <3>1, <3>2, SendsAssumption DEF IInv, InSequence, Sends
    <3> QED BY <1>1, <3>1, <3>3, <3>4, <3>5 DEF InSequence
  <2>2. CASE Written(s)
    <3>1. /\ sends[s] = "writing" /\ sends'[s] = "sent"
          /\ \A t \in Sends \ {s} : sends'[t] = sends[t]
      BY <1>2, <2>2 DEF Written
    <3> QED BY <1>1, <3>1, SendsAssumption DEF IInv, InSequence, Sends
  <2> QED BY <2>1, <2>2
<1> QED BY <1>3, <1>4, <1>5 DEF IInv

LEMMA WriteFailsInv ==
  ASSUME IInv, NEW s \in Sends, WriteFails(s)
  PROVE  IInv'
<1>1. /\ sends[s] = "writing" /\ SignalClose(Terminated(ready))
      /\ UNCHANGED <<attempt, aborted, telling, closing>>
      /\ sends' = [sends EXCEPT ![s] = "failed"]
  BY DEF WriteFails
<1>2. sends \in [Sends -> {"none", "writing", "sent", "failed"}] /\ attempt = "returned"
  BY <1>1 DEF IInv, TypeOK, InSequence
<1>3. Terminated(ready) \in {"closing", "closed"} /\ ready # "none"
  BY <1>2 DEF IInv, TypeOK, Listening, Terminated, Alive
<1>4. TypeOK' /\ NoSocketLeft' /\ Ended' /\ Listening'
  BY <1>1, <1>2, <1>3, SignalCloseSafe DEF IInv, TypeOK
<1>5. InSequence'
  <2>1. sends'[s] = "failed" /\ \A t \in Sends \ {s} : sends'[t] = sends[t]
    BY <1>1, <1>2
  <2>2. ready' \notin {"connecting", "open"}
    BY <1>1, <1>3, SignalCloseEffect DEF Terminated, Alive
  <2> QED BY <1>1, <1>2, <2>1, <2>2, SendsAssumption DEF IInv, InSequence, Sends
<1> QED BY <1>4, <1>5 DEF IInv

LEMMA NextInv == IInv /\ [Next]_vars => IInv'
<1> SUFFICES ASSUME IInv, [Next]_vars PROVE IInv'
  OBVIOUS
<1>1. CASE UNCHANGED vars
  BY <1>1 DEF vars, transport, IInv, TypeOK, NoSocketLeft, Listening, Ended, InSequence
<1>2. CASE Connect \/ Abort \/ Close
  BY <1>2, ConnectInv, AbortInv, CloseInv
<1>3. CASE Continues
  BY <1>3, ContinueInv, MakePeerInv, TellInv, CloseAwaitedInv, ClosedInv DEF Continues
<1>4. CASE SocketOpens \/ SocketFails \/ SocketCloses \/ BinaryFrame
  BY <1>4, SocketOpensInv, SocketEndsInv
<1>5. ASSUME NEW s \in Sends, Send(s) \/ Written(s) \/ WriteFails(s)
      PROVE  IInv'
  BY <1>5, SendInv, WriteFailsInv
<1> QED BY <1>1, <1>2, <1>3, <1>4, <1>5 DEF Next

-----------------------------------------------------------------------------
\* The inductive invariant, with the types, holds in every behaviour.
THEOREM Invariance == Spec => []IInv
BY InitInv, NextInv, PTL DEF Spec

\* A connect that was aborted or failed, and a peer that is closed, leave no
\* socket that connects or is open.
THEOREM NothingLeft == Spec => []NoSocketLeft
<1>1. IInv => NoSocketLeft
  BY DEF IInv
<1> QED BY <1>1, Invariance, PTL

\* A peer that is open learns of the end of its connection, whenever it came.
THEOREM Learns == Spec => []PeerLearns
<1>1. IInv => PeerLearns
  BY DEF IInv, Listening, Ended, PeerLearns
<1> QED BY <1>1, Invariance, PTL

\* No message is sent after one that failed, however many there are.
THEOREM NoGap == Spec => []NoGapInWrites
<1>1. IInv => NoGapInWrites
  BY DEF IInv, InSequence, NoGapInWrites
<1> QED BY <1>1, Invariance, PTL
=============================================================================
