------------------------- MODULE JsonRpcPeerProofs -------------------------
(***************************************************************************)
(* The promises of JsonRpcPeer, for every set of requests, notices, server *)
(* requests and handlers and for every bound.  The invariant has one part  *)
(* per piece of the peer: the pending map, the chain of writes, the        *)
(* answers that go through it, and the chain of notifications.             *)
(***************************************************************************)
EXTENDS JsonRpcPeer, SequenceTheorems, TLAPS

-----------------------------------------------------------------------------
(* The inductive invariant.                                                *)

\* The writes q that wait are the last of those handed over, o.
Waiting(q, o) ==
  /\ Len(q) <= Len(o)
  /\ \A i \in 1..Len(q) : q[i] = o[Len(o) - Len(q) + i]

\* Among the first n handed over, w is found in its order.
FoundIn(w, o, n) ==
  /\ \A i \in 1..Len(w) : \E a \in 1..n : o[a] = w[i]
  /\ \A i, j \in 1..Len(w) :
       i < j => \E a, b \in 1..n : a < b /\ o[a] = w[i] /\ o[b] = w[j]

\* The writes w on the wire were handed over before those that wait.
Chain(q, w, o) == Waiting(q, o) /\ FoundIn(w, o, Len(o) - Len(q))

IsAnswer(m) == m.kind \in {"result", "error"}

\* No answer to s is on its way, in q or handed over as m, nor among those accepted.
Unanswered(s, q, m, done) ==
  /\ \A n \in ToSet(q) \cup ({m} \ {Nothing}) \cup done : IsAnswer(n) => n.of # s

\* An answer on its way is the one its server request stands at, and it is on its
\* way once; one that was accepted was the only one.
Answers(q, m, done, at) ==
  /\ \A n \in ToSet(q) \cup ({m} \ {Nothing}) : IsAnswer(n) => at[n.of] = n.kind
  /\ \A i, j \in 1..Len(q) : q[i] = q[j] /\ IsAnswer(q[i]) => i = j
  /\ m # Nothing /\ IsAnswer(m) => m \notin ToSet(q)
  /\ \A n \in done : IsAnswer(n) => at[n.of] = "answered"
  /\ \A n, k \in done : IsAnswer(n) /\ IsAnswer(k) /\ n.of = k.of => n = k

\* A handler is subscribed once, and none is to a closed peer.
HandlersInv ==
  /\ closed => handlers = << >>
  /\ \A i, j \in 1..Len(handlers) : handlers[i] = handlers[j] => i = j

\* A notification is being handled while a handler has it.
BusyInv == busy # Nothing <=> current # 0

\* The notifications that wait are the last that arrived, in order.
InboxInv ==
  /\ Len(inbox) <= arrived
  /\ \A i \in 1..Len(inbox) : inbox[i] = arrived - Len(inbox) + i

\* A handler got notifications that came before those that wait; the one being
\* handled was given last, and to none of the handlers it has yet to reach.
SeenInv ==
  /\ \A i, j \in 1..Len(rest) : rest[i] = rest[j] => i = j
  /\ current <= arrived - Len(inbox)
  /\ \A i \in 1..Len(seen) :
       /\ seen[i].of <= arrived - Len(inbox)
       /\ current # 0 => /\ seen[i].of <= current
                         /\ seen[i].of = current => seen[i].handler \notin ToSet(rest)
  /\ InTransportOrder

IInv ==
  /\ TypeOK
  /\ NoRequestForgotten
  /\ Chain(queue, wire, order)
  /\ Answers(queue, sending, accepted, asked)
  /\ HandlersInv /\ BusyInv /\ InboxInv /\ SeenInv

-----------------------------------------------------------------------------
(* Sequences.                                                              *)

\* The elements of a sequence are its head and those of its tail.
LEMMA SetOfTail ==
  ASSUME NEW S, NEW s \in Seq(S), s # << >>
  PROVE  ToSet(s) = {Head(s)} \cup ToSet(Tail(s))
<1>1. /\ Len(s) \in Nat \ {0} /\ DOMAIN s = 1..Len(s)
      /\ Tail(s) \in Seq(S) /\ Len(Tail(s)) = Len(s) - 1
      /\ \A i \in 1..Len(Tail(s)) : Tail(s)[i] = s[i + 1]
      /\ Head(s) = s[1]
  BY EmptySeq, LenProperties, HeadTailProperties
<1>2. DOMAIN Tail(s) = 1..Len(s) - 1
  BY <1>1, LenProperties
<1>3. \A j \in 1..Len(s) - 1 : s[j + 1] \in ToSet(Tail(s))
  BY <1>1, <1>2 DEF ToSet
<1>4. ASSUME NEW i \in 1..Len(s)
      PROVE  s[i] = Head(s) \/ s[i] \in ToSet(Tail(s))
  <2>1. i = 1 \/ (i - 1 \in 1..Len(s) - 1 /\ i = (i - 1) + 1)
    BY <1>1
  <2> QED BY <1>1, <1>3, <2>1
<1>5. \A i \in 1..Len(s) - 1 : Tail(s)[i] \in ToSet(s)
  BY <1>1 DEF ToSet
<1> QED BY <1>1, <1>2, <1>4, <1>5 DEF ToSet

\* Appending adds one element.
LEMMA SetOfAppend ==
  ASSUME NEW S, NEW s \in Seq(S), NEW e \in S
  PROVE  ToSet(Append(s, e)) = ToSet(s) \cup {e}
<1>1. /\ Len(s) \in Nat /\ DOMAIN s = 1..Len(s)
      /\ DOMAIN Append(s, e) = 1..Len(s) + 1
      /\ \A i \in 1..Len(s) : Append(s, e)[i] = s[i]
      /\ Append(s, e)[Len(s) + 1] = e
  BY AppendProperties, LenProperties
<1>2. \A i \in 1..Len(s) + 1 : i \in 1..Len(s) \/ i = Len(s) + 1
  BY <1>1
<1> QED BY <1>1, <1>2 DEF ToSet

\* Removing position k moves those behind it forward by one.
LEMMA RemoveAtProperties ==
  ASSUME NEW S, NEW s \in Seq(S), NEW k \in DOMAIN s
  PROVE  /\ RemoveAt(s, k) \in Seq(S)
         /\ Len(RemoveAt(s, k)) = Len(s) - 1
         /\ \A i \in 1..Len(s) - 1 : RemoveAt(s, k)[i] = s[IF i < k THEN i ELSE i + 1]
<1> DEFINE n == Len(s)
           front == SubSeq(s, 1, k - 1)
           back == SubSeq(s, k + 1, n)
<1>1. n \in Nat /\ k \in 1..n /\ k \in Int
  BY LenProperties
<1>2. \A i \in 1..n : s[i] \in S
  BY ElementOfSeq
<1>3. RemoveAt(s, k) = front \o back
  BY DEF RemoveAt
<1> HIDE DEF n
<1>4. front \in Seq(S) /\ Len(front) = k - 1 /\ \A i \in 1..k - 1 : front[i] = s[i]
  <2>1. \A i \in 1..k - 1 : s[i] \in S
    BY <1>1, <1>2
  <2>2. /\ SubSeq(s, 1, k - 1) \in Seq(S)
        /\ Len(SubSeq(s, 1, k - 1)) = IF 1 <= k - 1 THEN k - 1 - 1 + 1 ELSE 0
        /\ \A i \in 1..k - 1 - 1 + 1 : SubSeq(s, 1, k - 1)[i] = s[1 + i - 1]
    BY <1>1, <2>1, SubSeqProperties
  <2> QED BY <1>1, <2>2
<1>5. back \in Seq(S) /\ Len(back) = n - k /\ \A i \in 1..n - k : back[i] = s[k + i]
  <2>1. \A i \in k + 1..n : s[i] \in S
    BY <1>1, <1>2
  <2>2. /\ SubSeq(s, k + 1, n) \in Seq(S)
        /\ Len(SubSeq(s, k + 1, n)) = IF k + 1 <= n THEN n - (k + 1) + 1 ELSE 0
        /\ \A i \in 1..n - (k + 1) + 1 : SubSeq(s, k + 1, n)[i] = s[k + 1 + i - 1]
    BY <1>1, <2>1, SubSeqProperties
  <2> DEFINE b == SubSeq(s, k + 1, n)
  <2>3. back = b
    OBVIOUS
  <2>4. b \in Seq(S) /\ Len(b) = (IF k + 1 <= n THEN n - (k + 1) + 1 ELSE 0)
        /\ \A i \in 1..n - (k + 1) + 1 : b[i] = s[k + 1 + i - 1]
    BY <2>2
  <2> HIDE DEF b, back
  <2>5. /\ (IF k + 1 <= n THEN n - (k + 1) + 1 ELSE 0) = n - k
        /\ n - (k + 1) + 1 = n - k
        /\ \A i \in 1..n - k : k + 1 + i - 1 = k + i
    BY <1>1
  <2> QED BY <2>3, <2>4, <2>5
<1> HIDE DEF front, back
<1>6. /\ front \o back \in Seq(S)
      /\ Len(front \o back) = k - 1 + (n - k)
      /\ \A i \in 1..k - 1 + (n - k) :
           (front \o back)[i] = IF i <= k - 1 THEN front[i] ELSE back[i - (k - 1)]
  <2>1. /\ front \o back \in Seq(S)
        /\ Len(front \o back) = Len(front) + Len(back)
        /\ \A i \in 1..Len(front) + Len(back) :
             (front \o back)[i] = IF i <= Len(front) THEN front[i] ELSE back[i - Len(front)]
    BY <1>4, <1>5, ConcatProperties
  <2> QED BY <1>4, <1>5, <2>1
<1>7. ASSUME NEW i \in 1..n - 1
      PROVE  (front \o back)[i] = s[IF i < k THEN i ELSE i + 1]
  <2>1. i \in Int /\ (i < k => i \in 1..k - 1) /\ (~(i < k) => i - (k - 1) \in 1..n - k)
    BY <1>1
  <2>2. (front \o back)[i] = IF i <= k - 1 THEN front[i] ELSE back[i - (k - 1)]
    BY <1>1, <1>6
  <2> QED BY <1>1, <1>4, <1>5, <2>1, <2>2
<1>8. Len(front \o back) = n - 1
  BY <1>1, <1>6
<1> QED BY <1>3, <1>6, <1>7, <1>8 DEF n

-----------------------------------------------------------------------------
(* Types.                                                                  *)

LEMMA MessageTypes ==
  /\ \A r \in Requests : Message("request", r) \in Messages
  /\ \A n \in Notices : Message("notice", n) \in Messages
  /\ \A s \in ServerRequests :
       Message("result", s) \in Messages /\ Message("error", s) \in Messages
  /\ \A m \in Messages :
       /\ m = Message(m.kind, m.of)
       /\ m.kind \in {"request", "notice", "result", "error"}
       /\ m.kind = "request" => m.of \in Requests
       /\ m.kind = "notice" => m.of \in Notices
       /\ m.kind \in {"result", "error"} => m.of \in ServerRequests
<1>1. \A k, w : Message(k, w).kind = k /\ Message(k, w).of = w
  BY DEF Message
<1>2. \A s \in ServerRequests :
        Message("result", s) \in Messages /\ Message("error", s) \in Messages
  BY DEF Messages
<1>3. ASSUME NEW m \in Messages
      PROVE  /\ m = Message(m.kind, m.of)
             /\ m.kind \in {"request", "notice", "result", "error"}
             /\ m.kind = "request" => m.of \in Requests
             /\ m.kind = "notice" => m.of \in Notices
             /\ m.kind \in {"result", "error"} => m.of \in ServerRequests
  <2>1. \/ \E r \in Requests : m = Message("request", r)
        \/ \E n \in Notices : m = Message("notice", n)
        \/ \E k \in {"result", "error"}, s \in ServerRequests : m = Message(k, s)
    BY DEF Messages
  <2> QED BY <1>1, <2>1
<1> QED BY <1>2, <1>3 DEF Messages

LEMMA InitType == Init => TypeOK
<1>1. \A S : << >> \in Seq(S)
  BY EmptySeq
<1>2. MaxNotifications \in Nat
  BY PeerAssumption
<1> SUFFICES ASSUME Init PROVE TypeOK
  OBVIOUS
<1>3. /\ closed \in BOOLEAN /\ pending \subseteq Requests /\ serving \in BOOLEAN
      /\ outcome \in [Requests -> {"none", "open", "answered", "cancelled", "failed", "closed"}]
      /\ told \in [Notices -> {"none", "queued", "sent", "failed"}]
      /\ asked \in [ServerRequests ->
                      {"none", "handling", "result", "error", "answered", "dropped"}]
  BY DEF Init
<1>4. /\ queue \in Seq(Messages) /\ wire \in Seq(Messages) /\ order \in Seq(Messages)
      /\ handlers \in Seq(Handlers) /\ rest \in Seq(Handlers)
      /\ inbox \in Seq(1..MaxNotifications)
      /\ seen \in Seq([handler : Handlers, of : 1..MaxNotifications])
  BY <1>1 DEF Init
<1>5. arrived \in 0..MaxNotifications /\ current \in 0..MaxNotifications
  BY <1>2 DEF Init
<1> QED BY <1>3, <1>4, <1>5 DEF Init, TypeOK

LEMMA BeginCloseType ==
  ASSUME TypeOK, BeginClose
  PROVE  /\ closed' \in BOOLEAN /\ pending' \subseteq Requests /\ serving' \in BOOLEAN
         /\ outcome' \in [Requests ->
                            {"none", "open", "answered", "cancelled", "failed", "closed"}]
         /\ handlers' \in Seq(Handlers)
BY EmptySeq DEF TypeOK, BeginClose

LEMMA SettleType ==
  ASSUME TypeOK, NEW r \in Requests, NEW how \in {"answered", "cancelled", "failed"}, Settle(r, how)
  PROVE  /\ pending' \subseteq Requests
         /\ outcome' \in [Requests ->
                            {"none", "open", "answered", "cancelled", "failed", "closed"}]
BY DEF TypeOK, Settle

LEMMA RejectedType ==
  ASSUME TypeOK, NEW m \in Messages, Rejected(m), NEW left \in Seq(Messages)
  PROVE  /\ closed' \in BOOLEAN /\ pending' \subseteq Requests /\ serving' \in BOOLEAN
         /\ outcome' \in [Requests ->
                            {"none", "open", "answered", "cancelled", "failed", "closed"}]
         /\ handlers' \in Seq(Handlers)
         /\ told' \in [Notices -> {"none", "queued", "sent", "failed"}]
         /\ asked' \in [ServerRequests ->
                          {"none", "handling", "result", "error", "answered", "dropped"}]
         /\ order' \in Seq(Messages)
         /\ AfterRejection(m, left) \in Seq(Messages)
<1>1. /\ m.kind \in {"request", "notice", "result", "error"}
      /\ m.kind = "request" => m.of \in Requests
      /\ m.kind = "notice" => m.of \in Notices
      /\ m.kind \in {"result", "error"} => m.of \in ServerRequests
  BY MessageTypes
<1>2. told' \in [Notices -> {"none", "queued", "sent", "failed"}]
  BY <1>1 DEF TypeOK, Rejected
<1>3. asked' \in [ServerRequests ->
                    {"none", "handling", "result", "error", "answered", "dropped"}]
  BY <1>1 DEF TypeOK, Rejected
<1>4. order' \in Seq(Messages) /\ AfterRejection(m, left) \in Seq(Messages)
  BY <1>1, MessageTypes, AppendProperties DEF TypeOK, Rejected, AfterRejection
<1>5. CASE m.kind = "request"
  <2>1. Settle(m.of, "failed") /\ UNCHANGED <<closed, serving, handlers>>
    BY <1>5 DEF Rejected
  <2>2. /\ pending' \subseteq Requests
        /\ outcome' \in [Requests ->
                            {"none", "open", "answered", "cancelled", "failed", "closed"}]
    BY <1>1, <1>5, <2>1, SettleType
  <2> QED BY <1>2, <1>3, <1>4, <2>1, <2>2 DEF TypeOK
<1>6. CASE m.kind = "error" /\ ~closed
  <2>1. BeginClose
    BY <1>6 DEF Rejected
  <2> QED BY <1>2, <1>3, <1>4, <2>1, BeginCloseType
<1>7. CASE m.kind # "request" /\ ~(m.kind = "error" /\ ~closed)
  <2>1. UNCHANGED connection
    BY <1>7 DEF Rejected
  <2> QED BY <1>2, <1>3, <1>4, <2>1 DEF TypeOK, connection
<1> QED BY <1>5, <1>6, <1>7

LEMMA GiveType ==
  ASSUME TypeOK, NEW n \in 1..MaxNotifications, NEW hs \in Seq(Handlers), Give(n, hs)
  PROVE  /\ current' \in 0..MaxNotifications
         /\ rest' \in Seq(Handlers) /\ busy' \in Handlers \cup {Nothing}
         /\ seen' \in Seq([handler : Handlers, of : 1..MaxNotifications])
<1>1. CASE hs = << >>
  BY <1>1, PeerAssumption, EmptySeq DEF TypeOK, Give
<1>2. CASE hs # << >>
  <2>1. Head(hs) \in Handlers /\ Tail(hs) \in Seq(Handlers)
    BY <1>2, HeadTailProperties
  <2>2. [handler |-> Head(hs), of |-> n] \in [handler : Handlers, of : 1..MaxNotifications]
    BY <2>1
  <2>3. Append(seen, [handler |-> Head(hs), of |-> n])
          \in Seq([handler : Handlers, of : 1..MaxNotifications])
    BY <2>2, AppendProperties DEF TypeOK
  <2>4. current' = n /\ rest' = Tail(hs) /\ busy' = Head(hs)
        /\ seen' = Append(seen, [handler |-> Head(hs), of |-> n])
    BY <1>2 DEF Give
  <2>5. n \in 0..MaxNotifications
    BY PeerAssumption
  <2> QED BY <2>1, <2>3, <2>4, <2>5
<1> QED BY <1>1, <1>2


LEMMA NextType ==
  ASSUME TypeOK, BusyInv, [Next]_vars
  PROVE  TypeOK'
<1>1. CASE Close
  BY <1>1, BeginCloseType DEF Close, TypeOK, writes, dispatch
<1>2. CASE StartWrite
  <2>1. queue # << >> /\ UNCHANGED dispatch
    BY <1>2 DEF StartWrite
  <2> DEFINE m == Head(queue)
  <2>2. m \in Messages /\ Tail(queue) \in Seq(Messages)
    BY <2>1, HeadTailProperties DEF TypeOK
  <2>3. Append(wire, m) \in Seq(Messages)
    BY <2>2, AppendProperties DEF TypeOK
  <2> HIDE DEF m
  <2>4. CASE /\ queue' = AfterRejection(m, Tail(queue))
             /\ Rejected(m)
             /\ UNCHANGED <<sending, wire, accepted>>
    BY <2>1, <2>2, <2>4, RejectedType DEF TypeOK, dispatch
  <2>5. CASE /\ queue' = Tail(queue)
             /\ UNCHANGED <<connection, sending, wire, accepted, order, told, asked>>
    BY <2>1, <2>2, <2>5 DEF TypeOK, dispatch, connection
  <2>6. CASE /\ queue' = Tail(queue) /\ sending' = m /\ wire' = Append(wire, m)
             /\ UNCHANGED <<connection, accepted, order, told, asked>>
    BY <2>1, <2>2, <2>3, <2>6 DEF TypeOK, dispatch, connection
  <2> QED BY <1>2, <2>4, <2>5, <2>6 DEF StartWrite, m
<1>3. CASE SendSettled
  <2>1. sending \in Messages /\ sending' = Nothing /\ UNCHANGED <<wire, dispatch>>
    BY <1>3 DEF SendSettled, TypeOK
  <2>2. /\ sending.kind = "notice" => sending.of \in Notices
        /\ sending.kind \in {"result", "error"} => sending.of \in ServerRequests
    BY <2>1, MessageTypes
  <2>3. CASE /\ accepted' = accepted \cup {sending}
             /\ told' = IF sending.kind = "notice"
                        THEN [told EXCEPT ![sending.of] = "sent"] ELSE told
             /\ asked' = IF sending.kind \in {"result", "error"}
                         THEN [asked EXCEPT ![sending.of] = "answered"] ELSE asked
             /\ UNCHANGED <<connection, queue, order>>
    BY <2>1, <2>2, <2>3 DEF TypeOK, connection, dispatch
  <2>4. CASE /\ Rejected(sending)
             /\ queue' = AfterRejection(sending, queue)
             /\ UNCHANGED accepted
    <3>1. queue \in Seq(Messages)
      BY DEF TypeOK
    <3> QED BY <2>1, <2>4, <3>1, RejectedType DEF TypeOK, dispatch
  <2> QED BY <1>3, <2>3, <2>4 DEF SendSettled
<1>4. CASE SetHandler
  BY <1>4 DEF SetHandler, TypeOK, writes, dispatch
<1>5. CASE Receive
  <2>1. arrived + 1 \in 1..MaxNotifications
    BY <1>5, PeerAssumption DEF Receive, TypeOK
  <2>2. Append(inbox, arrived + 1) \in Seq(1..MaxNotifications)
    BY <2>1, AppendProperties DEF TypeOK
  <2> QED BY <1>5, <2>1, <2>2 DEF Receive, TypeOK, connection, writes
<1>6. CASE Handle
  <2>1. Head(inbox) \in 1..MaxNotifications /\ Tail(inbox) \in Seq(1..MaxNotifications)
    BY <1>6, HeadTailProperties DEF Handle, TypeOK
  <2>2. Give(Head(inbox), handlers) /\ inbox' = Tail(inbox)
        /\ UNCHANGED <<connection, writes, arrived>>
    BY <1>6 DEF Handle
  <2>3. handlers \in Seq(Handlers)
    BY DEF TypeOK
  <2> QED BY <2>1, <2>2, <2>3, GiveType DEF TypeOK, connection, writes
<1>7. CASE Handled
  <2>1. current \in 1..MaxNotifications
    BY <1>7 DEF Handled, BusyInv, TypeOK
  <2>2. rest \in Seq(Handlers) /\ << >> \in Seq(Handlers)
    BY EmptySeq DEF TypeOK
  <2>3. /\ current' \in 0..MaxNotifications
        /\ rest' \in Seq(Handlers) /\ busy' \in Handlers \cup {Nothing}
        /\ seen' \in Seq([handler : Handlers, of : 1..MaxNotifications])
    BY <1>7, <2>1, <2>2, GiveType DEF Handled
  <2> QED BY <1>7, <2>3 DEF Handled, TypeOK, connection, writes
<1>8. ASSUME NEW r \in Requests, Request(r)
      PROVE  TypeOK'
  <2>1. Message("request", r) \in Messages
    BY MessageTypes
  <2>2. /\ Append(queue, Message("request", r)) \in Seq(Messages)
        /\ Append(order, Message("request", r)) \in Seq(Messages)
    BY <2>1, AppendProperties DEF TypeOK
  <2> QED BY <1>8, <2>2 DEF Request, Enqueue, TypeOK, dispatch
<1>9. ASSUME NEW r \in Requests, Cancel(r) \/ Respond(r)
      PROVE  TypeOK'
  BY <1>9, SettleType DEF Cancel, Respond, TypeOK, writes, dispatch
<1>10. ASSUME NEW n \in Notices, Notify(n)
       PROVE  TypeOK'
  <2>1. Message("notice", n) \in Messages
    BY MessageTypes
  <2>2. /\ Append(queue, Message("notice", n)) \in Seq(Messages)
        /\ Append(order, Message("notice", n)) \in Seq(Messages)
    BY <2>1, AppendProperties DEF TypeOK
  <2> QED BY <1>10, <2>2 DEF Notify, Enqueue, TypeOK, connection, dispatch
<1>11. ASSUME NEW s \in ServerRequests, ServerRequest(s)
       PROVE  TypeOK'
  <2>1. Message("error", s) \in Messages
    BY MessageTypes
  <2>2. /\ Append(queue, Message("error", s)) \in Seq(Messages)
        /\ Append(order, Message("error", s)) \in Seq(Messages)
    BY <2>1, AppendProperties DEF TypeOK
  <2> QED BY <1>11, <2>2 DEF ServerRequest, Enqueue, TypeOK, connection, dispatch
<1>12. ASSUME NEW s \in ServerRequests, HandlerSettles(s)
       PROVE  TypeOK'
  <2>1. UNCHANGED <<sending, wire, accepted, told, dispatch>>
    BY <1>12 DEF HandlerSettles
  <2>2. CASE /\ asked' = [asked EXCEPT ![s] = "dropped"]
             /\ UNCHANGED <<connection, queue, order>>
    BY <2>1, <2>2 DEF TypeOK, connection, dispatch
  <2>3. ASSUME NEW answer \in {"result", "error"},
               asked' = [asked EXCEPT ![s] = answer], Enqueue(Message(answer, s)),
               UNCHANGED connection
        PROVE  TypeOK'
    <3>1. Message(answer, s) \in Messages
      BY MessageTypes
    <3>2. /\ Append(queue, Message(answer, s)) \in Seq(Messages)
          /\ Append(order, Message(answer, s)) \in Seq(Messages)
      BY <3>1, AppendProperties DEF TypeOK
    <3> QED BY <2>1, <2>3, <3>2 DEF Enqueue, TypeOK, connection, dispatch
  <2>4. CASE /\ asked' = [asked EXCEPT ![s] = "dropped"] /\ BeginClose
             /\ UNCHANGED <<queue, order>>
    BY <2>1, <2>4, BeginCloseType DEF TypeOK, dispatch
  <2> QED BY <1>12, <2>2, <2>3, <2>4 DEF HandlerSettles
<1>13. ASSUME NEW h \in Handlers, Subscribe(h)
       PROVE  TypeOK'
  <2>1. Append(handlers, h) \in Seq(Handlers)
    BY AppendProperties DEF TypeOK
  <2> QED BY <1>13, <2>1 DEF Subscribe, TypeOK, writes, dispatch
<1>14. ASSUME NEW h \in Handlers, Unsubscribe(h)
       PROVE  TypeOK'
  <2>1. PICK i \in DOMAIN handlers : handlers' = RemoveAt(handlers, i)
    BY <1>14 DEF Unsubscribe
  <2>2. handlers' \in Seq(Handlers)
    BY <2>1, RemoveAtProperties DEF TypeOK
  <2> QED BY <1>14, <2>2 DEF Unsubscribe, TypeOK, writes, dispatch
<1>15. CASE UNCHANGED vars
  BY <1>15 DEF vars, TypeOK, connection, writes, dispatch
<1> QED BY <1>1, <1>2, <1>3, <1>4, <1>5, <1>6, <1>7, <1>8, <1>9, <1>10, <1>11, <1>12,
           <1>13, <1>14, <1>15 DEF Next

-----------------------------------------------------------------------------
(* The pending map.                                                        *)

LEMMA BeginCloseForgets ==
  ASSUME TypeOK, NoRequestForgotten, BeginClose
  PROVE  NoRequestForgotten'
BY DEF TypeOK, NoRequestForgotten, BeginClose

LEMMA SettleForgets ==
  ASSUME TypeOK, NoRequestForgotten, NEW r \in Requests,
         NEW how \in {"answered", "cancelled", "failed"}, Settle(r, how), UNCHANGED closed
  PROVE  NoRequestForgotten'
BY DEF TypeOK, NoRequestForgotten, Settle

LEMMA RejectedForgets ==
  ASSUME TypeOK, NoRequestForgotten, NEW m \in Messages, Rejected(m)
  PROVE  NoRequestForgotten'
<1>1. m.kind = "request" => m.of \in Requests
  BY MessageTypes
<1>2. CASE m.kind = "request"
  <2>1. Settle(m.of, "failed") /\ UNCHANGED closed
    BY <1>2 DEF Rejected
  <2> QED BY <1>1, <1>2, <2>1, SettleForgets
<1>3. CASE m.kind = "error" /\ ~closed
  <2>1. BeginClose
    BY <1>3 DEF Rejected
  <2> QED BY <2>1, BeginCloseForgets
<1>4. CASE m.kind # "request" /\ ~(m.kind = "error" /\ ~closed)
  <2>1. UNCHANGED connection
    BY <1>4 DEF Rejected
  <2> QED BY <2>1 DEF connection, NoRequestForgotten
<1> QED BY <1>2, <1>3, <1>4

LEMMA NextRequests ==
  ASSUME TypeOK, NoRequestForgotten, [Next]_vars
  PROVE  NoRequestForgotten'
<1>1. ASSUME UNCHANGED <<closed, pending, outcome>>
      PROVE  NoRequestForgotten'
  BY <1>1 DEF NoRequestForgotten
<1>2. CASE Close
  BY <1>2, BeginCloseForgets DEF Close
<1>3. CASE StartWrite
  <2>1. queue # << >>
    BY <1>3 DEF StartWrite
  <2>2. Head(queue) \in Messages
    BY <2>1, HeadTailProperties DEF TypeOK
  <2>3. Rejected(Head(queue)) \/ UNCHANGED connection
    BY <1>3 DEF StartWrite
  <2> QED BY <1>1, <2>2, <2>3, RejectedForgets DEF connection
<1>4. CASE SendSettled
  <2>1. sending \in Messages /\ (Rejected(sending) \/ UNCHANGED connection)
    BY <1>4 DEF SendSettled, TypeOK
  <2> QED BY <1>1, <2>1, RejectedForgets DEF connection
<1>5. ASSUME NEW r \in Requests, Request(r)
      PROVE  NoRequestForgotten'
  BY <1>5 DEF Request, TypeOK, NoRequestForgotten
<1>6. ASSUME NEW r \in Requests, Cancel(r) \/ Respond(r)
      PROVE  NoRequestForgotten'
  BY <1>6, SettleForgets DEF Cancel, Respond
<1>7. ASSUME NEW s \in ServerRequests, HandlerSettles(s)
      PROVE  NoRequestForgotten'
  <2>1. BeginClose \/ UNCHANGED connection
    BY <1>7 DEF HandlerSettles
  <2> QED BY <1>1, <2>1, BeginCloseForgets DEF connection
<1>8. CASE \/ SetHandler \/ Receive \/ Handle \/ Handled
           \/ \E n \in Notices : Notify(n)
           \/ \E s \in ServerRequests : ServerRequest(s)
           \/ \E h \in Handlers : Subscribe(h) \/ Unsubscribe(h)
           \/ UNCHANGED vars
  <2>1. UNCHANGED <<closed, pending, outcome>>
    BY <1>8 DEF SetHandler, Receive, Handle, Handled, Notify, ServerRequest, Subscribe,
                Unsubscribe, vars, connection
  <2> QED BY <1>1, <2>1
<1> QED BY <1>2, <1>3, <1>4, <1>5, <1>6, <1>7, <1>8 DEF Next

-----------------------------------------------------------------------------
(* The chain of writes.                                                    *)

\* enqueueWrite hands over behind what waits.
LEMMA ChainEnqueue ==
  ASSUME NEW q \in Seq(Messages), NEW w \in Seq(Messages), NEW o \in Seq(Messages),
         NEW m \in Messages, Chain(q, w, o)
  PROVE  Chain(Append(q, m), w, Append(o, m))
<1> DEFINE q1 == Append(q, m)
           o1 == Append(o, m)
<1>1. /\ Len(q) \in Nat /\ Len(o) \in Nat
      /\ Len(q1) = Len(q) + 1 /\ Len(o1) = Len(o) + 1
      /\ \A i \in 1..Len(q) : q1[i] = q[i]
      /\ \A i \in 1..Len(o) : o1[i] = o[i]
      /\ q1[Len(q) + 1] = m /\ o1[Len(o) + 1] = m
  BY AppendProperties, LenProperties
<1> DEFINE nq == Len(q)
           no == Len(o)
<1>2. nq \in Nat /\ no \in Nat /\ nq <= no
  BY <1>1 DEF Chain, Waiting
<1>3. (\A i \in 1..nq : q[i] = o[no - nq + i]) /\ FoundIn(w, o, no - nq)
  BY DEF Chain, Waiting
<1> HIDE DEF q1, o1, nq, no
<1>4. Len(q1) = nq + 1 /\ Len(o1) = no + 1 /\ Len(o1) - Len(q1) = no - nq
  BY <1>1, <1>2 DEF nq, no
<1>5. \A a \in 1..no - nq : o1[a] = o[a]
  BY <1>1, <1>2 DEF nq, no
<1>6. ASSUME NEW i \in 1..nq + 1
      PROVE  q1[i] = o1[no - nq + i]
  <2>1. CASE i = nq + 1
    <3>1. no - nq + i = no + 1
      BY <2>1, <1>2
    <3> QED BY <1>1, <2>1, <3>1 DEF nq, no
  <2>2. CASE i # nq + 1
    <3>1. i \in 1..nq /\ no - nq + i \in 1..no
      BY <2>2, <1>2
    <3> QED BY <1>1, <1>3, <3>1 DEF nq, no
  <2> QED BY <2>1, <2>2
<1>7. FoundIn(w, o1, no - nq)
  BY <1>3, <1>5 DEF FoundIn
<1>8. Waiting(q1, o1)
  <2>1. Len(q1) <= Len(o1)
    BY <1>2, <1>4
  <2> QED BY <1>4, <1>6, <2>1 DEF Waiting
<1>9. Chain(q1, w, o1)
  BY <1>4, <1>7, <1>8 DEF Chain
<1> QED BY <1>9 DEF q1, o1

\* A write that is skipped or rejected leaves the others in order.
LEMMA ChainSkip ==
  ASSUME NEW q \in Seq(Messages), q # << >>, NEW w \in Seq(Messages),
         NEW o \in Seq(Messages), Chain(q, w, o)
  PROVE  Chain(Tail(q), w, o)
<1> DEFINE t == Tail(q)
           nq == Len(q)
           no == Len(o)
<1>1. /\ nq \in Nat \ {0} /\ no \in Nat /\ nq <= no
      /\ Len(t) = nq - 1 /\ \A i \in 1..nq - 1 : t[i] = q[i + 1]
  BY EmptySeq, HeadTailProperties, LenProperties DEF Chain, Waiting
<1>2. (\A i \in 1..nq : q[i] = o[no - nq + i]) /\ FoundIn(w, o, no - nq)
  BY DEF Chain, Waiting
<1> HIDE DEF t, nq, no
<1>3. Len(t) <= no /\ \A a \in 1..no - nq : a \in 1..no - Len(t)
  BY <1>1
<1>4. ASSUME NEW i \in 1..Len(t)
      PROVE  t[i] = o[no - Len(t) + i]
  <2>1. i \in 1..nq - 1 /\ i + 1 \in 1..nq /\ no - nq + (i + 1) = no - Len(t) + i
    BY <1>1
  <2> QED BY <1>1, <1>2, <2>1
<1>5. FoundIn(w, o, no - Len(t))
  BY <1>2, <1>3 DEF FoundIn
<1>6. Chain(t, w, o)
  BY <1>3, <1>4, <1>5 DEF Chain, Waiting, no
<1> QED BY <1>6 DEF t

\* The write at the head of the queue goes behind those on the wire.
LEMMA ChainSend ==
  ASSUME NEW q \in Seq(Messages), q # << >>, NEW w \in Seq(Messages),
         NEW o \in Seq(Messages), Chain(q, w, o)
  PROVE  Chain(Tail(q), Append(w, Head(q)), o)
<1> DEFINE nq == Len(q)
           no == Len(o)
           nw == Len(w)
           p == no - nq + 1
           w1 == Append(w, Head(q))
           t == Tail(q)
<1>1. /\ nq \in Nat \ {0} /\ no \in Nat /\ nw \in Nat /\ nq <= no
      /\ Len(t) = nq - 1 /\ Head(q) = q[1] /\ Head(q) \in Messages
  BY EmptySeq, HeadTailProperties, LenProperties DEF Chain, Waiting
<1>2. /\ \A i \in 1..nq : q[i] = o[no - nq + i]
      /\ \A i \in 1..nw : \E a \in 1..no - nq : o[a] = w[i]
      /\ \A i, j \in 1..nw :
           i < j => \E a, b \in 1..no - nq : a < b /\ o[a] = w[i] /\ o[b] = w[j]
  BY DEF Chain, Waiting, FoundIn
<1>3. Len(w1) = nw + 1 /\ w1[nw + 1] = Head(q) /\ \A i \in 1..nw : w1[i] = w[i]
  BY <1>1, AppendProperties
<1>4. Waiting(t, o)
  BY ChainSkip DEF Chain
<1> HIDE DEF nq, no, nw, p, w1, t
<1>5. /\ p \in 1..no - Len(t) /\ no - Len(t) = p
      /\ \A a \in 1..no - nq : a \in 1..p /\ a < p
  BY <1>1 DEF p
<1>6. o[p] = Head(q)
  <2>1. 1 \in 1..nq /\ no - nq + 1 = p
    BY <1>1 DEF p
  <2> QED BY <1>1, <1>2, <2>1
<1>7. ASSUME NEW i \in 1..nw + 1
      PROVE  \E a \in 1..p : o[a] = w1[i]
  <2>1. CASE i = nw + 1
    BY <2>1, <1>3, <1>5, <1>6
  <2>2. CASE i \in 1..nw
    BY <2>2, <1>2, <1>3, <1>5
  <2> QED BY <1>1, <2>1, <2>2
<1>8. ASSUME NEW i \in 1..nw + 1, NEW j \in 1..nw + 1, i < j
      PROVE  \E a, b \in 1..p : a < b /\ o[a] = w1[i] /\ o[b] = w1[j]
  <2>1. i \in 1..nw
    BY <1>1, <1>8
  <2>2. CASE j = nw + 1
    <3>1. PICK a \in 1..no - nq : o[a] = w[i]
      BY <1>2, <2>1
    <3>2. a \in 1..p /\ p \in 1..p /\ a < p /\ o[a] = w1[i] /\ o[p] = w1[j]
      BY <1>3, <1>5, <1>6, <2>1, <2>2, <3>1
    <3> QED BY <3>2
  <2>3. CASE j \in 1..nw
    <3>1. PICK a \in 1..no - nq, b \in 1..no - nq : a < b /\ o[a] = w[i] /\ o[b] = w[j]
      BY <1>2, <1>8, <2>1, <2>3
    <3> QED BY <1>3, <1>5, <2>1, <2>3, <3>1
  <2> QED BY <1>1, <2>2, <2>3
<1>9. FoundIn(w1, o, p)
  <2>1. Len(w1) = nw + 1
    BY <1>3
  <2> QED BY <1>7, <1>8, <2>1 DEF FoundIn
<1>10. Chain(t, w1, o)
  BY <1>4, <1>5, <1>9 DEF Chain, no
<1> QED BY <1>10 DEF t, w1

LEMMA NextChain ==
  ASSUME TypeOK, Chain(queue, wire, order), [Next]_vars
  PROVE  Chain(queue, wire, order)'
<1>0. queue \in Seq(Messages) /\ wire \in Seq(Messages) /\ order \in Seq(Messages)
  BY DEF TypeOK
<1>1. ASSUME UNCHANGED <<queue, wire, order>>
      PROVE  Chain(queue, wire, order)'
  BY <1>1
<1>2. ASSUME NEW m \in Messages, Enqueue(m), UNCHANGED wire
      PROVE  Chain(queue, wire, order)'
  <2>1. Chain(Append(queue, m), wire, Append(order, m))
    BY <1>0, ChainEnqueue
  <2> QED BY <1>2, <2>1 DEF Enqueue
<1>3. ASSUME NEW m \in Messages, NEW left \in Seq(Messages), Chain(left, wire, order),
             Rejected(m), queue' = AfterRejection(m, left), UNCHANGED wire
      PROVE  Chain(queue, wire, order)'
  <2>1. CASE m.kind = "result" /\ ~closed
    <3>1. Message("error", m.of) \in Messages
      BY <2>1, MessageTypes
    <3>2. Chain(Append(left, Message("error", m.of)), wire, Append(order, Message("error", m.of)))
      BY <1>0, <1>3, <3>1, ChainEnqueue
    <3> QED BY <1>3, <2>1, <3>2 DEF Rejected, AfterRejection
  <2>2. CASE ~(m.kind = "result" /\ ~closed)
    BY <1>3, <2>2 DEF Rejected, AfterRejection
  <2> QED BY <2>1, <2>2
<1>4. CASE StartWrite
  <2>1. queue # << >>
    BY <1>4 DEF StartWrite
  <2>2. Head(queue) \in Messages /\ Tail(queue) \in Seq(Messages)
    BY <2>1, <1>0, HeadTailProperties
  <2>3. Chain(Tail(queue), wire, order)
    BY <2>1, <1>0, ChainSkip
  <2>4. Chain(Tail(queue), Append(wire, Head(queue)), order)
    BY <2>1, <1>0, ChainSend
  <2>5. CASE /\ queue' = AfterRejection(Head(queue), Tail(queue))
             /\ Rejected(Head(queue))
             /\ UNCHANGED wire
    BY <1>3, <2>2, <2>3, <2>5
  <2>6. CASE queue' = Tail(queue) /\ UNCHANGED <<wire, order>>
    BY <2>3, <2>6
  <2>7. CASE queue' = Tail(queue) /\ wire' = Append(wire, Head(queue)) /\ UNCHANGED order
    BY <2>4, <2>7
  <2> QED BY <1>4, <2>5, <2>6, <2>7 DEF StartWrite
<1>5. CASE SendSettled
  <2>1. sending \in Messages /\ UNCHANGED wire
    BY <1>5 DEF SendSettled, TypeOK
  <2>2. CASE UNCHANGED <<queue, order>>
    BY <1>1, <2>1, <2>2
  <2>3. CASE Rejected(sending) /\ queue' = AfterRejection(sending, queue)
    BY <1>0, <1>3, <2>1, <2>3
  <2> QED BY <1>5, <2>2, <2>3 DEF SendSettled
<1>6. CASE \/ \E r \in Requests : Request(r)
           \/ \E n \in Notices : Notify(n)
           \/ \E s \in ServerRequests : ServerRequest(s) \/ HandlerSettles(s)
  <2>1. UNCHANGED wire
    BY <1>6 DEF Request, Notify, ServerRequest, HandlerSettles
  <2>2. UNCHANGED <<queue, order>> \/ \E m \in Messages : Enqueue(m)
    BY <1>6, MessageTypes DEF Request, Notify, ServerRequest, HandlerSettles
  <2> QED BY <1>1, <1>2, <2>1, <2>2
<1>7. CASE \/ Close \/ SetHandler \/ Receive \/ Handle \/ Handled
           \/ \E r \in Requests : Cancel(r) \/ Respond(r)
           \/ \E h \in Handlers : Subscribe(h) \/ Unsubscribe(h)
           \/ UNCHANGED vars
  <2>1. UNCHANGED writes
    BY <1>7 DEF Close, SetHandler, Receive, Handle, Handled, Cancel, Respond, Subscribe,
                Unsubscribe, vars
  <2> QED BY <1>1, <2>1 DEF writes
<1> QED BY <1>4, <1>5, <1>6, <1>7 DEF Next

-----------------------------------------------------------------------------
(* The answers to server requests.                                         *)

Stages == {"none", "handling", "result", "error", "answered", "dropped"}

\* A message handed over behind those that wait, with no other like it, is alone.
LEMMA AloneAppend ==
  ASSUME NEW q \in Seq(Messages), NEW n \in Messages,
         \A i, j \in 1..Len(q) : q[i] = q[j] /\ IsAnswer(q[i]) => i = j,
         IsAnswer(n) => n \notin ToSet(q)
  PROVE  \A i, j \in 1..Len(Append(q, n)) :
           Append(q, n)[i] = Append(q, n)[j] /\ IsAnswer(Append(q, n)[i]) => i = j
<1> DEFINE q1 == Append(q, n)
           l == Len(q)
<1>1. /\ l \in Nat /\ DOMAIN q = 1..l /\ Len(q1) = l + 1
      /\ \A i \in 1..l : q1[i] = q[i]
      /\ q1[l + 1] = n
  BY AppendProperties, LenProperties
<1> HIDE DEF q1, l
<1>2. \A i \in 1..l : q[i] \in ToSet(q)
  BY <1>1 DEF ToSet
<1>3. ASSUME NEW i \in 1..l, NEW j \in 1..l, q1[i] = q1[j], IsAnswer(q1[i])
      PROVE  i = j
  BY <1>1, <1>3 DEF l
<1>4. ASSUME NEW i \in 1..l, q1[i] = q1[l + 1], IsAnswer(q1[i])
      PROVE  FALSE
  BY <1>1, <1>2, <1>4
<1>5. ASSUME NEW i \in 1..l + 1, NEW j \in 1..l + 1, q1[i] = q1[j], IsAnswer(q1[i])
      PROVE  i = j
  <2>1. (i \in 1..l \/ i = l + 1) /\ (j \in 1..l \/ j = l + 1)
    BY <1>1
  <2> QED BY <1>3, <1>4, <1>5, <2>1
<1> QED BY <1>1, <1>5 DEF q1

\* What is not answered yet is not on its way.
LEMMA UnansweredWhen ==
  ASSUME NEW q, NEW m, NEW done, NEW at, Answers(q, m, done, at), NEW s,
         at[s] \notin {"result", "error", "answered"}
  PROVE  Unanswered(s, q, m, done)
BY DEF Answers, Unanswered, IsAnswer

\* A request that is not answered yet may go to any stage.
LEMMA AnswersSet ==
  ASSUME NEW q \in Seq(Messages), NEW m \in Messages \cup {Nothing}, NEW done \in SUBSET Messages,
         NEW at \in [ServerRequests -> Stages], Answers(q, m, done, at),
         NEW s \in ServerRequests, Unanswered(s, q, m, done), NEW v
  PROVE  Answers(q, m, done, [at EXCEPT ![s] = v])
<1> DEFINE at1 == [at EXCEPT ![s] = v]
<1>1. \A n \in ToSet(q) : n \in Messages
  BY LenProperties, ElementOfSeq DEF ToSet
<1>2. \A n \in Messages : IsAnswer(n) /\ n.of # s => at1[n.of] = at[n.of]
  BY MessageTypes DEF IsAnswer
<1> HIDE DEF at1
<1> QED BY <1>1, <1>2 DEF Answers, Unanswered, at1

\* The answer it then gets is handed over.
LEMMA AnswersAdd ==
  ASSUME NEW q \in Seq(Messages), NEW m \in Messages \cup {Nothing}, NEW done \in SUBSET Messages,
         NEW at \in [ServerRequests -> Stages], Answers(q, m, done, at),
         NEW s \in ServerRequests, Unanswered(s, q, m, done), NEW k \in {"result", "error"}
  PROVE  Answers(Append(q, Message(k, s)), m, done, [at EXCEPT ![s] = k])
<1> DEFINE n == Message(k, s)
           q1 == Append(q, n)
           at1 == [at EXCEPT ![s] = k]
<1>1. n \in Messages /\ n.kind = k /\ n.of = s /\ at1[s] = k /\ IsAnswer(n)
  BY MessageTypes DEF Message, IsAnswer
<1>2. ToSet(q1) = ToSet(q) \cup {n}
  BY <1>1, SetOfAppend
<1>3. Answers(q, m, done, at1)
  BY AnswersSet
<1> HIDE DEF n, q1, at1
<1>4. n \notin ToSet(q) /\ (m # Nothing => n # m)
  BY <1>1 DEF Unanswered
<1>5. \A i, j \in 1..Len(q1) : q1[i] = q1[j] /\ IsAnswer(q1[i]) => i = j
  BY <1>1, <1>3, <1>4, AloneAppend DEF Answers, q1
<1>6. Answers(q1, m, done, at1)
  BY <1>1, <1>2, <1>3, <1>4, <1>5 DEF Answers
<1> QED BY <1>6 DEF q1, n, at1

\* Other messages do not matter.
LEMMA AnswersOther ==
  ASSUME NEW q \in Seq(Messages), NEW m \in Messages \cup {Nothing}, NEW done, NEW at,
         Answers(q, m, done, at), NEW n \in Messages, ~IsAnswer(n)
  PROVE  Answers(Append(q, n), m, done, at)
<1>1. ToSet(Append(q, n)) = ToSet(q) \cup {n}
  BY SetOfAppend
<1>2. \A i, j \in 1..Len(Append(q, n)) :
        Append(q, n)[i] = Append(q, n)[j] /\ IsAnswer(Append(q, n)[i]) => i = j
  BY AloneAppend DEF Answers
<1>3. m # Nothing /\ IsAnswer(m) => m \notin ToSet(Append(q, n))
  BY <1>1 DEF Answers
<1> QED BY <1>1, <1>2, <1>3 DEF Answers

\* The head of the queue is taken: nothing else answers its server request.
LEMMA AnswersTake ==
  ASSUME NEW q \in Seq(Messages), q # << >>, NEW done \in SUBSET Messages,
         NEW at \in [ServerRequests -> Stages], Answers(q, Nothing, done, at)
  PROVE  /\ Answers(Tail(q), Nothing, done, at)
         /\ Answers(Tail(q), Head(q), done, at)
         /\ IsAnswer(Head(q)) => Unanswered(Head(q).of, Tail(q), Nothing, done)
<1> DEFINE t == Tail(q)
           h == Head(q)
           l == Len(q)
<1>1. /\ l \in Nat \ {0} /\ DOMAIN q = 1..l
      /\ t \in Seq(Messages) /\ Len(t) = l - 1 /\ h = q[1] /\ h \in Messages
      /\ \A i \in 1..l - 1 : t[i] = q[i + 1]
  BY EmptySeq, HeadTailProperties, LenProperties
<1>2. ToSet(q) = {h} \cup ToSet(t) /\ DOMAIN t = 1..l - 1
  BY <1>1, SetOfTail, LenProperties
<1>3. \A i, j \in 1..l : q[i] = q[j] /\ IsAnswer(q[i]) => i = j
  BY DEF Answers
<1> HIDE DEF t, h, l
<1>4. ASSUME NEW i \in 1..l - 1, NEW j \in 1..l - 1, t[i] = t[j], IsAnswer(t[i])
      PROVE  i = j
  <2>1. i + 1 \in 1..l /\ j + 1 \in 1..l /\ (i + 1 = j + 1 => i = j)
    BY <1>1
  <2> QED BY <1>1, <1>3, <1>4, <2>1
<1>5. IsAnswer(h) => h \notin ToSet(t)
  <2>1. ASSUME IsAnswer(h), NEW i \in 1..l - 1, t[i] = h
        PROVE  FALSE
    <3>1. i + 1 \in 1..l /\ 1 \in 1..l /\ i + 1 # 1
      BY <1>1
    <3> QED BY <1>1, <1>3, <2>1, <3>1
  <2> QED BY <1>2, <2>1 DEF ToSet
<1>6. /\ \A n \in ToSet(q) : IsAnswer(n) => at[n.of] = n.kind
      /\ \A n \in done : IsAnswer(n) => at[n.of] = "answered"
      /\ \A n, k \in done : IsAnswer(n) /\ IsAnswer(k) /\ n.of = k.of => n = k
  BY DEF Answers
<1>7. Answers(t, Nothing, done, at)
  BY <1>1, <1>2, <1>4, <1>6 DEF Answers
<1>8. Answers(t, h, done, at)
  BY <1>1, <1>2, <1>4, <1>5, <1>6 DEF Answers
<1>9. ASSUME IsAnswer(h)
      PROVE  Unanswered(h.of, t, Nothing, done)
  <2>1. at[h.of] = h.kind /\ h.kind # "answered"
    BY <1>2, <1>6, <1>9 DEF IsAnswer
  <2>2. ASSUME NEW n \in ToSet(t), IsAnswer(n), n.of = h.of
        PROVE  FALSE
    <3>1. n \in Messages
      BY <1>1, <2>2, LenProperties, ElementOfSeq DEF ToSet
    <3>2. n.kind = h.kind
      BY <1>2, <1>6, <2>1, <2>2
    <3>3. n = h
      BY <1>1, <2>2, <3>1, <3>2, MessageTypes
    <3> QED BY <1>5, <1>9, <2>2, <3>3
  <2>3. \A n \in done : IsAnswer(n) => n.of # h.of
    BY <1>6, <2>1
  <2> QED BY <2>2, <2>3 DEF Unanswered
<1> QED BY <1>7, <1>8, <1>9 DEF t, h

\* So does the message the transport settles.
LEMMA AnswersSettle ==
  ASSUME NEW q \in Seq(Messages), NEW m \in Messages, NEW done \in SUBSET Messages,
         NEW at \in [ServerRequests -> Stages], Answers(q, m, done, at)
  PROVE  /\ Answers(q, Nothing, done, at)
         /\ IsAnswer(m) => Unanswered(m.of, q, Nothing, done)
<1>0. m # Nothing
  BY PeerAssumption
<1>1. Answers(q, Nothing, done, at)
  BY DEF Answers
<1>2. ASSUME IsAnswer(m)
      PROVE  Unanswered(m.of, q, Nothing, done)
  <2>1. at[m.of] = m.kind /\ m.kind # "answered" /\ m \notin ToSet(q)
    BY <1>0, <1>2 DEF Answers, IsAnswer
  <2>2. ASSUME NEW n \in ToSet(q), IsAnswer(n), n.of = m.of
        PROVE  FALSE
    <3>1. n \in Messages
      BY <2>2, LenProperties, ElementOfSeq DEF ToSet
    <3>2. n.kind = m.kind
      BY <2>1, <2>2 DEF Answers
    <3>3. n = m
      BY <2>2, <3>1, <3>2, MessageTypes
    <3> QED BY <2>1, <2>2, <3>3
  <2>3. \A n \in done : IsAnswer(n) => n.of # m.of
    BY <2>1 DEF Answers
  <2> QED BY <2>2, <2>3 DEF Unanswered
<1> QED BY <1>1, <1>2

\* The transport accepts it.
LEMMA AnswersAccept ==
  ASSUME NEW q \in Seq(Messages), NEW m \in Messages, NEW done \in SUBSET Messages,
         NEW at \in [ServerRequests -> Stages], Answers(q, m, done, at)
  PROVE  Answers(q, Nothing, done \cup {m},
                 IF IsAnswer(m) THEN [at EXCEPT ![m.of] = "answered"] ELSE at)
<1>1. Answers(q, Nothing, done, at)
  BY AnswersSettle
<1>2. CASE ~IsAnswer(m)
  BY <1>1, <1>2 DEF Answers
<1>3. CASE IsAnswer(m)
  <2> DEFINE at1 == [at EXCEPT ![m.of] = "answered"]
  <2>1. Unanswered(m.of, q, Nothing, done) /\ m.of \in ServerRequests
    BY <1>3, AnswersSettle, MessageTypes DEF IsAnswer
  <2>2. Answers(q, Nothing, done, at1)
    BY <1>1, <2>1, AnswersSet
  <2>3. at1[m.of] = "answered"
    BY <2>1
  <2> HIDE DEF at1
  <2>4. Answers(q, Nothing, done \cup {m}, at1)
    BY <2>1, <2>2, <2>3 DEF Answers, Unanswered
  <2> QED BY <1>3, <2>4 DEF at1
<1> QED BY <1>2, <1>3

\* Or it does not: the answer is dropped, or replaced by an error.
LEMMA AnswersReject ==
  ASSUME TypeOK, NEW m \in Messages, NEW left \in Seq(Messages), Rejected(m),
         Answers(left, Nothing, accepted, asked),
         IsAnswer(m) => Unanswered(m.of, left, Nothing, accepted)
  PROVE  Answers(AfterRejection(m, left), Nothing, accepted, asked')
<1>1. /\ accepted \in SUBSET Messages /\ asked \in [ServerRequests -> Stages]
      /\ Nothing \in Messages \cup {Nothing}
  BY DEF TypeOK, Stages
<1>2. CASE m.kind = "result" /\ ~closed
  <2>1. Unanswered(m.of, left, Nothing, accepted) /\ m.of \in ServerRequests
    BY <1>2, MessageTypes DEF IsAnswer
  <2>2. Answers(Append(left, Message("error", m.of)), Nothing, accepted,
                [asked EXCEPT ![m.of] = "error"])
    BY <1>1, <2>1, AnswersAdd
  <2> QED BY <1>2, <2>2 DEF Rejected, AfterRejection
<1>3. CASE m.kind = "error" \/ (m.kind = "result" /\ closed)
  <2>1. Unanswered(m.of, left, Nothing, accepted) /\ m.of \in ServerRequests
    BY <1>3, MessageTypes DEF IsAnswer
  <2>2. Answers(left, Nothing, accepted, [asked EXCEPT ![m.of] = "dropped"])
    BY <1>1, <2>1, AnswersSet
  <2> QED BY <1>3, <2>2 DEF Rejected, AfterRejection
<1>4. CASE ~IsAnswer(m)
  BY <1>4 DEF Rejected, AfterRejection, IsAnswer
<1> QED BY <1>2, <1>3, <1>4 DEF IsAnswer

LEMMA NextAnswers ==
  ASSUME TypeOK, Answers(queue, sending, accepted, asked), [Next]_vars
  PROVE  Answers(queue, sending, accepted, asked)'
<1>0. /\ queue \in Seq(Messages) /\ sending \in Messages \cup {Nothing}
      /\ accepted \in SUBSET Messages /\ asked \in [ServerRequests -> Stages]
  BY DEF TypeOK, Stages
<1>1. ASSUME UNCHANGED <<queue, sending, accepted, asked>>
      PROVE  Answers(queue, sending, accepted, asked)'
  BY <1>1
<1>2. CASE StartWrite
  <2>1. queue # << >> /\ sending = Nothing
    BY <1>2 DEF StartWrite
  <2>2. Head(queue) \in Messages /\ Tail(queue) \in Seq(Messages)
    BY <2>1, <1>0, HeadTailProperties
  <2>3. /\ Answers(Tail(queue), Nothing, accepted, asked)
        /\ Answers(Tail(queue), Head(queue), accepted, asked)
        /\ IsAnswer(Head(queue)) => Unanswered(Head(queue).of, Tail(queue), Nothing, accepted)
    BY <1>0, <2>1, AnswersTake
  <2>4. CASE /\ queue' = AfterRejection(Head(queue), Tail(queue))
             /\ Rejected(Head(queue))
             /\ UNCHANGED <<sending, accepted>>
    <3>1. Answers(AfterRejection(Head(queue), Tail(queue)), Nothing, accepted, asked')
      BY <2>2, <2>3, <2>4, AnswersReject
    <3> QED BY <2>1, <2>4, <3>1
  <2>5. CASE queue' = Tail(queue) /\ UNCHANGED <<sending, accepted, asked>>
    BY <2>1, <2>3, <2>5
  <2>6. CASE queue' = Tail(queue) /\ sending' = Head(queue) /\ UNCHANGED <<accepted, asked>>
    BY <2>3, <2>6
  <2> QED BY <1>2, <2>4, <2>5, <2>6 DEF StartWrite
<1>3. CASE SendSettled
  <2>1. sending \in Messages /\ sending' = Nothing
    BY <1>3, <1>0 DEF SendSettled
  <2>2. CASE /\ accepted' = accepted \cup {sending}
             /\ asked' = IF sending.kind \in {"result", "error"}
                         THEN [asked EXCEPT ![sending.of] = "answered"] ELSE asked
             /\ UNCHANGED queue
    <3>1. Answers(queue, Nothing, accepted \cup {sending},
                  IF IsAnswer(sending) THEN [asked EXCEPT ![sending.of] = "answered"] ELSE asked)
      BY <1>0, <2>1, AnswersAccept
    <3> QED BY <2>1, <2>2, <3>1 DEF IsAnswer
  <2>3. CASE Rejected(sending) /\ queue' = AfterRejection(sending, queue) /\ UNCHANGED accepted
    <3>1. /\ Answers(queue, Nothing, accepted, asked)
          /\ IsAnswer(sending) => Unanswered(sending.of, queue, Nothing, accepted)
      BY <1>0, <2>1, AnswersSettle
    <3>2. Answers(AfterRejection(sending, queue), Nothing, accepted, asked')
      BY <1>0, <2>1, <2>3, <3>1, AnswersReject
    <3> QED BY <2>1, <2>3, <3>2
  <2> QED BY <1>3, <2>2, <2>3 DEF SendSettled
<1>4. ASSUME NEW n \in Messages, ~IsAnswer(n), Enqueue(n), UNCHANGED <<sending, accepted, asked>>
      PROVE  Answers(queue, sending, accepted, asked)'
  <2>1. Answers(Append(queue, n), sending, accepted, asked)
    BY <1>0, <1>4, AnswersOther
  <2> QED BY <1>4, <2>1 DEF Enqueue
<1>5. ASSUME NEW r \in Requests, Request(r)
      PROVE  Answers(queue, sending, accepted, asked)'
  <2>1. Message("request", r) \in Messages /\ ~IsAnswer(Message("request", r))
    BY MessageTypes DEF Message, IsAnswer
  <2> QED BY <1>1, <1>4, <1>5, <2>1 DEF Request
<1>6. ASSUME NEW n \in Notices, Notify(n)
      PROVE  Answers(queue, sending, accepted, asked)'
  <2>1. Message("notice", n) \in Messages /\ ~IsAnswer(Message("notice", n))
    BY MessageTypes DEF Message, IsAnswer
  <2> QED BY <1>1, <1>4, <1>6, <2>1 DEF Notify
<1>7. ASSUME NEW s \in ServerRequests, asked[s] \in {"none", "handling"},
             UNCHANGED <<sending, accepted>>,
             \/ /\ asked' \in {[asked EXCEPT ![s] = v] : v \in Stages}
                /\ UNCHANGED queue
             \/ \E k \in {"result", "error"} :
                  asked' = [asked EXCEPT ![s] = k] /\ Enqueue(Message(k, s))
      PROVE  Answers(queue, sending, accepted, asked)'
  <2>1. Unanswered(s, queue, sending, accepted)
    BY <1>7, UnansweredWhen
  <2>2. ASSUME NEW v, asked' = [asked EXCEPT ![s] = v], UNCHANGED queue
        PROVE  Answers(queue, sending, accepted, asked)'
    <3>1. Answers(queue, sending, accepted, [asked EXCEPT ![s] = v])
      BY <1>0, <2>1, AnswersSet
    <3> QED BY <1>7, <2>2, <3>1
  <2>3. ASSUME NEW k \in {"result", "error"},
               asked' = [asked EXCEPT ![s] = k], Enqueue(Message(k, s))
        PROVE  Answers(queue, sending, accepted, asked)'
    <3>1. Answers(Append(queue, Message(k, s)), sending, accepted, [asked EXCEPT ![s] = k])
      BY <1>0, <2>1, AnswersAdd
    <3> QED BY <1>7, <2>3, <3>1 DEF Enqueue
  <2> QED BY <1>7, <2>2, <2>3
<1>8. ASSUME NEW s \in ServerRequests, ServerRequest(s)
      PROVE  Answers(queue, sending, accepted, asked)'
  BY <1>7, <1>8 DEF ServerRequest, Stages
<1>9. ASSUME NEW s \in ServerRequests, HandlerSettles(s)
      PROVE  Answers(queue, sending, accepted, asked)'
  BY <1>7, <1>9 DEF HandlerSettles, Stages
<1>10. CASE \/ Close \/ SetHandler \/ Receive \/ Handle \/ Handled
            \/ \E r \in Requests : Cancel(r) \/ Respond(r)
            \/ \E h \in Handlers : Subscribe(h) \/ Unsubscribe(h)
            \/ UNCHANGED vars
  <2>1. UNCHANGED writes
    BY <1>10 DEF Close, SetHandler, Receive, Handle, Handled, Cancel, Respond, Subscribe,
                 Unsubscribe, vars
  <2> QED BY <1>1, <2>1 DEF writes
<1> QED BY <1>2, <1>3, <1>5, <1>6, <1>8, <1>9, <1>10 DEF Next

-----------------------------------------------------------------------------
(* The handlers and the chain of notifications.                            *)

LEMMA NextHandlers ==
  ASSUME TypeOK, HandlersInv, [Next]_vars
  PROVE  HandlersInv'
<1>0. handlers \in Seq(Handlers) /\ Len(handlers) \in Nat /\ DOMAIN handlers = 1..Len(handlers)
  BY LenProperties DEF TypeOK
<1>1. ASSUME UNCHANGED <<closed, handlers>>
      PROVE  HandlersInv'
  BY <1>1 DEF HandlersInv
<1>2. ASSUME BeginClose
      PROVE  HandlersInv'
  BY <1>2, EmptySeq DEF BeginClose, HandlersInv
<1>3. ASSUME NEW m, Rejected(m)
      PROVE  HandlersInv'
  <2>1. CASE m.kind = "request"
    BY <1>1, <1>3, <2>1 DEF Rejected
  <2>2. CASE m.kind = "error" /\ ~closed
    BY <1>2, <1>3, <2>2 DEF Rejected
  <2>3. CASE m.kind # "request" /\ ~(m.kind = "error" /\ ~closed)
    BY <1>1, <1>3, <2>3 DEF Rejected, connection
  <2> QED BY <2>1, <2>2, <2>3
<1>4. CASE Close \/ StartWrite \/ SendSettled \/ \E s \in ServerRequests : HandlerSettles(s)
  <2>1. BeginClose \/ UNCHANGED connection \/ \E m : Rejected(m)
    BY <1>4 DEF Close, StartWrite, SendSettled, HandlerSettles
  <2> QED BY <1>1, <1>2, <1>3, <2>1 DEF connection
<1>5. ASSUME NEW h \in Handlers, Subscribe(h)
      PROVE  HandlersInv'
  <2> DEFINE n == Len(handlers)
  <2>1. /\ ~closed' /\ handlers' = Append(handlers, h)
        /\ \A i \in 1..n : handlers[i] # h
    BY <1>0, <1>5 DEF Subscribe, ToSet
  <2>2. /\ Len(handlers') = n + 1 /\ handlers'[n + 1] = h
        /\ \A i \in 1..n : handlers'[i] = handlers[i]
    BY <1>0, <2>1, AppendProperties
  <2>3. \A i, j \in 1..n : handlers[i] = handlers[j] => i = j
    BY DEF HandlersInv
  <2>4. n \in Nat
    BY <1>0
  <2> HIDE DEF n
  <2>5. \A i \in 1..n + 1 : i \in 1..n \/ i = n + 1
    BY <2>4
  <2>6. \A i, j \in 1..n + 1 : handlers'[i] = handlers'[j] => i = j
    BY <2>1, <2>2, <2>3, <2>5
  <2> QED BY <2>1, <2>2, <2>6 DEF HandlersInv
<1>6. ASSUME NEW h \in Handlers, Unsubscribe(h)
      PROVE  HandlersInv'
  <2>1. PICK k \in DOMAIN handlers : handlers' = RemoveAt(handlers, k)
    BY <1>6 DEF Unsubscribe
  <2> DEFINE n == Len(handlers)
  <2>2. /\ n \in Nat /\ k \in 1..n
        /\ \A i, j \in 1..n : handlers[i] = handlers[j] => i = j
    BY <1>0 DEF HandlersInv
  <2>3. /\ Len(handlers') = n - 1
        /\ \A i \in 1..n - 1 : handlers'[i] = handlers[IF i < k THEN i ELSE i + 1]
    BY <1>0, <2>1, RemoveAtProperties
  <2> HIDE DEF n
  <2>4. \A i \in 1..n - 1 : (IF i < k THEN i ELSE i + 1) \in 1..n
    BY <2>2
  <2>5. \A i, j \in 1..n - 1 :
          (IF i < k THEN i ELSE i + 1) = (IF j < k THEN j ELSE j + 1) => i = j
    BY <2>2
  <2>6. \A i, j \in 1..n - 1 : handlers'[i] = handlers'[j] => i = j
    BY <2>2, <2>3, <2>4, <2>5
  <2>7. ~closed' \/ handlers' = << >>
    <3>1. ~closed
      BY <1>0, <2>2, EmptySeq DEF HandlersInv, n
    <3> QED BY <1>6, <3>1 DEF Unsubscribe
  <2> QED BY <2>3, <2>6, <2>7 DEF HandlersInv
<1>7. CASE \/ SetHandler \/ Receive \/ Handle \/ Handled
           \/ \E r \in Requests : Request(r) \/ Cancel(r) \/ Respond(r)
           \/ \E n \in Notices : Notify(n)
           \/ \E s \in ServerRequests : ServerRequest(s)
           \/ UNCHANGED vars
  <2>1. UNCHANGED <<closed, handlers>>
    BY <1>7 DEF SetHandler, Receive, Handle, Handled, Request, Cancel, Respond, Notify,
                ServerRequest, vars, connection
  <2> QED BY <1>1, <2>1
<1> QED BY <1>4, <1>5, <1>6, <1>7 DEF Next

\* Only the arrival of a notification and its handlers move the chain.
LEMMA DispatchKept ==
  ASSUME [Next]_vars
  PROVE  Receive \/ Handle \/ Handled \/ UNCHANGED dispatch
BY DEF Next, Close, StartWrite, SendSettled, SetHandler, Request, Cancel, Respond, Notify,
       ServerRequest, HandlerSettles, Subscribe, Unsubscribe, vars

LEMMA GiveBusy ==
  ASSUME NEW n \in Nat \ {0}, NEW hs \in Seq(Handlers), Give(n, hs)
  PROVE  BusyInv'
<1>1. CASE hs = << >>
  BY <1>1 DEF Give, BusyInv
<1>2. CASE hs # << >>
  <2>1. Head(hs) \in Handlers
    BY <1>2, HeadTailProperties
  <2> QED BY <1>2, <2>1, PeerAssumption DEF Give, BusyInv
<1> QED BY <1>1, <1>2

\* What is handled when a notification is given to handlers has a rank.
LEMMA RankOf ==
  ASSUME TypeOK, BusyInv
  PROVE  /\ Handle => Head(inbox) \in 1..MaxNotifications
         /\ Handled => current \in 1..MaxNotifications
         /\ MaxNotifications \in Nat
<1>1. Handle => Head(inbox) \in 1..MaxNotifications
  BY HeadTailProperties DEF Handle, TypeOK
<1>2. Handled => current \in 1..MaxNotifications
  BY DEF Handled, BusyInv, TypeOK
<1> QED BY <1>1, <1>2, PeerAssumption

LEMMA NextBusy ==
  ASSUME TypeOK, BusyInv, [Next]_vars
  PROVE  BusyInv'
<1>1. CASE Receive
  BY <1>1 DEF Receive, BusyInv
<1>2. CASE Handle
  <2>1. Head(inbox) \in Nat \ {0} /\ handlers \in Seq(Handlers) /\ Give(Head(inbox), handlers)
    BY <1>2, RankOf DEF Handle, TypeOK
  <2> QED BY <2>1, GiveBusy
<1>3. CASE Handled
  <2>1. current \in Nat \ {0} /\ rest \in Seq(Handlers) /\ << >> \in Seq(Handlers)
    BY <1>3, RankOf, EmptySeq DEF TypeOK
  <2> QED BY <1>3, <2>1, GiveBusy DEF Handled
<1>4. CASE UNCHANGED dispatch
  BY <1>4 DEF dispatch, BusyInv
<1> QED BY <1>1, <1>2, <1>3, <1>4, DispatchKept

\* The head of the queue of notifications is the first that was not handled.
LEMMA HeadOfInbox ==
  ASSUME TypeOK, InboxInv, inbox # << >>
  PROVE  /\ Head(inbox) = arrived - Len(Tail(inbox))
         /\ Len(inbox) \in Nat \ {0} /\ Len(Tail(inbox)) = Len(inbox) - 1
         /\ \A i \in 1..Len(inbox) - 1 : Tail(inbox)[i] = inbox[i + 1]
<1>1. /\ Len(inbox) \in Nat \ {0} /\ Head(inbox) = inbox[1]
      /\ Len(Tail(inbox)) = Len(inbox) - 1
      /\ \A i \in 1..Len(inbox) - 1 : Tail(inbox)[i] = inbox[i + 1]
  BY EmptySeq, HeadTailProperties, LenProperties DEF TypeOK
<1>2. 1 \in 1..Len(inbox) /\ arrived \in Nat
  BY <1>1 DEF TypeOK
<1>3. inbox[1] = arrived - Len(inbox) + 1
  BY <1>2 DEF InboxInv
<1> QED BY <1>1, <1>2, <1>3

LEMMA NextInbox ==
  ASSUME TypeOK, InboxInv, [Next]_vars
  PROVE  InboxInv'
<1>0. arrived \in Nat /\ Len(inbox) \in Nat /\ inbox \in Seq(1..MaxNotifications)
  BY LenProperties DEF TypeOK
<1>1. CASE Receive
  <2>1. arrived + 1 \in 1..MaxNotifications
    BY <1>1, PeerAssumption DEF Receive, TypeOK
  <2>2. /\ arrived' = arrived + 1 /\ inbox' = Append(inbox, arrived + 1)
        /\ Len(inbox') = Len(inbox) + 1
        /\ inbox'[Len(inbox) + 1] = arrived + 1
        /\ \A i \in 1..Len(inbox) : inbox'[i] = inbox[i]
    BY <1>0, <1>1, <2>1, AppendProperties DEF Receive
  <2> DEFINE n == Len(inbox)
  <2>3. n <= arrived /\ \A i \in 1..n : inbox[i] = arrived - n + i
    BY DEF InboxInv
  <2>4. n \in Nat
    BY <1>0
  <2> HIDE DEF n
  <2>5. Len(inbox') = n + 1 /\ inbox'[n + 1] = arrived + 1 /\ \A i \in 1..n : inbox'[i] = inbox[i]
    BY <2>2 DEF n
  <2>6. \A i \in 1..n + 1 : inbox'[i] = arrived + 1 - (n + 1) + i
    <3>1. ASSUME NEW i \in 1..n + 1
          PROVE  inbox'[i] = arrived + 1 - (n + 1) + i
      <4>1. CASE i \in 1..n
        <5>1. inbox'[i] = arrived - n + i
          BY <2>3, <2>5, <4>1
        <5> QED BY <1>0, <2>4, <5>1
      <4>2. CASE i = n + 1
        BY <1>0, <2>4, <2>5, <4>2
      <4> QED BY <2>4, <4>1, <4>2
    <3> QED BY <3>1
  <2>7. n + 1 <= arrived + 1
    BY <1>0, <2>3, <2>4
  <2>8. arrived' = arrived + 1 /\ Len(inbox') = n + 1
    BY <2>2, <2>5
  <2>9. Len(inbox') <= arrived'
    BY <2>7, <2>8
  <2>10. \A i \in 1..Len(inbox') : inbox'[i] = arrived' - Len(inbox') + i
    <3> DEFINE l == Len(inbox')
    <3>1. l = n + 1 /\ arrived' = arrived + 1
      BY <2>8
    <3> HIDE DEF l
    <3>2. \A i \in 1..l : inbox'[i] = arrived' - l + i
      BY <1>0, <2>4, <2>6, <3>1
    <3> QED BY <3>2 DEF l
  <2> QED BY <2>9, <2>10 DEF InboxInv
<1>2. CASE Handle
  <2>1. inbox # << >> /\ inbox' = Tail(inbox) /\ arrived' = arrived
    BY <1>2 DEF Handle
  <2>2. /\ Len(inbox) \in Nat \ {0} /\ Len(Tail(inbox)) = Len(inbox) - 1
        /\ \A i \in 1..Len(inbox) - 1 : Tail(inbox)[i] = inbox[i + 1]
    BY <2>1, HeadOfInbox
  <2>3. \A i \in 1..Len(inbox) - 1 : i + 1 \in 1..Len(inbox)
    BY <2>2
  <2>4. \A i \in 1..Len(inbox) - 1 : Tail(inbox)[i] = arrived - Len(inbox) + (i + 1)
    BY <2>2, <2>3 DEF InboxInv
  <2>5. \A i \in 1..Len(inbox) - 1 : Tail(inbox)[i] = arrived - (Len(inbox) - 1) + i
    BY <1>0, <2>4
  <2>6. Len(inbox) - 1 <= arrived
    BY <1>0 DEF InboxInv
  <2> QED BY <2>1, <2>2, <2>5, <2>6 DEF InboxInv
<1>3. CASE Handled
  BY <1>3 DEF Handled, InboxInv
<1>4. CASE UNCHANGED dispatch
  BY <1>4 DEF dispatch, InboxInv
<1> QED BY <1>1, <1>2, <1>3, <1>4, DispatchKept

\* A notification given to a handler comes after what was given before.
LEMMA GiveSeen ==
  ASSUME TypeOK, InTransportOrder, NEW n \in 1..MaxNotifications, NEW hs \in Seq(Handlers),
         \A i, j \in 1..Len(hs) : hs[i] = hs[j] => i = j,
         n <= arrived' - Len(inbox'),
         \A i \in 1..Len(seen) : /\ seen[i].of <= n
                                 /\ seen[i].of = n => seen[i].handler \notin ToSet(hs),
         arrived' - Len(inbox') \in Nat,
         Give(n, hs)
  PROVE  SeenInv'
<1> DEFINE Calls == [handler : Handlers, of : 1..MaxNotifications]
           call == [handler |-> Head(hs), of |-> n]
           l == Len(seen)
           top == arrived' - Len(inbox')
<1>0. MaxNotifications \in Nat
  BY PeerAssumption
<1>1. seen \in Seq(Calls) /\ l \in Nat /\ DOMAIN seen = 1..l
  BY LenProperties DEF TypeOK
<1>2. \A i \in 1..l : seen[i].of \in Nat
  <2>1. \A i \in 1..l : seen[i] \in Calls
    BY <1>1, ElementOfSeq
  <2> QED BY <2>1
<1>3. \A i, j \in 1..l : i < j => /\ seen[i].of <= seen[j].of
                                  /\ seen[i].of = seen[j].of => seen[i].handler # seen[j].handler
  BY <1>1 DEF InTransportOrder
<1>4. /\ n \in Nat /\ top \in Nat /\ n <= top
      /\ \A i \in 1..l : /\ seen[i].of <= n
                         /\ seen[i].of = n => seen[i].handler \notin ToSet(hs)
  BY <1>0
<1> HIDE DEF l, top
<1>5. \A i \in 1..l : seen[i].of <= top
  BY <1>2, <1>4
<1>6. CASE hs = << >>
  <2>1. current' = 0 /\ rest' = << >> /\ seen' = seen
    BY <1>6 DEF Give
  <2>2. Len(rest') = 0 /\ 1..0 = {}
    BY <2>1, EmptySeq
  <2>3. InTransportOrder'
    BY <2>1 DEF InTransportOrder
  <2> QED BY <1>4, <1>5, <2>1, <2>2, <2>3 DEF SeenInv, l, top
<1>7. CASE hs # << >>
  <2>0. current' = n /\ rest' = Tail(hs) /\ seen' = Append(seen, call)
    BY <1>7 DEF Give
  <2>1. /\ Head(hs) \in Handlers /\ Tail(hs) \in Seq(Handlers) /\ Head(hs) = hs[1]
        /\ Len(hs) \in Nat \ {0} /\ Len(Tail(hs)) = Len(hs) - 1
        /\ \A i \in 1..Len(hs) - 1 : Tail(hs)[i] = hs[i + 1]
        /\ DOMAIN Tail(hs) = 1..Len(hs) - 1
    BY <1>7, EmptySeq, HeadTailProperties, LenProperties
  <2>2. call \in Calls /\ call.handler = Head(hs) /\ call.of = n
    BY <2>1
  <2> HIDE DEF call, Calls
  <2>3. /\ Len(seen') = l + 1 /\ seen'[l + 1] = call
        /\ \A i \in 1..l : seen'[i] = seen[i]
        /\ DOMAIN seen' = 1..l + 1
    BY <1>1, <2>0, <2>2, AppendProperties, LenProperties DEF l
  <2>4. \A i \in 1..l + 1 : i \in 1..l \/ i = l + 1
    BY <1>1
  <2>5. \A i, j \in 1..Len(hs) - 1 : Tail(hs)[i] = Tail(hs)[j] => i = j
    <3>1. \A i \in 1..Len(hs) - 1 : i + 1 \in 1..Len(hs)
      BY <2>1
    <3>2. \A i, j \in 1..Len(hs) - 1 : hs[i + 1] = hs[j + 1] => i + 1 = j + 1
      BY <3>1
    <3> QED BY <2>1, <3>2
  <2>6. Head(hs) \notin ToSet(Tail(hs)) /\ ToSet(hs) = {Head(hs)} \cup ToSet(Tail(hs))
    <3>1. ASSUME NEW i \in 1..Len(hs) - 1, Tail(hs)[i] = Head(hs)
          PROVE  FALSE
      <4>1. i + 1 \in 1..Len(hs) /\ 1 \in 1..Len(hs) /\ i + 1 # 1
        BY <2>1
      <4> QED BY <2>1, <3>1, <4>1
    <3>2. Head(hs) \notin ToSet(Tail(hs))
      BY <2>1, <3>1 DEF ToSet
    <3> QED BY <1>7, <3>2, SetOfTail
  <2>7. \A i \in 1..l + 1 :
          /\ seen'[i].of <= top
          /\ seen'[i].of <= n
          /\ seen'[i].of = n => seen'[i].handler \notin ToSet(Tail(hs))
    BY <1>4, <1>5, <2>2, <2>3, <2>4, <2>6
  <2>8. ASSUME NEW i \in 1..l + 1, NEW j \in 1..l + 1, i < j
        PROVE  /\ seen'[i].of <= seen'[j].of
               /\ seen'[i].of = seen'[j].of => seen'[i].handler # seen'[j].handler
    <3>1. i \in 1..l
      BY <1>1, <2>8
    <3>2. CASE j \in 1..l
      BY <1>3, <2>3, <2>8, <3>1, <3>2
    <3>3. CASE j = l + 1
      BY <1>4, <2>2, <2>3, <2>6, <3>1, <3>3
    <3> QED BY <2>4, <3>2, <3>3
  <2>9. InTransportOrder'
    BY <2>3, <2>8 DEF InTransportOrder
  <2>10. \A i, j \in 1..Len(rest') : rest'[i] = rest'[j] => i = j
    BY <2>0, <2>1, <2>5
  <2>11. \A i \in 1..Len(seen') :
           /\ seen'[i].of <= top
           /\ seen'[i].of <= n
           /\ seen'[i].of = n => seen'[i].handler \notin ToSet(rest')
    BY <2>0, <2>3, <2>7
  <2> QED BY <1>4, <2>0, <2>9, <2>10, <2>11 DEF SeenInv, top
<1> QED BY <1>6, <1>7

LEMMA NextSeen ==
  ASSUME TypeOK, HandlersInv, BusyInv, InboxInv, SeenInv, [Next]_vars
  PROVE  SeenInv'
<1>0. /\ arrived \in Nat /\ Len(inbox) \in Nat /\ Len(inbox) <= arrived
      /\ inbox \in Seq(1..MaxNotifications) /\ current \in Nat
      /\ handlers \in Seq(Handlers) /\ rest \in Seq(Handlers)
  BY LenProperties DEF TypeOK, InboxInv
<1>1. CASE Receive
  <2>1. arrived + 1 \in 1..MaxNotifications
    BY <1>1, PeerAssumption DEF Receive, TypeOK
  <2>2. /\ arrived' = arrived + 1 /\ Len(inbox') = Len(inbox) + 1
        /\ UNCHANGED <<current, rest, seen>>
    BY <1>0, <1>1, <2>1, AppendProperties DEF Receive
  <2>3. arrived' - Len(inbox') = arrived - Len(inbox)
    BY <1>0, <2>2
  <2> QED BY <2>2, <2>3 DEF SeenInv, InTransportOrder
<1>2. CASE Handle
  <2> DEFINE n == Head(inbox)
  <2>1. /\ inbox # << >> /\ current = 0 /\ inbox' = Tail(inbox) /\ arrived' = arrived
        /\ Give(n, handlers)
    BY <1>2 DEF Handle
  <2>2. /\ n = arrived - Len(Tail(inbox)) /\ n \in 1..MaxNotifications
        /\ Len(Tail(inbox)) = Len(inbox) - 1
    BY <1>2, <2>1, HeadOfInbox, RankOf
  <2> HIDE DEF n
  <2>3. n \in Nat /\ n = arrived' - Len(inbox') /\ n = arrived - Len(inbox) + 1
    BY <1>0, <2>1, <2>2
  <2>4. \A i \in 1..Len(seen) : seen[i].of \in Nat
    <3>1. seen \in Seq([handler : Handlers, of : 1..MaxNotifications])
      BY DEF TypeOK
    <3>2. \A i \in 1..Len(seen) : seen[i] \in [handler : Handlers, of : 1..MaxNotifications]
      BY <3>1, ElementOfSeq
    <3> QED BY <3>2
  <2>5. \A i \in 1..Len(seen) : seen[i].of <= n /\ seen[i].of # n
    <3>1. \A i \in 1..Len(seen) : seen[i].of <= arrived - Len(inbox)
      BY DEF SeenInv
    <3> QED BY <1>0, <2>3, <2>4, <3>1
  <2>6. \A i, j \in 1..Len(handlers) : handlers[i] = handlers[j] => i = j
    BY DEF HandlersInv
  <2>7. InTransportOrder
    BY DEF SeenInv
  <2>8. n <= arrived' - Len(inbox') /\ arrived' - Len(inbox') \in Nat
    BY <2>3
  <2> QED BY <1>0, <2>1, <2>2, <2>5, <2>6, <2>7, <2>8, GiveSeen
<1>3. CASE Handled
  <2>1. /\ UNCHANGED <<arrived, inbox>>
        /\ current \in 1..MaxNotifications /\ current # 0
        /\ Give(current, rest) \/ Give(current, << >>)
    BY <1>3, RankOf DEF Handled
  <2>2. current <= arrived' - Len(inbox') /\ arrived' - Len(inbox') \in Nat
    BY <1>0, <2>1 DEF SeenInv
  <2>3. \A i \in 1..Len(seen) : /\ seen[i].of <= current
                                /\ seen[i].of = current => seen[i].handler \notin ToSet(rest)
    BY <2>1 DEF SeenInv
  <2>4. InTransportOrder /\ \A i, j \in 1..Len(rest) : rest[i] = rest[j] => i = j
    BY DEF SeenInv
  <2>5. CASE Give(current, rest)
    BY <1>0, <2>1, <2>2, <2>3, <2>4, <2>5, GiveSeen
  <2>6. CASE Give(current, << >>)
    <3>1. << >> \in Seq(Handlers) /\ Len(<< >>) = 0 /\ 1..0 = {} /\ ToSet(<< >>) = {}
      BY EmptySeq DEF ToSet
    <3>2. \A i, j \in 1..Len(<< >>) : << >>[i] = << >>[j] => i = j
      BY <3>1
    <3>3. \A i \in 1..Len(seen) :
            /\ seen[i].of <= current
            /\ seen[i].of = current => seen[i].handler \notin ToSet(<< >>)
      BY <2>3, <3>1
    <3> QED BY <2>1, <2>2, <2>4, <2>6, <3>1, <3>2, <3>3, GiveSeen
  <2> QED BY <2>1, <2>5, <2>6
<1>4. CASE UNCHANGED dispatch
  BY <1>4 DEF dispatch, SeenInv, InTransportOrder
<1> QED BY <1>1, <1>2, <1>3, <1>4, DispatchKept

-----------------------------------------------------------------------------
(* The theorems.                                                           *)

LEMMA InitInv == Init => IInv
<1> SUFFICES ASSUME Init PROVE IInv
  OBVIOUS
<1>1. TypeOK
  BY InitType
<1>2. Len(<< >>) = 0 /\ 1..0 = {} /\ ToSet(<< >>) = {}
  BY EmptySeq DEF ToSet
<1>3. NoRequestForgotten
  BY DEF Init, NoRequestForgotten
<1>4. Chain(queue, wire, order)
  BY <1>2 DEF Init, Chain, Waiting, FoundIn
<1>5. Answers(queue, sending, accepted, asked)
  BY <1>2 DEF Init, Answers
<1>6. HandlersInv /\ BusyInv /\ InboxInv
  BY <1>2 DEF Init, HandlersInv, BusyInv, InboxInv
<1>7. SeenInv
  BY <1>2 DEF Init, SeenInv, InTransportOrder
<1> QED BY <1>1, <1>3, <1>4, <1>5, <1>6, <1>7 DEF IInv

LEMMA NextInv ==
  ASSUME IInv, [Next]_vars
  PROVE  IInv'
<1> USE DEF IInv
<1>1. TypeOK'
  BY NextType
<1>2. NoRequestForgotten'
  BY NextRequests
<1>3. Chain(queue, wire, order)'
  BY NextChain
<1>4. Answers(queue, sending, accepted, asked)'
  BY NextAnswers
<1>5. HandlersInv' /\ BusyInv' /\ InboxInv'
  BY NextHandlers, NextBusy, NextInbox
<1>6. SeenInv'
  BY NextSeen
<1> QED BY <1>1, <1>2, <1>3, <1>4, <1>5, <1>6

\* The four pieces of the peer keep their invariants in every behaviour.
THEOREM Invariance == Spec => []IInv
BY InitInv, NextInv, PTL DEF Spec

\* The state has its types, whatever fails and closes (JsonRpcPeer).
THEOREM TypeCorrect == Spec => []TypeOK
<1>1. IInv => TypeOK
  BY DEF IInv
<1> QED BY <1>1, Invariance, PTL

\* A promise that has not settled is in the pending map, and a closed peer has none:
\* beginClose, fail and handleResponse leave no request without an end.
THEOREM RequestsRemembered == Spec => []NoRequestForgotten
<1>1. IInv => NoRequestForgotten
  BY DEF IInv
<1> QED BY <1>1, Invariance, PTL

\* Messages reach the transport in the order in which they were handed to
\* enqueueWrite, however many callers there are and whatever writes fail.
THEOREM ChainInOrder == Spec => []WritesInOrder
<1>1. IInv => WritesInOrder
  <2> SUFFICES ASSUME IInv, NEW i \in DOMAIN wire, NEW j \in DOMAIN wire, i < j
               PROVE  \E a, b \in DOMAIN order : a < b /\ order[a] = wire[i] /\ order[b] = wire[j]
    BY DEF WritesInOrder
  <2>1. /\ DOMAIN wire = 1..Len(wire) /\ DOMAIN order = 1..Len(order)
        /\ Len(order) \in Nat /\ Len(queue) \in Nat
    BY LenProperties DEF IInv, TypeOK
  <2>2. PICK a \in 1..Len(order) - Len(queue), b \in 1..Len(order) - Len(queue) :
          a < b /\ order[a] = wire[i] /\ order[b] = wire[j]
    <3>1. Chain(queue, wire, order)
      BY DEF IInv
    <3>2. \A k, l \in 1..Len(wire) :
            k < l => \E a, b \in 1..Len(order) - Len(queue) :
                       a < b /\ order[a] = wire[k] /\ order[b] = wire[l]
      BY <3>1 DEF Chain, FoundIn
    <3>3. i \in 1..Len(wire) /\ j \in 1..Len(wire) /\ i < j
      BY <2>1
    <3> HIDE <2>1
    <3> QED BY <3>2, <3>3
  <2>3. a \in DOMAIN order /\ b \in DOMAIN order
    BY <2>1
  <2> QED BY <2>2, <2>3
<1> QED BY <1>1, Invariance, PTL

\* A server request is never answered with a result and with an error.
THEOREM AnsweredOnce == Spec => []OneAnswer
<1>1. IInv => OneAnswer
  <2> SUFFICES ASSUME IInv, NEW s \in ServerRequests,
                      Message("result", s) \in accepted, Message("error", s) \in accepted
               PROVE  FALSE
    BY DEF OneAnswer
  <2>1. /\ IsAnswer(Message("result", s)) /\ IsAnswer(Message("error", s))
        /\ Message("result", s).of = Message("error", s).of
        /\ Message("result", s) # Message("error", s)
    <3>1. \A k : Message(k, s).kind = k /\ Message(k, s).of = s
      BY DEF Message
    <3> QED BY <3>1 DEF IsAnswer
  <2> QED BY <2>1 DEF IInv, Answers
<1> QED BY <1>1, Invariance, PTL

\* Handlers get notifications in the order of the transport, one at a time, each
\* handler each notification at most once, though handlers come, go and throw.
THEOREM HandledInOrder == Spec => []InTransportOrder
<1>1. IInv => InTransportOrder
  BY DEF IInv, SeenInv
<1> QED BY <1>1, Invariance, PTL

\* Nothing that waits when the peer closes reaches a handler any more.
THEOREM QuietOnceClosed == Spec => QuietAfterClose
<1>1. IInv /\ [Next]_vars => (closed /\ seen' # seen => current # 0 /\ current' = current)
  <2> SUFFICES ASSUME IInv, [Next]_vars, closed, seen' # seen
               PROVE  current # 0 /\ current' = current
    OBVIOUS
  <2>1. CASE Handle
    <3>1. handlers = << >> /\ Give(Head(inbox), handlers)
      BY <2>1 DEF IInv, HandlersInv, Handle
    <3> QED BY <3>1 DEF Give
  <2>2. CASE Handled
    <3>1. current # 0
      BY <2>2 DEF IInv, BusyInv, Handled
    <3>2. current' = current
      BY <2>2 DEF Handled, Give
    <3> QED BY <3>1, <3>2
  <2>3. CASE Receive \/ UNCHANGED dispatch
    BY <2>3 DEF Receive, dispatch
  <2> QED BY <2>1, <2>2, <2>3, DispatchKept
<1> QED BY <1>1, Invariance, PTL DEF Spec, QuietAfterClose

=============================================================================
