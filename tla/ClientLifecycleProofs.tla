----------------------- MODULE ClientLifecycleProofs -----------------------
(***************************************************************************)
(* Proofs about ClientLifecycle, for any numbers of calls and attempts.    *)
(***************************************************************************)
EXTENDS ClientLifecycle, TLAPS

InProgress == {"loading", "spawning", "connecting", "opened", "initializing",
               "answered", "notifying", "cleanup"}

\* One attempt at a time, the last one, and it can be aborted until it has been.
AttemptsInv ==
  /\ connectPromise # 0 =>
       /\ connectPromise = started /\ attempt[started] \in InProgress
       /\ connectPromise \in aborted <=> abortable = 0
  /\ abortable # 0 => abortable = connectPromise
  /\ \A g \in Attempts : attempt[g] \in InProgress => connectPromise = g
  /\ \A g \in Attempts : g > started => process[g] # "running" /\ g \notin aborted

\* While a stop is in progress the client has no child and nothing to abort.
StopsInv ==
  /\ stop = "none" <=> closePromise = 0
  /\ closePromise = 0 => stopping = 0
  /\ stop = "child" => stopping # 0
  /\ closePromise # 0 => child = 0 /\ abortable = 0
  /\ state = "closing" => closePromise # 0

\* The child is that of the last attempt, which is in progress or has succeeded.
ChildInv ==
  /\ child # 0 =>
       /\ child = started /\ child \notin aborted
       /\ init = child \/ connectPromise = child
       /\ \/ process[child] = "running"
          \/ process[child] = "failed" /\ attempt[child] = "spawning"
  /\ \A g \in Attempts : attempt[g] \in {"loading", "connecting", "cleanup"} => child # g

\* Without delays: the peer is that of the attempt in progress or of the response.
LiveInv ==
  late = {} =>
    /\ ConnectedIsLive
    /\ peer # 0 =>
         /\ closePromise = 0 /\ peer \notin aborted
         /\ \/ peer = init
            \/ /\ peer = connectPromise
               /\ attempt[peer] \in {"initializing", "answered", "notifying"}
    /\ connectPromise # 0 => init = 0
    /\ \A g \in Attempts : attempt[g] # "opened"
    /\ \A g \in aborted : attempt[g] # "connected"

Inv == TypeOK /\ AttemptsInv /\ StopsInv /\ ChildInv /\ ServersOwned /\ LiveInv

-----------------------------------------------------------------------------
\* What CloseClient aborts is an attempt.
LEMMA AbortsAttempts ==
  ASSUME Inv, NEW p, NEW o, CloseClient(p, child, o)
  PROVE  aborted' \subseteq Attempts
<1>1. abortable = 0 \/ abortable \in Attempts
  BY LifecycleAssumption DEF Inv, TypeOK, FieldsOK, AttemptsOK, Attempts
<1>2. aborted' = aborted \/ aborted' = aborted \cup ({abortable} \ {0})
  BY DEF CloseClient
<1>3. aborted \subseteq Attempts
  BY DEF Inv, TypeOK, FieldsOK, AttemptsOK
<1>. QED  BY <1>1, <1>2, <1>3

LEMMA CloseKeeps ==
  ASSUME Inv, Close
  PROVE  Inv'
<1>. USE LifecycleAssumption
<1>0. aborted' \subseteq Attempts  BY AbortsAttempts DEF Close
<1>1. TypeOK'
  <2>1. FieldsOK'
    BY DEF Inv, TypeOK, FieldsOK, StopsInv, Attempts, Close, CloseClient, stopVars,
           startVars
  <2>2. AttemptsOK'
    BY <1>0 DEF Inv, TypeOK, FieldsOK, AttemptsOK, StopsInv, Attempts, Close, CloseClient,
           stopVars, startVars
  <2>3. CallsOK'
    BY DEF Inv, TypeOK, Close, CloseClient, stopVars, startVars, CallsOK
  <2>. QED  BY <2>1, <2>2, <2>3 DEF TypeOK
<1>2. AttemptsInv'
  BY DEF Inv, TypeOK, FieldsOK, AttemptsOK, AttemptsInv, InProgress, Attempts, Close,
         CloseClient, stopVars, startVars
<1>3. StopsInv'
  BY DEF Inv, TypeOK, FieldsOK, StopsInv, AttemptsInv, Attempts, Close, CloseClient,
         stopVars, startVars
<1>4. ChildInv'
  BY DEF Inv, TypeOK, FieldsOK, AttemptsOK, StopsInv, AttemptsInv, ChildInv, InProgress,
         Attempts, Close, CloseClient, stopVars, startVars
<1>5. ServersOwned'
  BY DEF Inv, TypeOK, FieldsOK, AttemptsOK, StopsInv, AttemptsInv, ChildInv, ServersOwned,
         ProcessesOwned, OneServer, InProgress, Attempts, Close, CloseClient, stopVars,
         startVars
<1>6. LiveInv'
  BY DEF Inv, TypeOK, FieldsOK, AttemptsOK, StopsInv, AttemptsInv, ChildInv, LiveInv,
         ConnectedIsLive, InProgress, Attempts, Close, CloseClient, stopVars, startVars
<1>. QED  BY <1>1, <1>2, <1>3, <1>4, <1>5, <1>6 DEF Inv

LEMMA PeerClosedKeeps ==
  ASSUME Inv, PeerClosed
  PROVE  Inv'
<1>. USE LifecycleAssumption
<1>1. TypeOK'
  <2>1. FieldsOK'
    BY DEF Inv, TypeOK, FieldsOK, StopsInv, Attempts, PeerClosed, StopEnds, startVars,
           world, callVars
  <2>2. AttemptsOK'
    BY DEF Inv, TypeOK, FieldsOK, AttemptsOK, StopsInv, Attempts, PeerClosed, StopEnds,
           startVars, world, callVars
  <2>3. CallsOK'
    BY DEF Inv, TypeOK, PeerClosed, StopEnds, startVars, world, callVars, CallsOK
  <2>. QED  BY <2>1, <2>2, <2>3 DEF TypeOK
<1>2. AttemptsInv'
  BY DEF Inv, TypeOK, FieldsOK, AttemptsOK, AttemptsInv, InProgress, Attempts, PeerClosed,
         StopEnds, startVars, world, callVars
<1>3. StopsInv'
  BY DEF Inv, TypeOK, FieldsOK, StopsInv, AttemptsInv, Attempts, PeerClosed, StopEnds,
         startVars, world, callVars
<1>4. ChildInv'
  BY DEF Inv, TypeOK, FieldsOK, AttemptsOK, StopsInv, AttemptsInv, ChildInv, InProgress,
         Attempts, PeerClosed, StopEnds, startVars, world, callVars
<1>5. ServersOwned'
  BY DEF Inv, TypeOK, FieldsOK, AttemptsOK, StopsInv, AttemptsInv, ChildInv, ServersOwned,
         ProcessesOwned, OneServer, InProgress, Attempts, PeerClosed, StopEnds, startVars,
         world, callVars
<1>6. LiveInv'
  BY DEF Inv, TypeOK, FieldsOK, AttemptsOK, StopsInv, AttemptsInv, ChildInv, LiveInv,
         ConnectedIsLive, InProgress, Attempts, PeerClosed, StopEnds, startVars, world,
         callVars
<1>. QED  BY <1>1, <1>2, <1>3, <1>4, <1>5, <1>6 DEF Inv

LEMMA ChildReapedKeeps ==
  ASSUME Inv, ChildReaped
  PROVE  Inv'
<1>. USE LifecycleAssumption
<1>0. killed' \subseteq Attempts
  <2>1. stopping \in Attempts
    BY DEF Inv, TypeOK, FieldsOK, AttemptsOK, StopsInv, ChildReaped, Attempts
  <2>2. killed' = killed \/ killed' = killed \cup {stopping}
    BY DEF ChildReaped
  <2>3. killed \subseteq Attempts
    BY DEF Inv, TypeOK, FieldsOK, AttemptsOK
  <2>. QED  BY <2>1, <2>2, <2>3
<1>1. TypeOK'
  <2>1. FieldsOK'
    BY DEF Inv, TypeOK, FieldsOK, StopsInv, Attempts, ChildReaped, StopEnds, startVars,
           callVars
  <2>2. AttemptsOK'
    BY <1>0 DEF Inv, TypeOK, FieldsOK, AttemptsOK, StopsInv, Attempts, ChildReaped,
           StopEnds, startVars, callVars
  <2>3. CallsOK'
    BY DEF Inv, TypeOK, ChildReaped, StopEnds, startVars, callVars, CallsOK
  <2>. QED  BY <2>1, <2>2, <2>3 DEF TypeOK
<1>2. AttemptsInv'
  BY DEF Inv, TypeOK, FieldsOK, AttemptsOK, AttemptsInv, InProgress, Attempts,
         ChildReaped, StopEnds, startVars, callVars
<1>3. StopsInv'
  BY DEF Inv, TypeOK, FieldsOK, StopsInv, AttemptsInv, Attempts, ChildReaped, StopEnds,
         startVars, callVars
<1>4. ChildInv'
  BY DEF Inv, TypeOK, FieldsOK, AttemptsOK, StopsInv, AttemptsInv, ChildInv, InProgress,
         Attempts, ChildReaped, StopEnds, startVars, callVars
<1>5. ServersOwned'
  BY DEF Inv, TypeOK, FieldsOK, AttemptsOK, StopsInv, AttemptsInv, ChildInv, ServersOwned,
         ProcessesOwned, OneServer, InProgress, Attempts, ChildReaped, StopEnds,
         startVars, callVars
<1>6. LiveInv'
  BY DEF Inv, TypeOK, FieldsOK, AttemptsOK, StopsInv, AttemptsInv, ChildInv, LiveInv,
         ConnectedIsLive, InProgress, Attempts, ChildReaped, StopEnds, startVars, callVars
<1>. QED  BY <1>1, <1>2, <1>3, <1>4, <1>5, <1>6 DEF Inv

\* Whatever start throws: the attempt goes to its cleanup, and a stop begins or goes on.
LEMMA ThrowKeeps ==
  ASSUME Inv, NEW g \in Attempts, attempt[g] \in InProgress,
         NEW p \in 0..MaxAttempts, p = peer \/ late # {},
         Throw(g), CloseClient(p, child, open), UNCHANGED <<process, killed, callVars>>
  PROVE  Inv'
<1>. USE LifecycleAssumption
<1>0. aborted' \subseteq Attempts  BY AbortsAttempts
<1>1. TypeOK'
  <2>1. FieldsOK'
    BY DEF Inv, TypeOK, FieldsOK, StopsInv, Attempts, Throw, CloseClient, stopVars,
           callVars
  <2>2. AttemptsOK'
    <3>1. closePromise \in Nat /\ stopped + 1 \in Nat  BY DEF Inv, TypeOK, FieldsOK
    <3>2. \E n \in Nat : awaits' = [awaits EXCEPT ![g] = n]  BY <3>1 DEF Throw
    <3>3. awaits' \in [Attempts -> Nat]  BY <3>2 DEF Inv, TypeOK, AttemptsOK
    <3>. QED  BY <1>0, <3>3 DEF Inv, TypeOK, AttemptsOK, Throw, CloseClient, callVars
  <2>3. CallsOK'
    BY DEF Inv, TypeOK, Throw, CloseClient, stopVars, callVars, CallsOK
  <2>. QED  BY <2>1, <2>2, <2>3 DEF TypeOK
<1>2. AttemptsInv'
  BY DEF Inv, TypeOK, FieldsOK, AttemptsOK, AttemptsInv, InProgress, Attempts, Throw,
         CloseClient, stopVars, callVars
<1>3. StopsInv'
  BY DEF Inv, TypeOK, FieldsOK, StopsInv, AttemptsInv, Attempts, Throw, CloseClient,
         stopVars, callVars
<1>4. ChildInv'
  BY DEF Inv, TypeOK, FieldsOK, AttemptsOK, StopsInv, AttemptsInv, ChildInv, InProgress,
         Attempts, Throw, CloseClient, stopVars, callVars
<1>5. ServersOwned'
  BY DEF Inv, TypeOK, FieldsOK, AttemptsOK, StopsInv, AttemptsInv, ChildInv, ServersOwned,
         ProcessesOwned, OneServer, InProgress, Attempts, Throw, CloseClient, stopVars,
         callVars
<1>6. LiveInv'
  BY DEF Inv, TypeOK, FieldsOK, AttemptsOK, StopsInv, AttemptsInv, ChildInv, LiveInv,
         ConnectedIsLive, InProgress, Attempts, Throw, CloseClient, stopVars, callVars
<1>. QED  BY <1>1, <1>2, <1>3, <1>4, <1>5, <1>6 DEF Inv

LEMMA FailsKeeps ==
  ASSUME Inv, NEW g \in Attempts, attempt[g] \in InProgress, Fails(g), UNCHANGED callVars
  PROVE  Inv'
<1>1. peer \in 0..MaxAttempts  BY DEF Inv, TypeOK, FieldsOK
<1>. QED  BY <1>1, ThrowKeeps DEF Fails

LEMMA LoadKeeps ==
  ASSUME Inv, NEW g \in Attempts, Load(g)
  PROVE  Inv'
<1>. USE LifecycleAssumption
<1>1. attempt[g] = "loading" /\ UNCHANGED callVars  BY DEF Load
<1>2. CASE Fails(g)  BY <1>1, <1>2, FailsKeeps DEF InProgress
<1>3. CASE ~Fails(g)
  <2>0. g \notin aborted /\ closePromise = 0 /\ abortable = g /\ g = started /\ child = 0
    BY <1>3 DEF Load, Inv, TypeOK, FieldsOK, AttemptsOK, AttemptsInv, StopsInv, ChildInv,
           InProgress, Attempts
  <2>1. TypeOK'
    <3>1. FieldsOK'
      BY <1>3, <2>0 DEF Inv, TypeOK, FieldsOK, StopsInv, Attempts, Load, stopVars,
             callVars
    <3>2. AttemptsOK'
      BY <1>3, <2>0 DEF Inv, TypeOK, FieldsOK, AttemptsOK, StopsInv, Attempts, Load,
             stopVars, callVars
    <3>3. CallsOK'
      BY <1>3, <2>0 DEF Inv, TypeOK, Load, stopVars, callVars, CallsOK
    <3>. QED  BY <3>1, <3>2, <3>3 DEF TypeOK
  <2>2. AttemptsInv'
    BY <1>3, <2>0 DEF Inv, TypeOK, FieldsOK, AttemptsOK, AttemptsInv, InProgress,
           Attempts, Load, stopVars, callVars
  <2>3. StopsInv'
    BY <1>3, <2>0 DEF Inv, TypeOK, FieldsOK, StopsInv, AttemptsInv, Attempts, Load,
           stopVars, callVars
  <2>4. ChildInv'
    BY <1>3, <2>0 DEF Inv, TypeOK, FieldsOK, AttemptsOK, StopsInv, AttemptsInv, ChildInv,
           InProgress, Attempts, Load, stopVars, callVars
  <2>5. ServersOwned'
    BY <1>3, <2>0 DEF Inv, TypeOK, FieldsOK, AttemptsOK, StopsInv, AttemptsInv, ChildInv,
           ServersOwned, ProcessesOwned, OneServer, InProgress, Attempts, Load, stopVars,
           callVars
  <2>6. LiveInv'
    BY <1>3, <2>0 DEF Inv, TypeOK, FieldsOK, AttemptsOK, StopsInv, AttemptsInv, ChildInv,
           LiveInv, ConnectedIsLive, InProgress, Attempts, Load, stopVars, callVars
  <2>. QED  BY <2>1, <2>2, <2>3, <2>4, <2>5, <2>6 DEF Inv
<1>. QED  BY <1>2, <1>3

LEMMA PeerMadeKeeps ==
  ASSUME Inv, NEW g \in Attempts, attempt[g] \in {"spawning", "connecting"},
         g \notin aborted, closePromise = 0, child = g => process[g] # "failed",
         PeerMade(g), UNCHANGED <<call, on, closes>>
  PROVE  Inv'
<1>. USE LifecycleAssumption
<1>1. TypeOK'
  <2>1. FieldsOK'
    BY DEF Inv, TypeOK, FieldsOK, StopsInv, Attempts, PeerMade, stopVars
  <2>2. AttemptsOK'
    BY DEF Inv, TypeOK, FieldsOK, AttemptsOK, StopsInv, Attempts, PeerMade, stopVars
  <2>3. CallsOK'
    BY DEF Inv, TypeOK, PeerMade, stopVars, CallsOK
  <2>. QED  BY <2>1, <2>2, <2>3 DEF TypeOK
<1>2. AttemptsInv'
  BY DEF Inv, TypeOK, FieldsOK, AttemptsOK, AttemptsInv, InProgress, Attempts, PeerMade,
         stopVars
<1>3. StopsInv'
  BY DEF Inv, TypeOK, FieldsOK, StopsInv, AttemptsInv, Attempts, PeerMade, stopVars
<1>4. ChildInv'
  BY DEF Inv, TypeOK, FieldsOK, AttemptsOK, StopsInv, AttemptsInv, ChildInv, InProgress,
         Attempts, PeerMade, stopVars
<1>5. ServersOwned'
  BY DEF Inv, TypeOK, FieldsOK, AttemptsOK, StopsInv, AttemptsInv, ChildInv, ServersOwned,
         ProcessesOwned, OneServer, InProgress, Attempts, PeerMade, stopVars
<1>6. LiveInv'
  BY DEF Inv, TypeOK, FieldsOK, AttemptsOK, StopsInv, AttemptsInv, ChildInv, LiveInv,
         ConnectedIsLive, InProgress, Attempts, PeerMade, stopVars
<1>. QED  BY <1>1, <1>2, <1>3, <1>4, <1>5, <1>6 DEF Inv

LEMMA SpawnedKeeps ==
  ASSUME Inv, NEW g \in Attempts, Spawned(g)
  PROVE  Inv'
<1>1. attempt[g] = "spawning" /\ UNCHANGED <<call, on, closes>>  BY DEF Spawned
<1>2. CASE Fails(g) /\ UNCHANGED late  BY <1>1, <1>2, FailsKeeps DEF InProgress, callVars
<1>3. CASE process[g] # "failed" /\ child = g /\ PeerMade(g)
  <2>1. g \notin aborted /\ closePromise = 0
    BY <1>3 DEF Inv, StopsInv, ChildInv, Attempts
  <2>. QED  BY <1>1, <1>3, <2>1, PeerMadeKeeps
<1>. QED  BY <1>2, <1>3 DEF Spawned

LEMMA SocketOpenedKeeps ==
  ASSUME Inv, NEW g \in Attempts, SocketOpened(g)
  PROVE  Inv'
<1>1. attempt[g] = "connecting" /\ UNCHANGED <<call, on, closes>>  BY DEF SocketOpened
<1>2. CASE Fails(g) /\ UNCHANGED late  BY <1>1, <1>2, FailsKeeps DEF InProgress, callVars
<1>3. CASE g \notin aborted /\ PeerMade(g)
  <2>1. closePromise = 0 /\ child # g
    BY <1>1, <1>3 DEF Inv, AttemptsInv, StopsInv, ChildInv, InProgress, Attempts
  <2>. QED  BY <1>1, <1>3, <2>1, PeerMadeKeeps
<1>. QED  BY <1>2, <1>3 DEF SocketOpened

LEMMA ConfigureKeeps ==
  ASSUME Inv, NEW g \in Attempts, Configure(g)
  PROVE  Inv'
<1>. USE LifecycleAssumption
<1>1. attempt[g] = "opened" /\ UNCHANGED callVars  BY DEF Configure
<1>2. late # {}  BY <1>1 DEF Inv, LiveInv
<1>3. CASE g \notin open
  <2>1. Throw(g) /\ CloseClient(g, child, open) /\ UNCHANGED <<process, killed>>
    BY <1>3 DEF Configure
  <2>2. g \in 0..MaxAttempts  BY DEF Attempts
  <2>. QED  BY <1>1, <1>2, <2>1, <2>2, ThrowKeeps DEF InProgress
<1>4. CASE g \in open
  <2>1. TypeOK'
    <3>1. FieldsOK'
      <4>1. g \in 0..MaxAttempts  BY DEF Attempts
      <4>. QED  BY <1>4, <4>1 DEF Inv, TypeOK, FieldsOK, Configure, stopVars, callVars
    <3>2. AttemptsOK'
      BY <1>1, <1>2, <1>4 DEF Inv, TypeOK, FieldsOK, AttemptsOK, StopsInv, Attempts,
             Configure, stopVars, world, callVars
    <3>3. CallsOK'
      BY <1>1, <1>2, <1>4 DEF Inv, TypeOK, Configure, stopVars, world, callVars, CallsOK
    <3>. QED  BY <3>1, <3>2, <3>3 DEF TypeOK
  <2>2. AttemptsInv'
    BY <1>1, <1>2, <1>4 DEF Inv, TypeOK, FieldsOK, AttemptsOK, AttemptsInv, InProgress,
           Attempts, Configure, stopVars, world, callVars
  <2>3. StopsInv'
    BY <1>1, <1>2, <1>4 DEF Inv, TypeOK, FieldsOK, StopsInv, AttemptsInv, Attempts,
           Configure, stopVars, world, callVars
  <2>4. ChildInv'
    BY <1>1, <1>2, <1>4 DEF Inv, TypeOK, FieldsOK, AttemptsOK, StopsInv, AttemptsInv,
           ChildInv, InProgress, Attempts, Configure, stopVars, world, callVars
  <2>5. ServersOwned'
    BY <1>1, <1>2, <1>4 DEF Inv, TypeOK, FieldsOK, AttemptsOK, StopsInv, AttemptsInv,
           ChildInv, ServersOwned, ProcessesOwned, OneServer, InProgress, Attempts,
           Configure, stopVars, world, callVars
  <2>6. LiveInv'
    BY <1>1, <1>2, <1>4 DEF Inv, TypeOK, FieldsOK, AttemptsOK, StopsInv, AttemptsInv,
           ChildInv, LiveInv, ConnectedIsLive, InProgress, Attempts, Configure, stopVars,
           world, callVars
  <2>. QED  BY <2>1, <2>2, <2>3, <2>4, <2>5, <2>6 DEF Inv
<1>. QED  BY <1>3, <1>4

\* The requests of start are answered.
LEMMA MovesKeep ==
  ASSUME Inv, NEW g \in Attempts, NEW x \in {"answered", "notifying"},
         attempt[g] \in {"initializing", "answered"}, attempt' = [attempt EXCEPT ![g] = x],
         UNCHANGED <<fields, stopVars, connectPromise, awaits, started, world, callVars>>
  PROVE  Inv'
<1>. USE LifecycleAssumption
<1>1. TypeOK'
  <2>1. FieldsOK'
    BY DEF Inv, TypeOK, FieldsOK, StopsInv, Attempts, vars, fields, stopVars, startVars,
           world, callVars
  <2>2. AttemptsOK'
    BY DEF Inv, TypeOK, FieldsOK, AttemptsOK, StopsInv, Attempts, vars, fields, stopVars,
           startVars, world, callVars
  <2>3. CallsOK'
    BY DEF Inv, TypeOK, vars, fields, stopVars, startVars, world, callVars, CallsOK
  <2>. QED  BY <2>1, <2>2, <2>3 DEF TypeOK
<1>2. AttemptsInv'
  BY DEF Inv, TypeOK, FieldsOK, AttemptsOK, AttemptsInv, InProgress, Attempts, vars,
         fields, stopVars, startVars, world, callVars
<1>3. StopsInv'
  BY DEF Inv, TypeOK, FieldsOK, StopsInv, AttemptsInv, Attempts, vars, fields, stopVars,
         startVars, world, callVars
<1>4. ChildInv'
  BY DEF Inv, TypeOK, FieldsOK, AttemptsOK, StopsInv, AttemptsInv, ChildInv, InProgress,
         Attempts, vars, fields, stopVars, startVars, world, callVars
<1>5. ServersOwned'
  BY DEF Inv, TypeOK, FieldsOK, AttemptsOK, StopsInv, AttemptsInv, ChildInv, ServersOwned,
         ProcessesOwned, OneServer, InProgress, Attempts, vars, fields, stopVars,
         startVars, world, callVars
<1>6. LiveInv'
  BY DEF Inv, TypeOK, FieldsOK, AttemptsOK, StopsInv, AttemptsInv, ChildInv, LiveInv,
         ConnectedIsLive, InProgress, Attempts, vars, fields, stopVars, startVars, world,
         callVars
<1>. QED  BY <1>1, <1>2, <1>3, <1>4, <1>5, <1>6 DEF Inv

LEMMA AnsweredKeeps ==
  ASSUME Inv, NEW g \in Attempts, Answered(g)
  PROVE  Inv'
<1>1. attempt[g] = "initializing" /\ UNCHANGED callVars  BY DEF Answered
<1>2. CASE Fails(g)  BY <1>1, <1>2, FailsKeeps DEF InProgress
<1>3. CASE ~Fails(g)
  <2>1. /\ attempt' = [attempt EXCEPT ![g] = "answered"]
        /\ UNCHANGED <<fields, stopVars, connectPromise, awaits, started, world>>
    BY <1>3 DEF Answered
  <2>. QED  BY <1>1, <2>1, MovesKeep
<1>. QED  BY <1>2, <1>3

LEMMA NotifyKeeps ==
  ASSUME Inv, NEW g \in Attempts, Notify(g)
  PROVE  Inv'
<1>1. attempt[g] = "answered" /\ UNCHANGED callVars  BY DEF Notify
<1>2. CASE Fails(g)  BY <1>1, <1>2, FailsKeeps DEF InProgress
<1>3. CASE ~Fails(g)
  <2>1. /\ attempt' = [attempt EXCEPT ![g] = "notifying"]
        /\ UNCHANGED <<fields, stopVars, connectPromise, awaits, started, world>>
    BY <1>3 DEF Notify
  <2>. QED  BY <1>1, <2>1, MovesKeep
<1>. QED  BY <1>2, <1>3

LEMMA NotifiedKeeps ==
  ASSUME Inv, NEW g \in Attempts, Notified(g)
  PROVE  Inv'
<1>. USE LifecycleAssumption
<1>1. attempt[g] = "notifying" /\ UNCHANGED <<call, on, closes>>  BY DEF Notified
<1>2. CASE Fails(g) /\ UNCHANGED late  BY <1>1, <1>2, FailsKeeps DEF InProgress, callVars
<1>3. CASE ~(Fails(g) /\ UNCHANGED late)
  <2>0. late' # {} \/ (late = {} /\ late' = {} /\ peer = g /\ g \notin aborted)
    BY <1>1, <1>3 DEF Notified, Inv, LiveInv, ConnectedIsLive, Attempts
  <2>1. TypeOK'
    <3>1. FieldsOK'
      <4>1. g \in 0..MaxAttempts  BY DEF Attempts
      <4>. QED  BY <1>1, <1>3, <4>1 DEF Inv, TypeOK, FieldsOK, Notified, Settled, stopVars
    <3>2. AttemptsOK'
      BY <1>1, <1>3, <2>0 DEF Inv, TypeOK, FieldsOK, AttemptsOK, StopsInv, Attempts,
             Notified, Settled, stopVars, world
    <3>3. CallsOK'
      BY <1>1, <1>3, <2>0 DEF Inv, TypeOK, Notified, Settled, stopVars, world, CallsOK
    <3>. QED  BY <3>1, <3>2, <3>3 DEF TypeOK
  <2>2. AttemptsInv'
    BY <1>1, <1>3, <2>0 DEF Inv, TypeOK, FieldsOK, AttemptsOK, AttemptsInv, InProgress,
           Attempts, Notified, Settled, stopVars, world
  <2>3. StopsInv'
    BY <1>1, <1>3, <2>0 DEF Inv, TypeOK, FieldsOK, StopsInv, AttemptsInv, Attempts,
           Notified, Settled, stopVars, world
  <2>4. ChildInv'
    BY <1>1, <1>3, <2>0 DEF Inv, TypeOK, FieldsOK, AttemptsOK, StopsInv, AttemptsInv,
           ChildInv, InProgress, Attempts, Notified, Settled, stopVars, world
  <2>5. ServersOwned'
    BY <1>1, <1>3, <2>0 DEF Inv, TypeOK, FieldsOK, AttemptsOK, StopsInv, AttemptsInv,
           ChildInv, ServersOwned, ProcessesOwned, OneServer, InProgress, Attempts,
           Notified, Settled, stopVars, world
  <2>6. LiveInv'
    <3>1. CASE late' # {}  BY <3>1 DEF LiveInv, ConnectedIsLive
    <3>2. CASE late = {} /\ late' = {} /\ peer = g /\ g \notin aborted
      <4>1. /\ connectPromise = g /\ closePromise = 0 /\ g # 0
            /\ open = {g}
        BY <1>1, <3>2 DEF Inv, TypeOK, AttemptsOK, AttemptsInv, LiveInv, ConnectedIsLive,
               InProgress, Attempts
      <4>2. /\ init' = g /\ state' = "connected" /\ connectPromise' = 0
            /\ attempt' = [attempt EXCEPT ![g] = "connected"]
            /\ peer' = g /\ open' = open /\ aborted' = aborted /\ closePromise' = 0
        BY <1>3, <3>2, <4>1 DEF Notified, Settled, stopVars, world
      <4>3. ConnectedIsLive'  BY <4>1, <4>2 DEF ConnectedIsLive
      <4>4. /\ \A h \in Attempts : attempt'[h] # "opened"
            /\ \A h \in aborted : attempt'[h] # "connected"
        BY <3>2, <4>1, <4>2 DEF Inv, LiveInv, TypeOK, AttemptsOK
      <4>. QED  BY <3>2, <4>1, <4>2, <4>3, <4>4 DEF LiveInv
    <3>. QED  BY <2>0, <3>1, <3>2
  <2>. QED  BY <2>1, <2>2, <2>3, <2>4, <2>5, <2>6 DEF Inv
<1>. QED  BY <1>2, <1>3

LEMMA CleanedUpKeeps ==
  ASSUME Inv, NEW g \in Attempts, CleanedUp(g)
  PROVE  Inv'
<1>. USE LifecycleAssumption
<1>1. TypeOK'
  <2>1. FieldsOK'
    BY DEF Inv, TypeOK, FieldsOK, StopsInv, Attempts, CleanedUp, Settled, stopVars, world,
           callVars
  <2>2. AttemptsOK'
    BY DEF Inv, TypeOK, FieldsOK, AttemptsOK, StopsInv, Attempts, CleanedUp, Settled,
           stopVars, world, callVars
  <2>3. CallsOK'
    BY DEF Inv, TypeOK, CleanedUp, Settled, stopVars, world, callVars, CallsOK
  <2>. QED  BY <2>1, <2>2, <2>3 DEF TypeOK
<1>2. AttemptsInv'
  BY DEF Inv, TypeOK, FieldsOK, AttemptsOK, AttemptsInv, InProgress, Attempts, CleanedUp,
         Settled, stopVars, world, callVars
<1>3. StopsInv'
  BY DEF Inv, TypeOK, FieldsOK, StopsInv, AttemptsInv, Attempts, CleanedUp, Settled,
         stopVars, world, callVars
<1>4. ChildInv'
  BY DEF Inv, TypeOK, FieldsOK, AttemptsOK, StopsInv, AttemptsInv, ChildInv, InProgress,
         Attempts, CleanedUp, Settled, stopVars, world, callVars
<1>5. ServersOwned'
  BY DEF Inv, TypeOK, FieldsOK, AttemptsOK, StopsInv, AttemptsInv, ChildInv, ServersOwned,
         ProcessesOwned, OneServer, InProgress, Attempts, CleanedUp, Settled, stopVars,
         world, callVars
<1>6. LiveInv'
  BY DEF Inv, TypeOK, FieldsOK, AttemptsOK, StopsInv, AttemptsInv, ChildInv, LiveInv,
         ConnectedIsLive, InProgress, Attempts, CleanedUp, Settled, stopVars, world,
         callVars
<1>. QED  BY <1>1, <1>2, <1>3, <1>4, <1>5, <1>6 DEF Inv

LEMMA PeerLeavesKeeps ==
  ASSUME Inv, NEW g \in Attempts, PeerLeaves(g)
  PROVE  Inv'
<1>. USE LifecycleAssumption
<1>0. aborted' \subseteq Attempts
  <2>1. aborted' = aborted \/ CloseClient(0, child, open \ {g})
    BY DEF PeerLeaves, PeerLost
  <2>. QED  BY <2>1, AbortsAttempts DEF Inv, TypeOK, FieldsOK, AttemptsOK
<1>1. TypeOK'
  <2>1. FieldsOK'
    BY DEF Inv, TypeOK, FieldsOK, StopsInv, Attempts, PeerLeaves, PeerLost, CloseClient,
           fields, stopVars, startVars, callVars
  <2>2. AttemptsOK'
    BY <1>0 DEF Inv, TypeOK, FieldsOK, AttemptsOK, StopsInv, Attempts, PeerLeaves,
           PeerLost, CloseClient, fields, stopVars, startVars, callVars
  <2>3. CallsOK'
    BY DEF Inv, TypeOK, PeerLeaves, PeerLost, CloseClient, fields, stopVars, startVars,
           callVars, CallsOK
  <2>. QED  BY <2>1, <2>2, <2>3 DEF TypeOK
<1>2. AttemptsInv'
  BY DEF Inv, TypeOK, FieldsOK, AttemptsOK, AttemptsInv, InProgress, Attempts, PeerLeaves,
         PeerLost, CloseClient, fields, stopVars, startVars, callVars
<1>3. StopsInv'
  BY DEF Inv, TypeOK, FieldsOK, StopsInv, AttemptsInv, Attempts, PeerLeaves, PeerLost,
         CloseClient, fields, stopVars, startVars, callVars
<1>4. ChildInv'
  BY DEF Inv, TypeOK, FieldsOK, AttemptsOK, StopsInv, AttemptsInv, ChildInv, InProgress,
         Attempts, PeerLeaves, PeerLost, CloseClient, fields, stopVars, startVars,
         callVars
<1>5. ServersOwned'
  BY DEF Inv, TypeOK, FieldsOK, AttemptsOK, StopsInv, AttemptsInv, ChildInv, ServersOwned,
         ProcessesOwned, OneServer, InProgress, Attempts, PeerLeaves, PeerLost,
         CloseClient, fields, stopVars, startVars, callVars
<1>6. LiveInv'
  BY DEF Inv, TypeOK, FieldsOK, AttemptsOK, StopsInv, AttemptsInv, ChildInv, LiveInv,
         ConnectedIsLive, InProgress, Attempts, PeerLeaves, PeerLost, CloseClient, fields,
         stopVars, startVars, callVars
<1>. QED  BY <1>1, <1>2, <1>3, <1>4, <1>5, <1>6 DEF Inv

LEMMA ExitsKeeps ==
  ASSUME Inv, NEW g \in Attempts, Exits(g)
  PROVE  Inv'
<1>. USE LifecycleAssumption
<1>1. TypeOK'
  <2>1. FieldsOK'
    BY DEF Inv, TypeOK, FieldsOK, StopsInv, Attempts, Exits, fields, stopVars, startVars,
           callVars
  <2>2. AttemptsOK'
    BY DEF Inv, TypeOK, FieldsOK, AttemptsOK, StopsInv, Attempts, Exits, fields, stopVars,
           startVars, callVars
  <2>3. CallsOK'
    BY DEF Inv, TypeOK, Exits, fields, stopVars, startVars, callVars, CallsOK
  <2>. QED  BY <2>1, <2>2, <2>3 DEF TypeOK
<1>2. AttemptsInv'
  BY DEF Inv, TypeOK, FieldsOK, AttemptsOK, AttemptsInv, InProgress, Attempts, Exits,
         fields, stopVars, startVars, callVars
<1>3. StopsInv'
  BY DEF Inv, TypeOK, FieldsOK, StopsInv, AttemptsInv, Attempts, Exits, fields, stopVars,
         startVars, callVars
<1>4. ChildInv'
  BY DEF Inv, TypeOK, FieldsOK, AttemptsOK, StopsInv, AttemptsInv, ChildInv, InProgress,
         Attempts, Exits, fields, stopVars, startVars, callVars
<1>5. ServersOwned'
  BY DEF Inv, TypeOK, FieldsOK, AttemptsOK, StopsInv, AttemptsInv, ChildInv, ServersOwned,
         ProcessesOwned, OneServer, InProgress, Attempts, Exits, fields, stopVars,
         startVars, callVars
<1>6. LiveInv'
  BY DEF Inv, TypeOK, FieldsOK, AttemptsOK, StopsInv, AttemptsInv, ChildInv, LiveInv,
         ConnectedIsLive, InProgress, Attempts, Exits, fields, stopVars, startVars,
         callVars
<1>. QED  BY <1>1, <1>2, <1>3, <1>4, <1>5, <1>6 DEF Inv

\* What a call of connect waits for concerns no one else.
LEMMA OthersKeep ==
  ASSUME Inv, UNCHANGED <<fields, stopVars, startVars, world, closes, late>>,
         CallsOK'
  PROVE  Inv'
<1>. USE LifecycleAssumption
<1>1. TypeOK'
  <2>1. FieldsOK'
    BY DEF Inv, TypeOK, FieldsOK, StopsInv, Attempts, vars, fields, stopVars, startVars,
           world, callVars
  <2>2. AttemptsOK'
    BY DEF Inv, TypeOK, FieldsOK, AttemptsOK, StopsInv, Attempts, vars, fields, stopVars,
           startVars, world, callVars
  <2>3. CallsOK'
    OBVIOUS
  <2>. QED  BY <2>1, <2>2, <2>3 DEF TypeOK
<1>2. AttemptsInv'
  BY DEF Inv, TypeOK, FieldsOK, AttemptsOK, AttemptsInv, InProgress, Attempts, vars,
         fields, stopVars, startVars, world, callVars
<1>3. StopsInv'
  BY DEF Inv, TypeOK, FieldsOK, StopsInv, AttemptsInv, Attempts, vars, fields, stopVars,
         startVars, world, callVars
<1>4. ChildInv'
  BY DEF Inv, TypeOK, FieldsOK, AttemptsOK, StopsInv, AttemptsInv, ChildInv, InProgress,
         Attempts, vars, fields, stopVars, startVars, world, callVars
<1>5. ServersOwned'
  BY DEF Inv, TypeOK, FieldsOK, AttemptsOK, StopsInv, AttemptsInv, ChildInv, ServersOwned,
         ProcessesOwned, OneServer, InProgress, Attempts, vars, fields, stopVars,
         startVars, world, callVars
<1>6. LiveInv'
  BY DEF Inv, TypeOK, FieldsOK, AttemptsOK, StopsInv, AttemptsInv, ChildInv, LiveInv,
         ConnectedIsLive, InProgress, Attempts, vars, fields, stopVars, startVars, world,
         callVars
<1>. QED  BY <1>1, <1>2, <1>3, <1>4, <1>5, <1>6 DEF Inv

LEMMA EnterKeeps ==
  ASSUME Inv, NEW c \in Callers, Enter(c), UNCHANGED <<stopVars, world, closes, late>>
  PROVE  Inv'
<1>. USE LifecycleAssumption
<1>1. CASE UNCHANGED <<fields, startVars>>
  <2>1. init \in Nat /\ closePromise \in Nat /\ connectPromise \in Nat /\ started + 1 \in Nat
    BY DEF Inv, TypeOK, FieldsOK
  <2>2. \E x \in {"closing", "attached", "resolved"}, n \in Nat :
          call' = [call EXCEPT ![c] = x] /\ on' = [on EXCEPT ![c] = n]
    BY <2>1 DEF Enter
  <2>3. CallsOK'
    BY <2>2 DEF Inv, TypeOK, CallsOK
  <2>. QED  BY <1>1, <2>3, OthersKeep
<1>2. CASE ~UNCHANGED <<fields, startVars>>
  <2>0. init = 0 /\ closePromise = 0 /\ connectPromise = 0 /\ started + 1 \in Attempts
    BY <1>2 DEF Enter, Inv, TypeOK, FieldsOK, AttemptsOK, Attempts
  <2>1. TypeOK'
    <3>1. FieldsOK'
      BY <1>2, <2>0 DEF Inv, TypeOK, FieldsOK, StopsInv, Attempts, Enter, fields,
             stopVars, startVars, world
    <3>2. AttemptsOK'
      BY <1>2, <2>0 DEF Inv, TypeOK, FieldsOK, AttemptsOK, StopsInv, Attempts, Enter,
             fields, stopVars, startVars, world
    <3>3. CallsOK'
      <4>1. /\ call' = [call EXCEPT ![c] = "attached"]
            /\ on' = [on EXCEPT ![c] = started + 1] /\ started + 1 \in Nat
        BY <1>2, <2>0 DEF Enter, Attempts
      <4>. QED  BY <4>1 DEF Inv, TypeOK, CallsOK
    <3>. QED  BY <3>1, <3>2, <3>3 DEF TypeOK
  <2>2. AttemptsInv'
    BY <1>2, <2>0 DEF Inv, TypeOK, FieldsOK, AttemptsOK, AttemptsInv, InProgress,
           Attempts, Enter, fields, stopVars, startVars, world
  <2>3. StopsInv'
    BY <1>2, <2>0 DEF Inv, TypeOK, FieldsOK, StopsInv, AttemptsInv, Attempts, Enter,
           fields, stopVars, startVars, world
  <2>4. ChildInv'
    BY <1>2, <2>0 DEF Inv, TypeOK, FieldsOK, AttemptsOK, StopsInv, AttemptsInv, ChildInv,
           InProgress, Attempts, Enter, fields, stopVars, startVars, world
  <2>5. ServersOwned'
    BY <1>2, <2>0 DEF Inv, TypeOK, FieldsOK, AttemptsOK, StopsInv, AttemptsInv, ChildInv,
           ServersOwned, ProcessesOwned, OneServer, InProgress, Attempts, Enter, fields,
           stopVars, startVars, world
  <2>6. LiveInv'
    BY <1>2, <2>0 DEF Inv, TypeOK, FieldsOK, AttemptsOK, StopsInv, AttemptsInv, ChildInv,
           LiveInv, ConnectedIsLive, InProgress, Attempts, Enter, fields, stopVars,
           startVars, world
  <2>. QED  BY <2>1, <2>2, <2>3, <2>4, <2>5, <2>6 DEF Inv
<1>. QED  BY <1>1, <1>2

LEMMA CallsKeep ==
  ASSUME Inv, NEW c \in Callers, Connect(c) \/ Awaited(c)
  PROVE  Inv'
<1>1. CASE Connect(c)  BY <1>1, EnterKeeps DEF Connect
<1>2. CASE InterruptedAwaited(c)  BY <1>2, EnterKeeps DEF InterruptedAwaited
<1>3. CASE CloseAwaited(c)
  <2>1. CASE connectPromise = 0  BY <1>3, <2>1, EnterKeeps DEF CloseAwaited
  <2>2. CASE connectPromise # 0
    <3>1. CallsOK'
      <4>1. connectPromise \in Nat  BY DEF Inv, TypeOK, FieldsOK
      <4>. QED  BY <1>3, <2>2, <4>1 DEF CloseAwaited, Inv, TypeOK, CallsOK
    <3>. QED  BY <1>3, <2>2, <3>1, OthersKeep DEF CloseAwaited
  <2>. QED  BY <2>1, <2>2
<1>4. CASE AttemptAwaited(c)
  <2>1. CallsOK'
    BY <1>4 DEF AttemptAwaited, Inv, TypeOK, CallsOK
  <2>. QED  BY <1>4, <2>1, OthersKeep DEF AttemptAwaited
<1>. QED  BY <1>1, <1>2, <1>3, <1>4 DEF Awaited

LEMMA Initially == Init => Inv
<1>. SUFFICES ASSUME Init PROVE Inv  OBVIOUS
<1>. USE LifecycleAssumption DEF Init
<1>1. TypeOK  BY DEF TypeOK, FieldsOK, AttemptsOK, CallsOK, Attempts
<1>2. AttemptsInv  BY DEF AttemptsInv, InProgress, Attempts
<1>3. StopsInv /\ ChildInv  BY DEF StopsInv, ChildInv, Attempts
<1>4. ServersOwned  BY DEF ServersOwned, ProcessesOwned, OneServer, Attempts
<1>5. LiveInv  BY DEF LiveInv, ConnectedIsLive, Attempts
<1>. QED  BY <1>1, <1>2, <1>3, <1>4, <1>5 DEF Inv

LEMMA NextKeeps == ASSUME Inv, [Next]_vars PROVE Inv'
<1>1. CASE Close  BY <1>1, CloseKeeps
<1>2. CASE PeerClosed \/ ChildReaped  BY <1>2, PeerClosedKeeps, ChildReapedKeeps
<1>3. ASSUME NEW g \in Attempts, Start(g) PROVE Inv'
  BY <1>3, LoadKeeps, SpawnedKeeps, SocketOpenedKeeps, ConfigureKeeps, AnsweredKeeps,
         NotifyKeeps, NotifiedKeeps, CleanedUpKeeps DEF Start
<1>4. ASSUME NEW g \in Attempts, PeerLeaves(g) \/ Exits(g) PROVE Inv'
  BY <1>4, PeerLeavesKeeps, ExitsKeeps
<1>5. ASSUME NEW c \in Callers, Connect(c) \/ Awaited(c) PROVE Inv'
  BY <1>5, CallsKeep
<1>6. CASE UNCHANGED vars
  <2>1. CallsOK'  BY <1>6 DEF vars, callVars, Inv, TypeOK, CallsOK
  <2>. QED  BY <1>6, <2>1, OthersKeep DEF vars, callVars
<1>. QED  BY <1>1, <1>2, <1>3, <1>4, <1>5, <1>6 DEF Next

-----------------------------------------------------------------------------
\* All of the above holds of every reachable state.
THEOREM LifecycleInvariance == Spec => []Inv
BY Initially, NextKeeps, PTL DEF Spec

\* At most one app-server runs that was not killed, and the client or a stop knows it,
\* whatever connects, closes, losses and exits come in whichever order.
THEOREM ServersAreOwned == Spec => []ServersOwned
<1>1. Inv => ServersOwned  BY DEF Inv
<1>. QED  BY <1>1, LifecycleInvariance, PTL

\* Without delays, the client has a response exactly while it is connected, through the
\* peer it holds, and no other connection is open (start, stop, handlePeerClose, handleExit).
THEOREM ConnectedMeansLive == Spec => []ConnectedIsLive
<1>1. Inv => ConnectedIsLive  BY DEF Inv, LiveInv, ConnectedIsLive
<1>. QED  BY <1>1, LifecycleInvariance, PTL

\* Without delays, an attempt that close interrupts does not succeed (start, openPeer).
THEOREM InterruptionRejects == Spec => []PromptConnectRejects
<1>1. Inv => PromptConnectRejects
  BY DEF Inv, LiveInv, PromptConnectRejects, InterruptedConnectRejects
<1>. QED  BY <1>1, LifecycleInvariance, PTL
=============================================================================
