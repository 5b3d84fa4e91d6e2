----------------------- MODULE ThreadOperationsProofs -----------------------
(***************************************************************************)
(* The coordinator is a fair lock, and the operations of the client keep   *)
(* to its protocol, so that what is proved of it holds of startTurn and    *)
(* startGoal, for every number of threads, users and attempts; and the     *)
(* check of startTurn is good for as long as its request is in flight.     *)
(***************************************************************************)
EXTENDS ThreadOperations, TLAPS

-----------------------------------------------------------------------------
(* The coordinator: its chain of promises is a fair lock, for every set of *)
(* threads and every number of calls.                                      *)

LEMMA LockInit == Coord!CoordinatorAssumption /\ Coord!Init => Coord!IInv
BY DEF Coord!CoordinatorAssumption, Coord!Init, Coord!IInv, Coord!TypeOK,
       Coord!TicketsDistinct, Coord!Chained, Coord!TailsLive, Coord!Unfinished

LEMMA LockRun ==
  ASSUME Coord!CoordinatorAssumption, Coord!IInv, NEW c \in Calls, Coord!Run(c)
  PROVE  Coord!IInv'
<1> USE DEF Coord!CoordinatorAssumption, Coord!IInv, Coord!TypeOK, Coord!Run
<1>1. /\ phase'[c] = "waiting" /\ ticket'[c] = calls + 1 /\ pred'[c] = tails[key[c]]
      /\ \A d \in Calls \ {c} : /\ phase'[d] = phase[d]
                                /\ ticket'[d] = ticket[d]
                                /\ pred'[d] = pred[d]
      /\ tails'[key[c]] = c
      /\ \A k \in Threads \ {key[c]} : tails'[k] = tails[k]
      /\ key' = key /\ calls' = calls + 1 /\ calls \in Nat
  OBVIOUS
<1>2. Coord!TypeOK'
  OBVIOUS
<1>3. Coord!TicketsDistinct'
  BY <1>1 DEF Coord!TicketsDistinct
<1>4. Coord!TailsLive'
  BY <1>1 DEF Coord!TailsLive, Coord!Unfinished
<1>5. ~Coord!Unfinished(c) /\ \A d \in Calls : Coord!Unfinished(d) => ticket[d] <= calls
  BY DEF Coord!TicketsDistinct, Coord!Unfinished
<1>6. \A d \in Calls \ {c} : Coord!Unfinished(d)' <=> Coord!Unfinished(d)
  BY <1>1 DEF Coord!Unfinished
<1>7. Coord!Chained'
  <2>1. ASSUME NEW d \in Calls, Coord!Unfinished(d)'
        PROVE  /\ tails'[key[d]] \in Calls
               /\ Coord!Unfinished(tails[key[d]])'
               /\ key[tails'[key[d]]] = key[d]
               /\ ticket'[d] <= ticket'[tails'[key[d]]]
    <3>1. CASE key[d] = key[c]
      BY <1>1, <1>5, <2>1, <3>1 DEF Coord!Unfinished
    <3>2. CASE key[d] # key[c]
      BY <1>1, <1>5, <1>6, <2>1, <3>2 DEF Coord!Chained, Coord!Unfinished
    <3> QED BY <3>1, <3>2
  <2>2. ASSUME NEW d \in Calls, NEW e \in Calls, Coord!Unfinished(d)', Coord!Unfinished(e)',
               key[e] = key[d], ticket'[e] < ticket'[d]
        PROVE  /\ phase'[d] = "waiting"
               /\ pred'[d] \in Calls
               /\ Coord!Unfinished(pred[d])'
               /\ key[pred'[d]] = key[d]
               /\ ticket'[e] <= ticket'[pred'[d]]
               /\ ticket'[pred'[d]] < ticket'[d]
    <3>1. e # c /\ Coord!Unfinished(e)
      BY <1>1, <1>5, <1>6, <2>2
    <3>2. CASE d = c
      <4>1. /\ tails[key[c]] \in Calls /\ Coord!Unfinished(tails[key[c]])
            /\ key[tails[key[c]]] = key[c] /\ ticket[e] <= ticket[tails[key[c]]]
        BY <2>2, <3>1, <3>2 DEF Coord!Chained
      <4>2. tails[key[c]] # c
        BY <4>1, <1>5
      <4> QED BY <1>1, <1>5, <3>1, <3>2, <4>1, <4>2 DEF Coord!Unfinished
    <3>3. CASE d # c
      <4>1. /\ phase[d] = "waiting" /\ pred[d] \in Calls /\ Coord!Unfinished(pred[d])
            /\ key[pred[d]] = key[d] /\ ticket[e] <= ticket[pred[d]]
            /\ ticket[pred[d]] < ticket[d]
        BY <1>1, <1>6, <2>2, <3>1, <3>3 DEF Coord!Chained
      <4> QED BY <1>1, <1>5, <3>1, <3>3, <4>1 DEF Coord!Unfinished
    <3> QED BY <3>2, <3>3
  <2> QED BY <1>1, <2>1, <2>2 DEF Coord!Chained
<1> QED BY <1>2, <1>3, <1>4, <1>7

\* A call that may begin is the first of its key.
LEMMA BeginsFirst ==
  ASSUME Coord!CoordinatorAssumption, Coord!IInv, NEW c \in Calls, Coord!Begin(c)
  PROVE  \A d \in Calls : Coord!Unfinished(d) /\ key[d] = key[c] => ticket[d] >= ticket[c]
<1> SUFFICES ASSUME NEW d \in Calls, Coord!Unfinished(d), key[d] = key[c], ticket[d] < ticket[c]
             PROVE  FALSE
  BY DEF Coord!IInv, Coord!TypeOK
<1>1. pred[c] \in Calls /\ Coord!Unfinished(pred[c])
  BY DEF Coord!IInv, Coord!Chained, Coord!Begin, Coord!Unfinished
<1> QED BY <1>1 DEF Coord!CoordinatorAssumption, Coord!Begin, Coord!Unfinished

LEMMA LockBegin ==
  ASSUME Coord!CoordinatorAssumption, Coord!IInv, NEW c \in Calls, Coord!Begin(c)
  PROVE  Coord!IInv'
<1> USE DEF Coord!CoordinatorAssumption, Coord!IInv, Coord!TypeOK
<1>1. /\ phase'[c] = "running" /\ phase[c] = "waiting"
      /\ \A d \in Calls \ {c} : phase'[d] = phase[d]
      /\ UNCHANGED <<tails, pred, key, ticket, calls>>
  BY DEF Coord!Begin
<1>2. Coord!TypeOK'
  BY DEF Coord!Begin
<1>3. \A d \in Calls : Coord!Unfinished(d)' <=> Coord!Unfinished(d)
  BY <1>1 DEF Coord!Unfinished
<1>4. Coord!TicketsDistinct'
  BY <1>1 DEF Coord!TicketsDistinct
<1>5. Coord!TailsLive'
  BY <1>1 DEF Coord!TailsLive, Coord!Unfinished
<1>6. Coord!Chained'
  <2>1. \A d \in Calls : Coord!Unfinished(d) /\ key[d] = key[c] => ~(ticket[d] < ticket[c])
    BY BeginsFirst
  <2> QED BY <1>1, <1>3, <2>1 DEF Coord!Chained
<1> QED BY <1>2, <1>4, <1>5, <1>6

LEMMA LockFinish ==
  ASSUME Coord!CoordinatorAssumption, Coord!IInv, NEW c \in Calls, Coord!Finish(c)
  PROVE  Coord!IInv'
<1> USE DEF Coord!CoordinatorAssumption, Coord!IInv, Coord!TypeOK
<1>1. /\ phase'[c] = "done" /\ phase[c] = "running"
      /\ \A d \in Calls \ {c} : phase'[d] = phase[d]
      /\ UNCHANGED <<pred, key, ticket, calls>>
      /\ \A k \in Threads : tails'[k] = IF k = key[c] /\ tails[k] = c THEN Nothing ELSE tails[k]
  BY DEF Coord!Finish
<1>2. Coord!TypeOK'
  BY DEF Coord!Finish
<1>3. \A d \in Calls : Coord!Unfinished(d)' <=> Coord!Unfinished(d) /\ d # c
  BY <1>1 DEF Coord!Unfinished
<1>4. Coord!TicketsDistinct'
  BY <1>1 DEF Coord!TicketsDistinct
<1>5. Coord!TailsLive'
  BY <1>1, <1>3 DEF Coord!TailsLive
<1>6. \A d \in Calls : Coord!Unfinished(d) /\ key[d] = key[c] /\ d # c => ticket[d] > ticket[c]
  <2>1. Coord!Unfinished(c) /\ phase[c] # "waiting"
    BY <1>1 DEF Coord!Unfinished
  <2>2. \A d \in Calls : Coord!Unfinished(d) /\ key[d] = key[c] => ~(ticket[d] < ticket[c])
    BY <2>1 DEF Coord!Chained
  <2>3. \A d \in Calls : Coord!Unfinished(d) => ticket[d] # 0
    BY DEF Coord!TicketsDistinct, Coord!Unfinished
  <2> QED BY <2>2, <2>3 DEF Coord!TicketsDistinct
<1>7. Coord!Chained'
  <2>1. ASSUME NEW d \in Calls, Coord!Unfinished(d)'
        PROVE  /\ tails'[key[d]] \in Calls
               /\ Coord!Unfinished(tails[key[d]])'
               /\ key[tails'[key[d]]] = key[d]
               /\ ticket[d] <= ticket[tails'[key[d]]]
    <3>1. /\ Coord!Unfinished(d) /\ d # c
          /\ tails[key[d]] \in Calls /\ Coord!Unfinished(tails[key[d]])
          /\ key[tails[key[d]]] = key[d] /\ ticket[d] <= ticket[tails[key[d]]]
      BY <1>3, <2>1 DEF Coord!Chained
    <3>2. tails[key[d]] # c
      BY <1>6, <3>1
    <3> QED BY <1>1, <1>3, <3>1, <3>2
  <2>2. ASSUME NEW d \in Calls, NEW e \in Calls, Coord!Unfinished(d)', Coord!Unfinished(e)',
               key[e] = key[d], ticket[e] < ticket[d]
        PROVE  /\ phase'[d] = "waiting"
               /\ pred[d] \in Calls
               /\ Coord!Unfinished(pred[d])'
               /\ key[pred[d]] = key[d]
               /\ ticket[e] <= ticket[pred[d]]
               /\ ticket[pred[d]] < ticket[d]
    <3>1. /\ Coord!Unfinished(d) /\ d # c /\ Coord!Unfinished(e) /\ e # c
          /\ phase[d] = "waiting" /\ pred[d] \in Calls /\ Coord!Unfinished(pred[d])
          /\ key[pred[d]] = key[d] /\ ticket[e] <= ticket[pred[d]]
          /\ ticket[pred[d]] < ticket[d]
      BY <1>3, <2>2 DEF Coord!Chained
    <3>2. pred[d] # c
      BY <1>6, <2>2, <3>1
    <3> QED BY <1>1, <1>3, <3>1, <3>2
  <2> QED BY <1>1, <2>1, <2>2 DEF Coord!Chained
<1> QED BY <1>2, <1>4, <1>5, <1>7

LEMMA LockNext ==
  ASSUME Coord!CoordinatorAssumption, Coord!IInv, [Coord!Next]_Coord!vars
  PROVE  Coord!IInv'
<1>1. CASE UNCHANGED Coord!vars
  BY <1>1 DEF Coord!vars, Coord!IInv, Coord!TypeOK, Coord!TicketsDistinct, Coord!Chained,
              Coord!TailsLive, Coord!Unfinished
<1> QED BY <1>1, LockRun, LockBegin, LockFinish DEF Coord!Next

\* The chain of promises is a queue in every behaviour.
THEOREM LockInvariance ==
  ASSUME Coord!CoordinatorAssumption PROVE Coord!Spec => []Coord!IInv
<1>1. Coord!Init => Coord!IInv
  BY LockInit
<1>2. Coord!IInv /\ [Coord!Next]_Coord!vars => Coord!IInv'
  BY LockNext
<1> QED BY <1>1, <1>2, PTL DEF Coord!Spec

\* Of two running calls of a key neither is before the other.
LEMMA InvOneAtATime == Coord!IInv => Coord!OneAtATime
<1> SUFFICES ASSUME Coord!IInv, NEW c \in Calls, NEW d \in Calls,
                    phase[c] = "running", phase[d] = "running", key[c] = key[d]
             PROVE  c = d
  BY DEF Coord!OneAtATime
<1>1. ~(ticket[c] < ticket[d]) /\ ~(ticket[d] < ticket[c])
  BY DEF Coord!IInv, Coord!Chained, Coord!Unfinished
<1>2. ticket[c] = ticket[d] /\ ticket[c] # 0
  BY <1>1 DEF Coord!IInv, Coord!TypeOK, Coord!TicketsDistinct
<1> QED BY <1>2 DEF Coord!IInv, Coord!TicketsDistinct

\* Two operations of one key never overlap, whatever the number of calls.
THEOREM MutualExclusion ==
  ASSUME Coord!CoordinatorAssumption PROVE Coord!Spec => []Coord!OneAtATime
BY InvOneAtATime, LockInvariance, PTL

\* The tails map neither leaks a key nor forgets a call.
THEOREM TailsExactness ==
  ASSUME Coord!CoordinatorAssumption PROVE Coord!Spec => []Coord!TailsExact
<1>1. Coord!IInv => Coord!TailsExact
  <2> SUFFICES ASSUME Coord!IInv, NEW k \in Threads
               PROVE  tails[k] # Nothing <=> \E c \in Calls : Coord!Unfinished(c) /\ key[c] = k
    BY DEF Coord!TailsExact
  <2>1. ASSUME tails[k] # Nothing
        PROVE  \E c \in Calls : Coord!Unfinished(c) /\ key[c] = k
    <3>1. tails[k] \in Calls
      BY <2>1 DEF Coord!IInv, Coord!TypeOK
    <3>2. Coord!Unfinished(tails[k]) /\ key[tails[k]] = k
      BY <2>1 DEF Coord!IInv, Coord!TailsLive
    <3> QED BY <3>1, <3>2
  <2>2. ASSUME NEW c \in Calls, Coord!Unfinished(c), key[c] = k
        PROVE  tails[k] # Nothing
    <3>1. tails[key[c]] \in Calls
      BY <2>2 DEF Coord!IInv, Coord!Chained
    <3> QED BY <3>1, <2>2 DEF Coord!CoordinatorAssumption
  <2> QED BY <2>1, <2>2
<1> QED BY <1>1, LockInvariance, PTL

\* run implements a lock per key that is granted in the order of the calls.
THEOREM LockRefinement ==
  ASSUME Coord!CoordinatorAssumption PROVE Coord!Spec => Coord!MutexSpec
<1>1. Coord!Init => Coord!Mutex!Init
  BY DEF Coord!Init, Coord!Mutex!Init
<1>2. Coord!IInv /\ [Coord!Next]_Coord!vars => [Coord!Mutex!Next]_Coord!Mutex!vars
  <2> SUFFICES ASSUME Coord!IInv, [Coord!Next]_Coord!vars
               PROVE  [Coord!Mutex!Next]_Coord!Mutex!vars
    OBVIOUS
  <2>1. ASSUME NEW c \in Calls, Coord!Run(c)
        PROVE  Coord!Mutex!Next
    BY <2>1 DEF Coord!Run, Coord!Mutex!Enter, Coord!Mutex!Next
  <2>2. ASSUME NEW c \in Calls, Coord!Begin(c)
        PROVE  Coord!Mutex!Next
    <3>1. \A d \in Calls : Coord!Unfinished(d) /\ key[d] = key[c] => ticket[d] >= ticket[c]
      BY <2>2, BeginsFirst
    <3> QED BY <2>2, <3>1 DEF Coord!Begin, Coord!Unfinished, Coord!Mutex!Begin, Coord!Mutex!First,
                              Coord!Mutex!Unfinished, Coord!Mutex!Next
  <2>3. ASSUME NEW c \in Calls, Coord!Finish(c)
        PROVE  Coord!Mutex!Next
    BY <2>3 DEF Coord!Finish, Coord!Mutex!Finish, Coord!Mutex!Next
  <2>4. CASE UNCHANGED Coord!vars
    BY <2>4 DEF Coord!vars, Coord!Mutex!vars
  <2> QED BY <2>1, <2>2, <2>3, <2>4 DEF Coord!Next
<1> QED BY <1>1, <1>2, LockInvariance, PTL DEF Coord!Spec, Coord!MutexSpec, Coord!Mutex!Spec

-----------------------------------------------------------------------------
(* The invariant of the operations.                                        *)

Steps == {"none", "turn", "refused", "read", "clear", "set", "wait", "pause"}

\* A user that is about to make an attempt has one left.
UsersOK ==
  /\ user \in [Users -> {"idle", "starting", "delayed", "failed", "holding",
                         "done"}]
  /\ attempt \in [Users -> Nat]
  /\ \A u \in Users :
       /\ user[u] = "idle" => attempt[u] = 0
       /\ user[u] = "delayed" => u \in Retrying /\ attempt[u] < MaxAttempts

\* Only an operation that runs is at a step.
StepsOK ==
  /\ step \in [Calls -> Steps]
  /\ \A c \in Calls : step[c] # "none" => phase[c] = "running"

ReservedOK == reserved \in [Threads -> Users \cup {Nothing}]

IInv == Coord!IInv /\ UsersOK /\ StepsOK /\ ReservedOK /\ GoalExcludesTurns

LEMMA Constants == Coord!CoordinatorAssumption
BY NothingAssumption DEF Coord!CoordinatorAssumption

LEMMA CallUser == \A c \in Calls : UserOf(c) \in Users
BY ThreadAssumption DEF Calls, UserOf, Users

\* The attempt a user makes is one of its calls.
LEMMA AttemptIsCall ==
  ASSUME UsersOK, NEW u \in Users, user[u] \in {"idle", "delayed"}
  PROVE  <<u, attempt[u] + 1>> \in Calls
BY ThreadAssumption DEF UsersOK, Calls

LEMMA InitInv == Init => IInv
<1> SUFFICES ASSUME Init PROVE IInv
  OBVIOUS
<1>1. Coord!IInv
  <2>1. Coord!Init
    BY DEF Init
  <2> QED BY <2>1, Constants, LockInit
<1> QED BY <1>1, CallUser
      DEF Init, IInv, UsersOK, StepsOK, ReservedOK, GoalExcludesTurns, Steps

-----------------------------------------------------------------------------
(* The coordinator takes only steps of its own.                            *)

CoordStep == [Coord!Next]_Coord!vars

LEMMA AttemptSteps ==
  ASSUME UsersOK, NEW u \in Users, user[u] \in {"idle", "delayed"}, Attempt(u)
  PROVE  Coord!Next
BY AttemptIsCall DEF Attempt, Coord!Run, Coord!Next

LEMMA SettlesSteps ==
  ASSUME NEW c \in Calls, NEW how, NEW x, Settles(c, how, x)
  PROVE  Coord!Next
BY DEF Settles, Coord!Finish, Coord!Next

LEMMA BeginSteps ==
  ASSUME NEW c \in Calls, Coord!Begin(c)
  PROVE  Coord!Next
BY DEF Coord!Begin, Coord!Next

LEMMA Stutters ==
  ASSUME UNCHANGED coordinator
  PROVE  CoordStep
BY DEF coordinator, CoordStep, Coord!vars

LEMMA FailsSteps ==
  ASSUME NEW c \in Calls, Fails(c)
  PROVE  CoordStep
BY Stutters, SettlesSteps DEF Fails, Releases, CoordStep

LEMMA NextSteps ==
  ASSUME UsersOK, [Next]_vars
  PROVE  CoordStep
<1>1. CASE UNCHANGED vars
  BY <1>1, Stutters DEF vars
<1>2. CASE Route \/ Handled
  <2>1. ASSUME Route PROVE CoordStep
    BY <2>1, Stutters, AttemptSteps, ThreadAssumption DEF Route, CoordStep, Users
  <2> QED BY <1>2, <2>1, Stutters DEF Handled
<1>3. ASSUME NEW u \in Users,
             Call(u) \/ Retries(u) \/ GiveUp(u) \/ Collected(u)
      PROVE  CoordStep
  BY <1>3, Stutters, AttemptSteps
     DEF Call, Retries, GiveUp, Collected, CoordStep
<1>4. ASSUME NEW c \in Calls, Begins(c)
      PROVE  CoordStep
  BY <1>4, BeginSteps DEF Begins, TurnBegins, GoalBegins, BeginRefused, CoordStep
<1>5. ASSUME NEW c \in Calls, Proceeds(c)
      PROVE  CoordStep
  BY <1>5, Stutters, SettlesSteps, FailsSteps
     DEF Proceeds, Refused, TurnAnswered, ReadDone, ClearDone, SetDone, StartAwaited,
         PauseDone, Releases, CoordStep
<1>6. ASSUME NEW c \in Calls, TimesOut(c) \/ Serve(c) \/ ServeLate(c)
      PROVE  CoordStep
  BY <1>6, Stutters DEF TimesOut, Serve, ServeLate
<1>7. ASSUME NEW t \in Threads, GoalTurnStarts(t) \/ TurnEnds(t)
      PROVE  CoordStep
  BY <1>7, Stutters DEF GoalTurnStarts, TurnEnds
<1> QED BY <1>1, <1>2, <1>3, <1>4, <1>5, <1>6, <1>7 DEF Next

-----------------------------------------------------------------------------
(* The steps of the operations, under the lock.                            *)

LEMMA Facts ==
  ASSUME IInv
  PROVE  /\ key \in [Calls -> Threads]
         /\ phase \in [Calls -> {"idle", "waiting", "running", "done"}]
         /\ \A c, d \in Calls :
              phase[c] = "running" /\ phase[d] = "running" /\ key[c] = key[d] => c = d
<1>1. Coord!IInv => Coord!OneAtATime
  BY InvOneAtATime
<1> QED BY <1>1 DEF IInv, Coord!IInv, Coord!TypeOK, Coord!OneAtATime

Lets == \A t \in Threads : reserved'[t] \in {reserved[t], Nothing}

\* No operation takes a step, and no thread is reserved.
LEMMA NoStep ==
  ASSUME IInv, UNCHANGED <<step, key>>, ReservedOK', Lets,
         \A c \in Calls : phase[c] = "running" => phase'[c] = "running"
  PROVE  StepsOK' /\ GoalExcludesTurns'
BY Facts DEF IInv, StepsOK, GoalExcludesTurns, Lets

\* One operation takes a step, and no thread is reserved.
LEMMA OneStep ==
  ASSUME IInv, NEW c \in Calls, NEW what \in Steps, step' = [step EXCEPT ![c] = what],
         \A d \in Calls \ {c} : phase[d] = "running" => phase'[d] = "running",
         what # "none" => phase'[c] = "running",
         what = "turn" => reserved'[key[c]] = Nothing,
         key' = key, ReservedOK', Lets
  PROVE  StepsOK' /\ GoalExcludesTurns'
BY Facts DEF IInv, StepsOK, GoalExcludesTurns, Lets

\* One operation that runs reserves its thread, where no other one can be.
LEMMA ReserveStep ==
  ASSUME IInv, NEW c \in Calls, step[c] # "none",
         step' = [step EXCEPT ![c] = "clear"], UNCHANGED <<phase, key>>,
         reserved' = [reserved EXCEPT ![key[c]] = UserOf(c)]
  PROVE  ReservedOK' /\ StepsOK' /\ GoalExcludesTurns'
<1>1. phase[c] = "running"
  BY DEF IInv, StepsOK
<1>2. ReservedOK'
  BY Facts, CallUser DEF IInv, ReservedOK
<1>3. StepsOK'
  BY <1>1 DEF IInv, StepsOK, Steps
<1>4. GoalExcludesTurns'
  <2> SUFFICES ASSUME NEW d \in Calls, step'[d] = "turn"
               PROVE  reserved'[key[d]] = Nothing
    BY DEF GoalExcludesTurns
  <2>1. d # c /\ step[d] = "turn" /\ phase[d] = "running"
    BY DEF IInv, StepsOK
  <2>2. key[d] # key[c]
    BY <1>1, <2>1, Facts
  <2> QED BY <2>1, <2>2, Facts DEF IInv, GoalExcludesTurns, ReservedOK
<1> QED BY <1>2, <1>3, <1>4

LEMMA SameReserved ==
  ASSUME ReservedOK, reserved' = reserved
  PROVE  ReservedOK' /\ Lets
BY DEF ReservedOK, Lets

LEMMA AttemptUsers ==
  ASSUME UsersOK, NEW u \in Users, user[u] \in {"idle", "delayed"}, Attempt(u)
  PROVE  UsersOK'
BY DEF UsersOK, Attempt

LEMMA AttemptInv ==
  ASSUME IInv, NEW u \in Users, user[u] \in {"idle", "delayed"}, Attempt(u),
         step' = step, ReservedOK', Lets
  PROVE  UsersOK' /\ StepsOK' /\ GoalExcludesTurns'
<1>1. UsersOK'
  BY AttemptUsers DEF IInv
<1>2. /\ key' = key
      /\ \A d \in Calls : phase[d] = "running" => phase'[d] = "running"
  BY Facts DEF Attempt, Coord!Run
<1> QED BY <1>1, <1>2, NoStep

LEMMA SettlesUsers ==
  ASSUME UsersOK, NEW c \in Calls, NEW how, NEW x, Settles(c, how, x)
  PROVE  UsersOK'
BY CallUser DEF UsersOK, Settles

LEMMA SettlesInv ==
  ASSUME IInv, NEW c \in Calls, NEW how, NEW x, Settles(c, how, x), ReservedOK', Lets
  PROVE  UsersOK' /\ StepsOK' /\ GoalExcludesTurns'
<1>1. UsersOK'
  BY SettlesUsers DEF IInv
<1>2. /\ key' = key /\ step' = [step EXCEPT ![c] = "none"]
      /\ \A d \in Calls \ {c} : phase[d] = "running" => phase'[d] = "running"
  BY Facts DEF Settles, Coord!Finish
<1> QED BY <1>1, <1>2, OneStep DEF Steps

LEMMA SameUsers ==
  ASSUME UsersOK, UNCHANGED users
  PROVE  UsersOK'
BY DEF UsersOK, users

-----------------------------------------------------------------------------
(* Every action preserves the invariant.                                   *)

Rest == UsersOK /\ StepsOK /\ ReservedOK /\ GoalExcludesTurns

\* Actions that touch no operation and only let go of threads.
LEMMA Quiet ==
  ASSUME IInv, UNCHANGED <<coordinator, step>>, UsersOK', ReservedOK', Lets
  PROVE  Rest'
BY NoStep DEF coordinator, Rest

\* A request is sent, or a wait begins, in an operation that runs.
LEMMA AskInv ==
  ASSUME IInv, NEW c \in Calls, step[c] # "none", NEW what \in Steps \ {"turn"},
         Ask(c, what), UNCHANGED <<coordinator, users, reserved>>
  PROVE  Rest'
<1>1. phase[c] = "running"
  BY DEF IInv, StepsOK
<1>2. ReservedOK' /\ Lets /\ UsersOK'
  BY SameReserved, SameUsers DEF IInv
<1>3. StepsOK' /\ GoalExcludesTurns'
  BY <1>1, <1>2, OneStep DEF Ask, coordinator
<1> QED BY <1>2, <1>3 DEF Rest

LEMMA ReleasesInv ==
  ASSUME IInv, NEW c \in Calls, Releases(c)
  PROVE  Rest'
<1>1. ReservedOK' /\ Lets
  BY DEF Releases, IInv, ReservedOK, Lets
<1> QED BY <1>1, SettlesInv DEF Releases, Rest

LEMMA FailsInv ==
  ASSUME IInv, NEW c \in Calls, step[c] # "none", Fails(c)
  PROVE  Rest'
BY AskInv, ReleasesInv DEF Fails, Steps, goals

LEMMA BeginsInv ==
  ASSUME IInv, NEW c \in Calls, Begins(c)
  PROVE  Rest'
<1>1. /\ phase'[c] = "running" /\ key' = key
      /\ \A d \in Calls \ {c} : phase'[d] = phase[d]
  BY Facts DEF Begins, TurnBegins, GoalBegins, BeginRefused, Coord!Begin
<1>2. ReservedOK' /\ Lets /\ UsersOK' /\ reserved' = reserved
  BY SameReserved, SameUsers
     DEF IInv, Begins, TurnBegins, GoalBegins, BeginRefused, goals
<1>3. PICK what \in Steps :
        /\ step' = [step EXCEPT ![c] = what]
        /\ what = "turn" => reserved[key[c]] = Nothing
        /\ what # "none"
  BY DEF Begins, TurnBegins, GoalBegins, BeginRefused, Ask, Steps
<1>4. StepsOK' /\ GoalExcludesTurns'
  BY <1>1, <1>2, <1>3, OneStep
<1> QED BY <1>2, <1>4 DEF Rest

LEMMA ReadDoneInv ==
  ASSUME IInv, NEW c \in Calls, ReadDone(c)
  PROVE  Rest'
<1>1. CASE rpc[c].reply = "ok"
  <2>1. UsersOK'
    BY <1>1, SameUsers DEF ReadDone, IInv
  <2>2. ReservedOK' /\ StepsOK' /\ GoalExcludesTurns'
    BY <1>1, ReserveStep DEF ReadDone, Ask, coordinator
  <2> QED BY <2>1, <2>2 DEF Rest
<1>2. CASE rpc[c].reply # "ok"
  <2>1. Settles(c, rpc[c].reply, Nothing) /\ UNCHANGED reserved
    BY <1>2 DEF ReadDone, goals
  <2> QED BY <2>1, SameReserved, SettlesInv DEF IInv, Rest
<1> QED BY <1>1, <1>2

LEMMA WaitInv ==
  ASSUME IInv, NEW c \in Calls, step[c] # "none", step' = [step EXCEPT ![c] = "wait"],
         UNCHANGED <<coordinator, users, goals>>
  PROVE  Rest'
<1>1. phase[c] = "running"
  BY DEF IInv, StepsOK
<1>2. ReservedOK' /\ Lets /\ UsersOK'
  BY SameReserved, SameUsers DEF IInv, goals
<1>3. StepsOK' /\ GoalExcludesTurns'
  BY <1>1, <1>2, OneStep DEF Steps, coordinator, goals
<1> QED BY <1>2, <1>3 DEF Rest

LEMMA ProceedsInv ==
  ASSUME IInv, NEW c \in Calls, Proceeds(c)
  PROVE  Rest'
<1>1. CASE Refused(c) \/ TurnAnswered(c)
  <2>1. reserved' = reserved /\ \E how, x : Settles(c, how, x)
    BY <1>1 DEF Refused, TurnAnswered, goals
  <2> QED BY <2>1, SameReserved, SettlesInv DEF IInv, Rest
<1>2. CASE ClearDone(c)
  <2>1. CASE rpc[c].reply = "ok"
    BY <1>2, <2>1, AskInv DEF ClearDone, Steps
  <2> QED BY <1>2, <2>1, FailsInv DEF ClearDone
<1>3. CASE SetDone(c)
  <2>1. CASE rpc[c].reply = "ok"
    BY <1>3, <2>1, WaitInv DEF SetDone
  <2> QED BY <1>3, <2>1, FailsInv DEF SetDone
<1>4. CASE StartAwaited(c)
  <2>1. CASE begun[key[c]]
    <3>1. Settles(c, "ok", Nothing) /\ reserved' = reserved
      BY <1>4, <2>1 DEF StartAwaited, goals
    <3> QED BY <3>1, SameReserved, SettlesInv DEF IInv, Rest
  <2> QED BY <1>4, <2>1, FailsInv DEF StartAwaited
<1>5. CASE PauseDone(c)
  BY <1>5, ReleasesInv DEF PauseDone
<1> QED BY <1>1, <1>2, <1>3, <1>4, <1>5, ReadDoneInv DEF Proceeds

LEMMA RouteInv ==
  ASSUME IInv, Route
  PROVE  Rest'
<1>1. ReservedOK' /\ Lets
  <2>1. \/ reserved' = reserved
        \/ \E t : reserved' = [reserved EXCEPT ![t] = Nothing]
    BY DEF Route, Routed, End, goals
  <2> QED BY <2>1 DEF IInv, ReservedOK, Lets
<1>2. step' = step
  BY DEF Route, requests
<1>3. CASE UNCHANGED <<handler, coordinator, users>>
  BY <1>1, <1>2, <1>3, Quiet, SameUsers DEF IInv
<1>4. ASSUME NEW u \in Users, user[u] = "idle", Attempt(u)
      PROVE  Rest'
  BY <1>1, <1>2, <1>4, AttemptInv DEF Rest
<1> QED BY <1>3, <1>4, ThreadAssumption DEF Route, Users

LEMMA UserInv ==
  ASSUME IInv, NEW u \in Users,
         Call(u) \/ Retries(u) \/ GiveUp(u) \/ Collected(u)
  PROVE  Rest'
<1>1. step' = step /\ ReservedOK' /\ Lets
  BY SameReserved DEF IInv, Call, Retries, GiveUp, Collected, requests, goals
<1>2. CASE Call(u) \/ Retries(u)
  BY <1>1, <1>2, AttemptInv DEF Call, Retries, Rest
<1>3. CASE GiveUp(u) \/ Collected(u)
  <2>1. UsersOK' /\ UNCHANGED coordinator
    BY <1>3 DEF IInv, UsersOK, GiveUp, Collected
  <2> QED BY <1>1, <2>1, Quiet
<1> QED BY <1>2, <1>3

LEMMA NextInv ==
  ASSUME IInv, [Next]_vars
  PROVE  IInv'
<1>1. Coord!IInv'
  <2>1. CoordStep /\ Coord!IInv
    BY NextSteps DEF IInv
  <2> QED BY <2>1, Constants, LockNext DEF CoordStep
<1>2. ASSUME UNCHANGED <<coordinator, users, step, reserved>>
      PROVE  Rest'
  BY <1>2, Quiet, SameUsers, SameReserved DEF IInv
<1>3. ASSUME UNCHANGED vars \/ Handled
      PROVE  Rest'
  <2>1. UNCHANGED <<coordinator, users, step, reserved>>
    BY <1>3 DEF vars, Handled, requests, goals
  <2> QED BY <1>2, <2>1
<1>4. ASSUME NEW c \in Calls, TimesOut(c) \/ Serve(c) \/ ServeLate(c)
      PROVE  Rest'
  <2>1. UNCHANGED <<coordinator, users, step, reserved>>
    BY <1>4 DEF TimesOut, Serve, ServeLate, goals
  <2> QED BY <1>2, <2>1
<1>5. ASSUME NEW t \in Threads, GoalTurnStarts(t) \/ TurnEnds(t)
      PROVE  Rest'
  <2>1. UNCHANGED <<coordinator, users, step, reserved>>
    BY <1>5 DEF GoalTurnStarts, TurnEnds, requests, goals
  <2> QED BY <1>2, <2>1
<1>6. Rest'
  BY <1>3, <1>4, <1>5, RouteInv, UserInv, BeginsInv, ProceedsInv DEF Next
<1> QED BY <1>1, <1>6 DEF IInv, Rest

-----------------------------------------------------------------------------
(* A turn/start may still be executed while its request is on its way, or  *)
(* after its user was told that it is lost: never both for two attempts.   *)

Live(c) == c \in late \/ (step[c] = "turn" /\ rpc[c].reply = "sent")

Fresh(u) == ran[u] = 0 /\ \A c \in Calls : UserOf(c) = u => ~Live(c)

Unfinished(c) == phase[c] \in {"waiting", "running"}

\* A user is starting while one of its calls is unfinished, and has but one.
OneAttempt ==
  /\ \A c \in Calls : Unfinished(c) => user[UserOf(c)] = "starting"
  /\ \A c, d \in Calls : Unfinished(c) /\ Unfinished(d) /\ UserOf(c) = UserOf(d) => c = d

\* What is given up stays given up.
LateOK ==
  \A c \in late : c \in Calls /\ (step[c] = "turn" => rpc[c].reply = "lost")

RanOK ==
  /\ DOMAIN rpc = Calls /\ rpc = [c \in Calls |-> rpc[c]]
  /\ \A c \in Calls : rpc[c].reply # "none" => phase[c] = "running"
  /\ ran \in [Users -> Nat]
  /\ ExecutedOnce

LiveOnce ==
  /\ \A c \in Calls : Live(c) => ran[UserOf(c)] = 0
  /\ \A c, d \in Calls : Live(c) /\ Live(d) /\ UserOf(c) = UserOf(d) => c = d

\* Nothing was executed for a user that is to make an attempt.
NotYet ==
  /\ \A u \in Users : user[u] \in {"idle", "delayed"} => Fresh(u)
  /\ \A c \in Calls : phase[c] = "waiting" => Fresh(UserOf(c))
  /\ \A c \in Calls : rpc[c].reply = "overloaded" => Fresh(UserOf(c))

OnceInv == RanOK /\ OneAttempt /\ LateOK /\ LiveOnce /\ NotYet

LEMMA OnceInit == Init => OnceInv
BY CallUser DEF Init, Coord!Init, OnceInv, RanOK, OneAttempt, LateOK, LiveOnce, NotYet,
                ExecutedOnce, Live, Fresh, Unfinished, Response, NoRequest

LEMMA OnceAttempt ==
  ASSUME IInv, OnceInv, NEW u \in Users, user[u] \in {"idle", "delayed"}, Attempt(u),
         UNCHANGED <<step, rpc, late, ran>>
  PROVE  OnceInv'
<1> DEFINE c == <<u, attempt[u] + 1>>
<1>1. c \in Calls /\ UserOf(c) = u
  BY AttemptIsCall DEF IInv, UserOf
<1>2. /\ phase' = [phase EXCEPT ![c] = "waiting"]
      /\ user' = [user EXCEPT ![u] = "starting"]
  BY DEF Attempt, Coord!Run
<1>3. \A d \in Calls : Unfinished(d) => UserOf(d) # u
  BY DEF OnceInv, OneAttempt
<1> HIDE DEF c
<1>4. OneAttempt'
  BY <1>1, <1>2, <1>3, Facts, CallUser DEF OnceInv, OneAttempt, Unfinished, IInv, UsersOK
<1>5. RanOK' /\ LateOK' /\ LiveOnce'
  <2>1. \A d \in Calls : phase[d] = "running" => phase'[d] = "running"
    BY Facts DEF Attempt, Coord!Run
  <2>2. RanOK'
    BY <2>1 DEF OnceInv, RanOK, ExecutedOnce
  <2> QED BY <2>2 DEF OnceInv, LateOK, LiveOnce, Live
<1>6. NotYet'
  <2>1. \A v : Fresh(v)' <=> Fresh(v)
    BY DEF Fresh, Live
  <2>2. Fresh(u)
    BY DEF OnceInv, NotYet
  <2>3. \A v \in Users : user'[v] \in {"idle", "delayed"} => user[v] \in {"idle", "delayed"}
    BY <1>2 DEF IInv, UsersOK
  <2>4. \A d \in Calls : phase'[d] = "waiting" => phase[d] = "waiting" \/ d = c
    BY <1>1, <1>2, Facts
  <2> QED BY <1>1, <2>1, <2>2, <2>3, <2>4 DEF OnceInv, NotYet
<1> QED BY <1>4, <1>5, <1>6 DEF OnceInv

\* What executes nothing and puts nothing on its way.
LEMMA OnceFrame ==
  ASSUME OnceInv, RanOK', OneAttempt', LateOK', ran' = ran,
         \A d \in Calls : Live(d)' => Live(d),
         \A u \in Users : user'[u] \in {"idle", "delayed"} => Fresh(u),
         \A d \in Calls : phase'[d] = "waiting" => phase[d] = "waiting",
         \A d \in Calls : rpc'[d].reply = "overloaded" => Fresh(UserOf(d))
  PROVE  OnceInv'
<1>1. \A u \in Users : Fresh(u) => Fresh(u)'
  BY DEF Fresh
<1> QED BY <1>1, CallUser DEF OnceInv, LiveOnce, NotYet

LEMMA OnceSettles ==
  ASSUME IInv, OnceInv, NEW c \in Calls, NEW how, NEW x, Settles(c, how, x),
         Retryable(how) => Fresh(UserOf(c)), UNCHANGED <<late, ran>>
  PROVE  OnceInv'
<1>1. /\ phase[c] = "running" /\ phase' = [phase EXCEPT ![c] = "done"]
      /\ step' = [step EXCEPT ![c] = "none"]
      /\ rpc' = [rpc EXCEPT ![c] = Response("none", Nothing)]
      /\ \A u \in Users : u # UserOf(c) => user'[u] = user[u]
      /\ user'[UserOf(c)] \in {"holding", "failed", "delayed"}
      /\ user'[UserOf(c)] = "delayed" => Retryable(how)
  BY CallUser DEF Settles, Coord!Finish, NoRequest, IInv, UsersOK
<1>2. \A d \in Calls : d # c => phase'[d] = phase[d] /\ rpc'[d] = rpc[d] /\ step'[d] = step[d]
  BY <1>1, Facts DEF OnceInv, RanOK, IInv, StepsOK
<1>3. phase'[c] = "done" /\ rpc'[c] = Response("none", Nothing) /\ step'[c] = "none"
  BY <1>1, Facts DEF OnceInv, RanOK, IInv, StepsOK
<1>4. RanOK'
  BY <1>1, <1>2, <1>3 DEF OnceInv, RanOK, ExecutedOnce, Response
<1>5. OneAttempt'
  BY <1>1, <1>2, <1>3, CallUser DEF OnceInv, OneAttempt, Unfinished
<1>6. LateOK'
  BY <1>2, <1>3 DEF OnceInv, LateOK
<1>7. \A d \in Calls : Live(d)' => Live(d)
  BY <1>2, <1>3 DEF Live
<1> QED BY <1>1, <1>2, <1>3, <1>4, <1>5, <1>6, <1>7, OnceFrame
        DEF OnceInv, NotYet, Response

\* A step of an operation that runs, other than to send turn/start.
LEMMA OnceStep ==
  ASSUME IInv, OnceInv, NEW c \in Calls, NEW how \in {"none", "sent"},
         phase[c] = "running", NEW what \in Steps \ {"turn"},
         step' = [step EXCEPT ![c] = what],
         rpc' = [rpc EXCEPT ![c] = Response(how, Nothing)],
         UNCHANGED <<coordinator, users, late, ran>>
  PROVE  OnceInv'
<1>1. /\ rpc'[c] = Response(how, Nothing) /\ step'[c] = what
      /\ \A d \in Calls : d # c => rpc'[d] = rpc[d] /\ step'[d] = step[d]
  BY DEF OnceInv, RanOK, IInv, StepsOK
<1>2. RanOK'
  BY <1>1 DEF OnceInv, RanOK, ExecutedOnce, Response, coordinator
<1>3. OneAttempt' /\ LateOK'
  BY <1>1 DEF OnceInv, OneAttempt, LateOK, Unfinished, coordinator, users
<1>4. \A d \in Calls : Live(d)' => Live(d)
  BY <1>1 DEF Live
<1> QED BY <1>1, <1>2, <1>3, <1>4, OnceFrame DEF OnceInv, NotYet, Response, coordinator, users

LEMMA OnceReleases ==
  ASSUME IInv, OnceInv, NEW c \in Calls, Releases(c), UNCHANGED <<late, ran>>
  PROVE  OnceInv'
BY OnceSettles DEF Releases, Retryable

LEMMA OnceFails ==
  ASSUME IInv, OnceInv, NEW c \in Calls, step[c] # "none", Fails(c), UNCHANGED <<late, ran>>
  PROVE  OnceInv'
<1>1. phase[c] = "running"
  BY DEF IInv, StepsOK
<1> QED BY <1>1, OnceStep, OnceReleases DEF Fails, Ask, Steps

LEMMA OnceTurnBegins ==
  ASSUME IInv, OnceInv, NEW c \in Calls, TurnBegins(c)
  PROVE  OnceInv'
<1>1. /\ phase[c] = "waiting" /\ phase' = [phase EXCEPT ![c] = "running"]
      /\ step' = [step EXCEPT ![c] = "turn"]
      /\ rpc' = [rpc EXCEPT ![c] = Response("sent", Nothing)]
      /\ UNCHANGED <<user, late, ran>>
  BY DEF TurnBegins, Coord!Begin, Ask, users, server
<1>2. /\ phase'[c] = "running" /\ rpc'[c] = Response("sent", Nothing) /\ step'[c] = "turn"
      /\ \A d \in Calls :
           d # c => phase'[d] = phase[d] /\ rpc'[d] = rpc[d] /\ step'[d] = step[d]
  BY <1>1, Facts DEF OnceInv, RanOK, IInv, StepsOK
<1>3. Fresh(UserOf(c)) /\ user[UserOf(c)] = "starting"
  BY <1>1 DEF OnceInv, NotYet, OneAttempt, Unfinished
<1>4. \A d \in Calls : d # c /\ UserOf(d) = UserOf(c) => ~Unfinished(d)
  BY <1>1 DEF OnceInv, OneAttempt, Unfinished
<1>5. RanOK'
  BY <1>1, <1>2 DEF OnceInv, RanOK, ExecutedOnce, Response
<1>6. OneAttempt'
  BY <1>1, <1>2 DEF OnceInv, OneAttempt, Unfinished
<1>7. LateOK'
  BY <1>1, <1>2, <1>3 DEF OnceInv, LateOK, Fresh, Live
<1>8. \A d \in Calls : d # c => (Live(d)' <=> Live(d))
  BY <1>1, <1>2 DEF Live
<1>9. LiveOnce'
  BY <1>1, <1>3, <1>8 DEF OnceInv, LiveOnce, Fresh
<1>10. NotYet'
  <2>1. \A u \in Users : u # UserOf(c) => (Fresh(u)' <=> Fresh(u))
    BY <1>1, <1>8 DEF Fresh
  <2>2. \A u \in Users : user'[u] \in {"idle", "delayed"} => Fresh(u)'
    BY <1>1, <1>3, <2>1 DEF OnceInv, NotYet
  <2>3. \A d \in Calls : phase'[d] = "waiting" => Fresh(UserOf(d))'
    BY <1>2, <1>4, <2>1, CallUser DEF OnceInv, NotYet, Unfinished
  <2>4. \A d \in Calls : rpc'[d].reply = "overloaded" => Fresh(UserOf(d))'
    BY <1>2, <1>4, <2>1, CallUser DEF OnceInv, NotYet, RanOK, Unfinished, Response
  <2> QED BY <2>2, <2>3, <2>4 DEF NotYet
<1> QED BY <1>5, <1>6, <1>7, <1>9, <1>10 DEF OnceInv

LEMMA OnceBegins ==
  ASSUME IInv, OnceInv, NEW c \in Calls, GoalBegins(c) \/ BeginRefused(c)
  PROVE  OnceInv'
<1>1. PICK what \in {"read", "refused"} :
      /\ phase[c] = "waiting" /\ phase' = [phase EXCEPT ![c] = "running"]
      /\ step' = [step EXCEPT ![c] = what]
      /\ rpc' = rpc \/ rpc' = [rpc EXCEPT ![c] = Response("sent", Nothing)]
      /\ UNCHANGED <<user, late, ran>>
  BY DEF GoalBegins, BeginRefused, Coord!Begin, Ask, users, server
<1>2. /\ phase'[c] = "running" /\ step'[c] = what
      /\ rpc'[c] \in {rpc[c], Response("sent", Nothing)}
      /\ \A d \in Calls :
           d # c => phase'[d] = phase[d] /\ rpc'[d] = rpc[d] /\ step'[d] = step[d]
  BY <1>1, Facts DEF OnceInv, RanOK, IInv, StepsOK
<1>3. RanOK'
  BY <1>1, <1>2 DEF OnceInv, RanOK, ExecutedOnce, Response
<1>4. OneAttempt'
  BY <1>1, <1>2 DEF OnceInv, OneAttempt, Unfinished
<1>5. LateOK'
  BY <1>1, <1>2 DEF OnceInv, LateOK
<1>6. \A d \in Calls : Live(d)' => Live(d)
  BY <1>1, <1>2 DEF Live
<1> QED BY <1>1, <1>2, <1>3, <1>4, <1>5, <1>6, OnceFrame DEF OnceInv, NotYet, Response

LEMMA OnceProceeds ==
  ASSUME IInv, OnceInv, NEW c \in Calls, Proceeds(c)
  PROVE  OnceInv'
<1>1. UNCHANGED <<late, ran>> /\ step[c] # "none"
  BY DEF Proceeds, Refused, TurnAnswered, ReadDone, ClearDone, SetDone, StartAwaited,
         PauseDone, server
<1>2. phase[c] = "running"
  BY <1>1 DEF IInv, StepsOK
<1>3. rpc[c].reply = "overloaded" => Fresh(UserOf(c))
  BY DEF OnceInv, NotYet
<1>4. CASE Refused(c) \/ TurnAnswered(c)
  <2>1. \E how, x : Settles(c, how, x) /\ (Retryable(how) => Fresh(UserOf(c)))
    BY <1>3, <1>4 DEF Refused, TurnAnswered, Retryable
  <2> QED BY <1>1, <2>1, OnceSettles
<1>5. CASE ReadDone(c)
  <2>1. CASE rpc[c].reply = "ok"
    <3>1. Ask(c, "clear") /\ UNCHANGED <<coordinator, users>>
      BY <1>5, <2>1 DEF ReadDone
    <3> QED BY <1>1, <1>2, <3>1, OnceStep DEF Ask, Steps
  <2>2. CASE rpc[c].reply # "ok"
    <3>1. Settles(c, rpc[c].reply, Nothing)
      BY <1>5, <2>2 DEF ReadDone
    <3> QED BY <1>1, <1>3, <3>1, OnceSettles DEF Retryable
  <2> QED BY <2>1, <2>2
<1>6. CASE ClearDone(c)
  <2>1. CASE rpc[c].reply = "ok"
    <3>1. Ask(c, "set") /\ UNCHANGED <<coordinator, users>>
      BY <1>6, <2>1 DEF ClearDone
    <3> QED BY <1>1, <1>2, <3>1, OnceStep DEF Ask, Steps
  <2> QED BY <1>1, <1>6, <2>1, OnceFails DEF ClearDone
<1>7. CASE SetDone(c)
  <2>1. CASE rpc[c].reply = "ok"
    BY <1>1, <1>2, <1>7, <2>1, OnceStep DEF SetDone, NoRequest, Steps
  <2> QED BY <1>1, <1>7, <2>1, OnceFails DEF SetDone
<1>8. CASE StartAwaited(c)
  <2>1. CASE begun[key[c]]
    BY <1>1, <1>8, <2>1, OnceSettles DEF StartAwaited, Retryable
  <2> QED BY <1>1, <1>8, <2>1, OnceFails DEF StartAwaited
<1>9. CASE PauseDone(c)
  BY <1>1, <1>9, OnceReleases DEF PauseDone
<1> QED BY <1>4, <1>5, <1>6, <1>7, <1>8, <1>9 DEF Proceeds

\* turn/start is executed, and is on its way no more.
LEMMA OnceExecuted ==
  ASSUME OnceInv, NEW c \in Calls, Live(c), Executed(c),
         DOMAIN rpc' = Calls, rpc' = [d \in Calls |-> rpc'[d]],
         \A d \in Calls : rpc'[d].reply # "none" => phase[d] = "running",
         rpc'[c].reply # "overloaded", ~Live(c)',
         \A d \in Calls : d # c => rpc'[d] = rpc[d] /\ (Live(d)' <=> Live(d)),
         LateOK', UNCHANGED <<phase, user>>
  PROVE  OnceInv'
<1>1. /\ ran[UserOf(c)] = 0 /\ ran \in [Users -> Nat]
      /\ ran' = [ran EXCEPT ![UserOf(c)] = @ + 1]
  BY DEF OnceInv, LiveOnce, RanOK, Executed
<1>2. /\ ran' \in [Users -> Nat] /\ ran'[UserOf(c)] = 1
      /\ \A u \in Users : u # UserOf(c) => ran'[u] = ran[u]
  BY <1>1, CallUser
<1>3. RanOK'
  BY <1>2 DEF OnceInv, RanOK, ExecutedOnce
<1>4. OneAttempt'
  BY DEF OnceInv, OneAttempt, Unfinished
<1>5. \A d \in Calls : Live(d)' => Live(d) /\ UserOf(d) # UserOf(c)
  BY DEF OnceInv, LiveOnce
<1>6. LiveOnce'
  BY <1>2, <1>5, CallUser DEF OnceInv, LiveOnce
<1>7. NotYet'
  <2>1. ~Fresh(UserOf(c))
    BY DEF Fresh
  <2>2. \A u \in Users : Fresh(u) => Fresh(u)'
    BY <1>2, <1>5, <2>1 DEF Fresh
  <2>3. \A d \in Calls : rpc'[d].reply = "overloaded" => rpc[d].reply = "overloaded"
    OBVIOUS
  <2> QED BY <2>2, <2>3, CallUser DEF OnceInv, NotYet
<1> QED BY <1>3, <1>4, <1>6, <1>7, CallUser DEF OnceInv

LEMMA OnceServe ==
  ASSUME IInv, OnceInv, NEW c \in Calls, Serve(c)
  PROVE  OnceInv'
<1>1. /\ UNCHANGED <<phase, user, step, late>> /\ rpc[c].reply = "sent"
      /\ phase[c] = "running"
  BY DEF Serve, coordinator, users, OnceInv, RanOK
<1>2. PICK how \in {"ok", "lost", "refused", "overloaded"} :
        /\ Reply(c, how)
        /\ how = "overloaded" => step[c] = "turn" /\ ran' = ran
        /\ (step[c] = "turn" /\ Executed(c)) \/ ran' = ran
  BY DEF Serve, Done, Failures, server, Tell
<1>3. PICK x : rpc' = [rpc EXCEPT ![c] = Response(how, x)]
  BY <1>2 DEF Reply
<1>4. /\ rpc'[c] = Response(how, x)
      /\ \A d \in Calls : d # c => rpc'[d] = rpc[d]
      /\ DOMAIN rpc' = Calls /\ rpc' = [d \in Calls |-> rpc'[d]]
  BY <1>3 DEF OnceInv, RanOK
<1>5. rpc'[c].reply = how
  BY <1>4 DEF Response
<1>6. c \in late => step[c] # "turn"
  BY <1>1 DEF OnceInv, LateOK
<1>7. \A d \in Calls : d # c => (Live(d)' <=> Live(d))
  BY <1>1, <1>4 DEF Live
<1>8. \A d \in Calls : rpc'[d].reply # "none" => phase[d] = "running"
  BY <1>1, <1>4 DEF OnceInv, RanOK
<1>9. LateOK'
  BY <1>1, <1>4, <1>6 DEF OnceInv, LateOK
<1>10. CASE step[c] = "turn" /\ Executed(c)
  <2>1. Live(c) /\ ~Live(c)'
    BY <1>1, <1>5, <1>6, <1>10 DEF Live
  <2>2. how # "overloaded"
    <3>1. ran' # ran
      BY <1>10, CallUser DEF Executed, OnceInv, RanOK
    <3> QED BY <1>2, <3>1
  <2> QED BY <1>1, <1>4, <1>5, <1>7, <1>8, <1>9, <1>10, <2>1, <2>2, OnceExecuted
<1>11. CASE ran' = ran
  <2>1. RanOK'
    BY <1>1, <1>4, <1>8, <1>11 DEF OnceInv, RanOK, ExecutedOnce
  <2>2. OneAttempt'
    BY <1>1 DEF OnceInv, OneAttempt, Unfinished
  <2>3. Live(c)' => Live(c)
    BY <1>1, <1>5 DEF Live
  <2>4. how = "overloaded" => Fresh(UserOf(c))'
    <3> SUFFICES ASSUME how = "overloaded" PROVE Fresh(UserOf(c))'
      OBVIOUS
    <3>1. Live(c) /\ ~Live(c)'
      BY <1>1, <1>2, <1>5, <1>6 DEF Live
    <3> QED BY <1>7, <1>11, <3>1 DEF OnceInv, LiveOnce, Fresh
  <2>5. \A u \in Users : Fresh(u) => Fresh(u)'
    BY <1>7, <1>11, <2>3 DEF Fresh
  <2>6. NotYet'
    BY <1>1, <1>4, <1>5, <2>4, <2>5, CallUser DEF OnceInv, NotYet
  <2>7. LiveOnce'
    BY <1>7, <1>11, <2>3 DEF OnceInv, LiveOnce
  <2> QED BY <1>9, <2>1, <2>2, <2>6, <2>7 DEF OnceInv
<1> QED BY <1>2, <1>10, <1>11

LEMMA OnceServeLate ==
  ASSUME IInv, OnceInv, NEW c \in Calls, ServeLate(c)
  PROVE  OnceInv'
<1>1. /\ UNCHANGED <<phase, user, step, rpc>> /\ c \in late /\ late' = late \ {c}
      /\ Executed(c) \/ ran' = ran
  BY DEF ServeLate, coordinator, users, server
<1>2. Live(c) /\ ~Live(c)'
  BY <1>1 DEF Live, OnceInv, LateOK
<1>3. \A d \in Calls : d # c => (Live(d)' <=> Live(d))
  BY <1>1 DEF Live
<1>4. LateOK' /\ OneAttempt'
  BY <1>1 DEF OnceInv, LateOK, OneAttempt, Unfinished
<1>5. CASE Executed(c)
  <2>1. rpc[c].reply # "overloaded"
    BY <1>2 DEF OnceInv, NotYet, Fresh
  <2> QED BY <1>1, <1>2, <1>3, <1>4, <1>5, <2>1, OnceExecuted DEF OnceInv, RanOK
<1>6. CASE ran' = ran
  <2>1. RanOK'
    BY <1>1, <1>6 DEF OnceInv, RanOK, ExecutedOnce
  <2> QED BY <1>1, <1>2, <1>3, <1>4, <1>6, <2>1, OnceFrame DEF OnceInv, NotYet
<1> QED BY <1>1, <1>5, <1>6

LEMMA OnceTimesOut ==
  ASSUME IInv, OnceInv, NEW c \in Calls, TimesOut(c)
  PROVE  OnceInv'
<1>1. /\ UNCHANGED <<phase, user, step, ran>> /\ step[c] = "turn" /\ rpc[c].reply = "sent"
      /\ late' = late \cup {c} /\ rpc' = [rpc EXCEPT ![c] = Response("lost", Nothing)]
  BY DEF TimesOut, coordinator, users, server
<1>2. /\ rpc'[c] = Response("lost", Nothing) /\ \A d \in Calls : d # c => rpc'[d] = rpc[d]
  BY <1>1 DEF OnceInv, RanOK
<1>3. RanOK'
  BY <1>1, <1>2 DEF OnceInv, RanOK, ExecutedOnce, Response
<1>4. LateOK' /\ OneAttempt'
  BY <1>1, <1>2 DEF OnceInv, LateOK, OneAttempt, Unfinished, Response
<1>5. \A d \in Calls : Live(d)' => Live(d)
  BY <1>1, <1>2 DEF Live
<1> QED BY <1>1, <1>2, <1>3, <1>4, <1>5, OnceFrame DEF OnceInv, NotYet, Response

LEMMA OnceSame ==
  ASSUME OnceInv, UNCHANGED <<phase, step, rpc, late, ran>>,
         \A u \in Users : user'[u] # user[u] => user[u] \notin {"starting"}
                                             /\ user'[u] \notin {"idle", "delayed"}
  PROVE  OnceInv'
<1>1. RanOK' /\ LateOK' /\ OneAttempt'
  BY CallUser DEF OnceInv, RanOK, ExecutedOnce, LateOK, OneAttempt, Unfinished
<1>2. \A d \in Calls : Live(d)' => Live(d)
  BY DEF Live
<1> QED BY <1>1, <1>2, OnceFrame DEF OnceInv, NotYet

LEMMA OnceNext ==
  ASSUME IInv, OnceInv, [Next]_vars
  PROVE  OnceInv'
<1>1. ASSUME NEW u \in Users,
             Call(u) \/ Retries(u) \/ GiveUp(u) \/ Collected(u)
      PROVE  OnceInv'
  <2>1. UNCHANGED <<step, rpc, late, ran>>
    BY <1>1 DEF Call, Retries, GiveUp, Collected, requests, server
  <2>2. CASE Call(u) \/ Retries(u)
    BY <2>1, <2>2, OnceAttempt DEF Call, Retries
  <2>3. CASE GiveUp(u) \/ Collected(u)
    BY <2>1, <2>3, OnceSame DEF GiveUp, Collected, coordinator, IInv, UsersOK
  <2> QED BY <1>1, <2>2, <2>3
<1>2. CASE Route
  <2>1. UNCHANGED <<step, rpc, late, ran>>
    BY <1>2 DEF Route, requests, server
  <2>2. \/ UNCHANGED <<phase, user>>
        \/ \E u \in Users : user[u] = "idle" /\ Attempt(u)
    BY <1>2, ThreadAssumption DEF Route, coordinator, users, Users
  <2> QED BY <2>1, <2>2, OnceAttempt, OnceSame
<1>3. ASSUME UNCHANGED vars \/ Handled \/ \E t \in Threads : GoalTurnStarts(t) \/ TurnEnds(t)
      PROVE  OnceInv'
  <2>1. UNCHANGED <<phase, user, step, rpc, late, ran>>
    BY <1>3 DEF vars, Handled, GoalTurnStarts, TurnEnds, coordinator, users, requests, server
  <2> QED BY <2>1, OnceSame
<1> QED BY <1>1, <1>2, <1>3, OnceTurnBegins, OnceBegins, OnceProceeds, OnceTimesOut,
           OnceServe, OnceServeLate DEF Next, Begins

-----------------------------------------------------------------------------
(* The theorems.                                                           *)

THEOREM Invariance == Spec => []IInv
BY InitInv, NextInv, PTL DEF Spec

\* startTurn and startGoal use the coordinator as its specification says.
THEOREM UsesLock == Spec => Coord!Spec
<1>1. Init => Coord!Init
  BY DEF Init
<1>2. IInv /\ [Next]_vars => CoordStep
  BY NextSteps DEF IInv
<1> QED BY <1>1, <1>2, Invariance, PTL DEF Spec, Coord!Spec, CoordStep

\* No turn/start is in flight on a thread that is reserved for a goal.
THEOREM GoalExclusion == Spec => []GoalExcludesTurns
<1>1. IInv => GoalExcludesTurns
  BY DEF IInv
<1> QED BY <1>1, Invariance, PTL

\* The operations of a thread run one at a time, in the order of the calls.
THEOREM StartsInOrder == Spec => MutexSpec
<1>1. Coord!Spec => Coord!MutexSpec
  BY Constants, LockRefinement
<1> QED BY <1>1, UsesLock, PTL DEF MutexSpec

\* The map of the coordinator holds an entry for a thread exactly while an operation
\* of the thread waits or runs.
THEOREM EntriesExact == Spec => []TailsExact
<1>1. Coord!Spec => []Coord!TailsExact
  BY Constants, TailsExactness
<1> QED BY <1>1, UsesLock, PTL DEF TailsExact

\* The input of a user is executed at most once, whatever is retried, lost or late.
THEOREM AtMostOnce == Spec => []ExecutedOnce
<1>1. Init => IInv /\ OnceInv
  BY InitInv, OnceInit
<1>2. IInv /\ OnceInv /\ [Next]_vars => (IInv /\ OnceInv)'
  BY NextInv, OnceNext
<1>3. OnceInv => ExecutedOnce
  BY DEF OnceInv, RanOK
<1> QED BY <1>1, <1>2, <1>3, PTL DEF Spec
=============================================================================
