----------------------- MODULE TurnEventRouterProofs -----------------------
(***************************************************************************)
(* Invariants of TurnEventRouter for every number of threads, turns,       *)
(* items, readers, starts and events, and every bound on what is buffered. *)
(***************************************************************************)
EXTENDS TurnEventRouter, SequenceTheorems, FiniteSetTheorems, FunctionTheorems, TLAPS

-----------------------------------------------------------------------------
(* What the operators of EventOrder return, for every sequence.            *)

\* A set of naturals that is not empty has a least element.  The inductions
\* below rest on it: each one refutes a least counterexample.
LEMMA LeastNatural ==
  ASSUME NEW T, T \subseteq Nat, T # {}
  PROVE  \E n \in T : \A m \in T : n <= m
<1> DEFINE below(n) == 0..n
           segments == {below(n) : n \in T}
<1>1. segments \subseteq FiniteSubsetsOf(Nat)
  <2>1. \A n \in T : n \in Nat /\ IsFiniteSet(0..n) /\ 0..n \in SUBSET Nat
    BY FS_Interval
  <2> QED BY <2>1 DEF FiniteSubsetsOf
<1>2. segments # {}
  OBVIOUS
<1>3. PICK s \in segments : \A r \in segments : ~(<<r, s>> \in StrictSubsetOrdering(Nat))
  <2> HIDE DEF segments
  <2> QED BY <1>1, <1>2, FS_StrictSubsetOrderingWellFounded, WFMin
<1>4. PICK n \in T : s = 0..n
  OBVIOUS
<1>5. ASSUME NEW m \in T, m < n
      PROVE  FALSE
  <2>1. 0..m \in SUBSET Nat /\ 0..n \in SUBSET Nat /\ 0..m \subseteq 0..n
    BY <1>5
  <2>2. 0..m # 0..n
    <3>1. n \in 0..n /\ n \notin 0..m
      BY <1>5
    <3> QED BY <3>1
  <2>3. <<0..m, 0..n>> \in StrictSubsetOrdering(Nat)
    BY <2>1, <2>2 DEF StrictSubsetOrdering
  <2> QED BY <1>3, <1>4, <2>3
<1> QED
  <2>1. \A m \in T : n <= m
    BY <1>5
  <2> QED BY <2>1

\* A bounded buffer is a sequence of the same events, no longer than its bound.
LEMMA LastOfProperties ==
  ASSUME NEW S, NEW s \in Seq(S), NEW max \in Nat
  PROVE  /\ LastOf(s, max) \in Seq(S)
         /\ Len(LastOf(s, max)) <= max
         /\ RangeOf(LastOf(s, max)) \subseteq RangeOf(s)
<1>0. Len(s) \in Nat /\ DOMAIN s = 1..Len(s)
  BY LenProperties
<1>1. CASE Len(s) <= max
  BY <1>1, <1>0 DEF LastOf
<1>2. CASE ~(Len(s) <= max)
  <2> DEFINE m == Len(s) - max + 1
  <2>1. /\ m \in Int
        /\ m >= 1
        /\ Len(s) - m + 1 = max
        /\ m <= Len(s) + 1
    BY <1>0, <1>2
  <2>2. \A i \in m..Len(s) : s[i] \in S
    BY <1>0, <2>1, ElementOfSeq
  <2>3. LastOf(s, max) = SubSeq(s, m, Len(s))
    BY <1>2, <2>1 DEF LastOf
  <2> HIDE DEF m
  <2>4. /\ SubSeq(s, m, Len(s)) \in Seq(S)
        /\ Len(SubSeq(s, m, Len(s))) = max
        /\ \A i \in 1..max : SubSeq(s, m, Len(s))[i] = s[m + i - 1]
    <3>1. /\ SubSeq(s, m, Len(s)) \in Seq(S)
          /\ Len(SubSeq(s, m, Len(s))) = IF m <= Len(s) THEN Len(s) - m + 1 ELSE 0
          /\ \A i \in 1..(Len(s) - m + 1) : SubSeq(s, m, Len(s))[i] = s[m + i - 1]
      BY <1>0, <2>1, <2>2, SubSeqProperties
    <3> QED BY <3>1, <2>1, <1>0
  <2>5. DOMAIN SubSeq(s, m, Len(s)) = 1..max
    BY <2>4, LenProperties
  <2>6. \A i \in 1..max : m + i - 1 \in 1..Len(s)
    BY <2>1, <1>0
  <2>7. RangeOf(SubSeq(s, m, Len(s))) \subseteq RangeOf(s)
    BY <1>0, <2>4, <2>5, <2>6 DEF RangeOf
  <2> QED BY <2>3, <2>4, <2>7
<1> QED BY <1>1, <1>2

\* g is the function by which InOrder collects S up to max.
Collects(g, S, max) ==
  g = [n \in 0..max |->
        IF n = 0 THEN <<>>
        ELSE IF n \in S THEN Append(g[n - 1], n) ELSE g[n - 1]]

\* s lists the elements of S up to n, each once, in increasing order.
Lists(s, S, n) ==
  /\ s \in Seq(Nat)
  /\ RangeOf(s) = S \cap (1..n)
  /\ \A i, j \in 1..Len(s) : i < j => s[i] < s[j]

\* The function InOrder is defined by exists, whatever the bound.
LEMMA CollectorExists ==
  ASSUME NEW S, NEW max \in Nat
  PROVE  \E g : Collects(g, S, max)
<1> DEFINE none == {m \in Nat : ~\E g : Collects(g, S, m)}
<1>1. SUFFICES ASSUME none # {} PROVE FALSE
  OBVIOUS
<1>2. PICK m \in none : \A l \in none : m <= l
  BY <1>1, LeastNatural
<1>3. CASE m = 0
  <2>1. Collects([n \in 0..0 |-> <<>>], S, 0)
    BY DEF Collects
  <2> QED BY <2>1, <1>2, <1>3
<1>4. CASE m # 0
  <2>1. PICK g : Collects(g, S, m - 1)
    BY <1>2, <1>4
  <2> DEFINE h == [n \in 0..m |->
               IF n = m THEN IF m \in S THEN Append(g[m - 1], m) ELSE g[m - 1]
               ELSE g[n]]
  <2>2. \A n \in 0..m : h[n] = IF n = 0 THEN <<>>
                               ELSE IF n \in S THEN Append(h[n - 1], n) ELSE h[n - 1]
    <3>1. \A n \in 0..m - 1 : g[n] = IF n = 0 THEN <<>>
                                 ELSE IF n \in S THEN Append(g[n - 1], n) ELSE g[n - 1]
      <4>1. g = [n \in 0..m - 1 |->
                  IF n = 0 THEN <<>>
                  ELSE IF n \in S THEN Append(g[n - 1], n) ELSE g[n - 1]]
        BY <2>1 DEF Collects
      <4> DEFINE d(n) == IF n = 0 THEN <<>>
                         ELSE IF n \in S THEN Append(g[n - 1], n) ELSE g[n - 1]
      <4>2. g = [n \in 0..m - 1 |-> d(n)]
        BY <4>1
      <4> HIDE DEF d
      <4>3. \A n \in 0..m - 1 : g[n] = d(n)
        BY <4>2
      <4> QED BY <4>3 DEF d
    <3>2. h[m] = IF m \in S THEN Append(h[m - 1], m) ELSE h[m - 1]
      <4>1. h[m - 1] = g[m - 1]
        BY <1>2, <1>4
      <4> QED BY <1>2, <1>4, <4>1
    <3>3. ASSUME NEW n \in 0..m - 1
          PROVE  h[n] = IF n = 0 THEN <<>>
                        ELSE IF n \in S THEN Append(h[n - 1], n) ELSE h[n - 1]
      <4>1. h[n] = g[n]
        BY <1>2
      <4>2. n # 0 => h[n - 1] = g[n - 1]
        BY <1>2
      <4> QED BY <3>1, <4>1, <4>2
    <3> HIDE DEF h
    <3>4. \A n \in 0..m : n = m \/ n \in 0..m - 1
      BY <1>2
    <3> QED BY <1>4, <3>2, <3>3, <3>4
  <2>3. Collects(h, S, m)
    <3>1. h = [n \in 0..m |-> h[n]]
      OBVIOUS
    <3> HIDE DEF h
    <3> QED BY <2>2, <3>1 DEF Collects
  <2> QED BY <2>3, <1>2
<1> QED BY <1>3, <1>4

\* Appending a new greatest element to a list keeps it a list.
LEMMA ListsAppend ==
  ASSUME NEW S, NEW n \in Nat \ {0}, NEW s, Lists(s, S, n - 1)
  PROVE  Lists(IF n \in S THEN Append(s, n) ELSE s, S, n)
<1>0. s \in Seq(Nat) /\ Len(s) \in Nat /\ DOMAIN s = 1..Len(s)
  BY LenProperties DEF Lists
<1>1. CASE n \notin S
  BY <1>1 DEF Lists
<1>2. CASE n \in S
  <2> DEFINE t == Append(s, n)
  <2>1. /\ t \in Seq(Nat)
        /\ Len(t) = Len(s) + 1
        /\ DOMAIN t = 1..Len(s) + 1
        /\ \A i \in 1..Len(s) : t[i] = s[i]
        /\ t[Len(s) + 1] = n
    BY <1>0, AppendProperties, LenProperties
  <2> HIDE DEF t
  <2>2. \A i \in 1..Len(s) : s[i] \in S /\ s[i] \in 1..(n - 1)
    BY <1>0 DEF Lists, RangeOf
  <2>3. RangeOf(t) = RangeOf(s) \cup {n}
    <3>1. RangeOf(t) = {t[i] : i \in 1..Len(s) + 1}
      BY <2>1 DEF RangeOf
    <3>2. RangeOf(s) = {s[i] : i \in 1..Len(s)}
      BY <1>0 DEF RangeOf
    <3>3. 1..Len(s) + 1 = (1..Len(s)) \cup {Len(s) + 1}
      BY <1>0
    <3> QED BY <3>1, <3>2, <3>3, <2>1
  <2>4. RangeOf(t) = S \cap (1..n)
    BY <1>2, <2>3 DEF Lists
  <2>5. \A i, j \in 1..Len(t) : i < j => t[i] < t[j]
    <3>1. ASSUME NEW i \in 1..Len(s), NEW j \in 1..Len(s), i < j
          PROVE  t[i] < t[j]
      BY <3>1, <2>1 DEF Lists
    <3>2. ASSUME NEW i \in 1..Len(s)
          PROVE  t[i] < t[Len(s) + 1]
      BY <2>1, <2>2
    <3>3. ASSUME NEW i \in 1..Len(t), NEW j \in 1..Len(t), i < j
          PROVE  t[i] < t[j]
      <4> DEFINE l == Len(s)
      <4>0. l \in Nat /\ Len(t) = l + 1
        BY <1>0, <2>1
      <4> HIDE DEF l
      <4>1. i \in 1..l /\ (j \in 1..l \/ j = l + 1)
        BY <3>3, <4>0
      <4> USE DEF l
      <4> QED BY <3>1, <3>2, <3>3, <4>1
    <3> QED BY <3>3
  <2>6. Lists(t, S, n)
    BY <2>1, <2>4, <2>5 DEF Lists
  <2> QED BY <2>6, <1>2 DEF t
<1> QED BY <1>1, <1>2

\* InOrder(S, max) lists the elements of S up to max in increasing order, each
\* one once: sorting the replay set loses no event and repeats none.
THEOREM InOrderLists ==
  ASSUME NEW S, NEW max \in Nat
  PROVE  Lists(InOrder(S, max), S, max)
<1> DEFINE f == CHOOSE g : Collects(g, S, max)
           wrong == {n \in 0..max : ~Lists(f[n], S, n)}
<1>1. InOrder(S, max) = f[max]
  BY DEF InOrder, Collects
<1>2. Collects(f, S, max)
  BY CollectorExists
<1> HIDE DEF f
<1>3. SUFFICES ASSUME wrong # {} PROVE FALSE
  BY <1>1
<1>4. PICK n \in wrong : \A m \in wrong : n <= m
  <2>1. wrong \subseteq Nat
    OBVIOUS
  <2> HIDE DEF wrong
  <2> QED BY <1>3, <2>1, LeastNatural
<1>5. CASE n = 0
  <2>1. f[0] = <<>>
    BY <1>2 DEF Collects
  <2>2. Lists(<<>>, S, 0)
    BY EmptySeq DEF Lists, RangeOf
  <2> QED BY <2>1, <2>2, <1>4, <1>5
<1>6. CASE n # 0
  <2>1. Lists(f[n - 1], S, n - 1)
    BY <1>4, <1>6
  <2>2. f[n] = IF n \in S THEN Append(f[n - 1], n) ELSE f[n - 1]
    BY <1>2, <1>4, <1>6 DEF Collects
  <2> QED BY <2>1, <2>2, <1>4, <1>6, ListsAppend
<1> QED BY <1>5, <1>6

-----------------------------------------------------------------------------
(* Type correctness.                                                       *)

LEMMA StreamOperationTypes ==
  ASSUME NEW s \in Stream, NEW n \in Nat
  PROVE  Push(s, n) \in Stream /\ Complete(s) \in Stream /\ Fail(s) \in Stream
<1>1. Append(s.got, n) \in Seq(Nat) /\ Append(s.values, n) \in Seq(Nat)
  BY AppendProperties DEF Stream
<1>2. s.waiters > 0 => s.waiters - 1 \in Nat
  BY DEF Stream
<1>3. <<>> \in Seq(Nat)
  BY EmptySeq
<1>4. Push(s, n) \in Stream
  BY <1>1, <1>2 DEF Push, Stream
<1>5. Complete(s) \in Stream
  BY DEF Complete, Stream
<1>6. Fail(s) \in Stream
  BY <1>3 DEF Fail, Stream
<1> QED BY <1>4, <1>5, <1>6

LEMMA NewTypes == NewState \in TurnState /\ NewStream \in Stream /\ NewOp \in Op
<1>1. <<>> \in Seq(Nat)
  BY EmptySeq
<1> QED BY <1>1 DEF NewState, TurnState, NewStream, Stream, NewOp, Op

LEMMA DisposedType ==
  ASSUME NEW st \in TurnState, NEW h, NEW k
  PROVE  Disposed(st, h, k) \in TurnState
BY NewTypes DEF Disposed, TurnState

LEMMA SettledType ==
  ASSUME NEW st \in TurnState
  PROVE  Settled(st) \in TurnState
<1>1. <<>> \in Seq(Nat)
  BY EmptySeq
<1> QED BY <1>1, NewTypes DEF Settled, TurnState

LEMMA SetItemType ==
  ASSUME NEW items \in Seq(Nat), NEW n \in Nat, NEW what
  PROVE  SetItem(items, n, what) \in Seq(Nat)
<1> DEFINE same == \E p \in DOMAIN items : log[items[p]].what = what
           put == [p \in DOMAIN items |-> IF log[items[p]].what = what THEN n ELSE items[p]]
<1>1. /\ Len(items) \in Nat
      /\ DOMAIN items = 1..Len(items)
      /\ items \in [1..Len(items) -> Nat]
  BY LenProperties
<1>2. put \in [1..Len(items) -> Nat]
  BY <1>1
<1>3. put \in Seq(Nat)
  BY <1>1, <1>2, SeqDef
<1>4. Append(items, n) \in Seq(Nat)
  BY AppendProperties
<1> QED BY <1>3, <1>4 DEF SetItem

LEMMA RecordedType ==
  ASSUME RouterAssumption, TypeOK, NEW k \in Keys, NEW n \in Nat, NEW what \in What
  PROVE  Recorded(k, n, what) \in TurnState
<1> DEFINE st == states[k]
<1>1. st \in TurnState
  BY DEF TypeOK
<1>2. LastOf(Append(st.early, n), MaxPendingEvents) \in Seq(Nat)
  BY <1>1, AppendProperties, LastOfProperties DEF RouterAssumption, TurnState
<1>3. SetItem(st.items, n, what) \in Seq(Nat)
  BY <1>1, SetItemType DEF TurnState
<1> QED BY <1>1, <1>2, <1>3 DEF Recorded, TurnState

LEMMA TrimmedType ==
  ASSUME RouterAssumption, NEW sts \in [Keys -> TurnState]
  PROVE  Trimmed(sts) \in [Keys -> TurnState]
<1>1. ASSUME NEW k \in Keys
      PROVE  [sts[k] EXCEPT !.items = LastOf(@, MaxPendingEvents)] \in TurnState
  BY LastOfProperties DEF RouterAssumption, TurnState
<1> QED BY <1>1, NewTypes DEF Trimmed

LEMMA ReplaySeqType ==
  ASSUME TypeOK, NEW k \in Keys
  PROVE  ReplaySeq(k) \in Seq(Nat)
<1>1. Len(log) \in Nat
  BY LenProperties DEF TypeOK
<1> QED BY <1>1, InOrderLists DEF ReplaySeq, Lists

LEMMA OwedSinceType ==
  ASSUME TypeOK, NEW t \in Starts, NEW k \in Keys
  PROVE  OwedSince(t, k) \in Nat
<1> DEFINE readers == {h \in Streams : streams[h].key = k /\ streams[h].conn = conn}
           claims == {streams[h].since : h \in readers} \cup {ops[t].since}
<1>1. claims \subseteq Nat /\ claims # {}
  <2>1. ops[t].since \in Nat
    BY DEF TypeOK, Op
  <2>2. \A h \in Streams : streams[h].since \in Nat
    BY DEF TypeOK, Stream
  <2> QED BY <2>1, <2>2
<1>2. Len(log) \in Nat
  BY LenProperties DEF TypeOK
<1>3. \E n \in claims : \A m \in claims : n <= m
  <2> HIDE DEF claims
  <2> QED BY <1>1, LeastNatural
<1>4. (CHOOSE n \in claims : \A m \in claims : n <= m) \in Nat
  <2> HIDE DEF claims
  <2> QED BY <1>1, <1>3
<1> QED BY <1>2, <1>4 DEF OwedSince

LEMMA OpenedType ==
  ASSUME TypeOK, NEW k \in Keys, NEW h \in Streams, NEW completes \in BOOLEAN
  PROVE  Opened(k, h, completes) \in TurnState
<1> DEFINE st == [states[k] EXCEPT !.subscribed = TRUE, !.streams = @ \cup {h}]
           kept == IF completes THEN Disposed(st, h, k) ELSE st
<1>1. st \in TurnState
  BY DEF TypeOK, TurnState
<1>2. kept \in TurnState
  BY <1>1, DisposedType
<1>3. <<>> \in Seq(Nat)
  BY EmptySeq
<1>4. [kept EXCEPT !.early = <<>>] \in TurnState
  BY <1>2, <1>3 DEF TurnState
<1> QED BY <1>2, <1>4 DEF Opened

LEMMA InitType == Init => TypeOK
<1>1. <<>> \in Seq(Event)
  BY EmptySeq
<1> QED BY <1>1, NewTypes DEF Init, TypeOK

\* One step per action; each action leaves every variable in its type.
LEMMA NextType ==
  ASSUME RouterAssumption, TypeOK, Placed, [Next]_vars
  PROVE  TypeOK'
<1> USE DEF TypeOK
<1>1. ASSUME NEW h \in Streams, Take(h)
      PROVE  TypeOK'
  <2>1. /\ streams[h] \in Stream
        /\ Head(streams[h].values) \in Nat
        /\ Tail(streams[h].values) \in Seq(Nat)
    BY <1>1, HeadTailProperties DEF Take, Stream
  <2>2. Append(streams[h].got, Head(streams[h].values)) \in Seq(Nat)
    BY <2>1, AppendProperties DEF Stream
  <2>3. [streams[h] EXCEPT !.values = Tail(@),
                           !.got = Append(@, Head(streams[h].values))] \in Stream
    BY <2>1, <2>2 DEF Stream
  <2>4. streams' \in [Streams -> Stream]
    BY <1>1, <2>3 DEF Take
  <2> QED BY <1>1, <2>4 DEF Take
<1>2. ASSUME NEW h \in Streams, Wait(h)
      PROVE  TypeOK'
  <2>1. [streams[h] EXCEPT !.waiters = @ + 1] \in Stream
    <3>1. streams[h] \in Stream /\ streams[h].waiters + 1 \in Nat
      BY DEF Stream
    <3> QED BY <3>1 DEF Stream
  <2>2. streams' \in [Streams -> Stream]
    BY <1>2, <2>1 DEF Wait
  <2> QED BY <1>2, <2>2 DEF Wait
<1>3. ASSUME NEW h \in Streams, Return(h)
      PROVE  TypeOK'
  <2> DEFINE s == streams[h]
  <2>1. Complete(s) \in Stream
    BY StreamOperationTypes
  <2>2. [Complete(s) EXCEPT !.phase = "returned", !.values = <<>>] \in Stream
    BY <2>1, EmptySeq DEF Stream
  <2>3. streams' \in [Streams -> Stream]
    BY <1>3, <2>2 DEF Return
  <2>4. ASSUME NEW k \in Keys
        PROVE  Disposed(states[k], h, k) \in TurnState
    BY DisposedType
  <2>5. states' \in [Keys -> TurnState]
    BY <1>3, <2>4 DEF Return
  <2> QED BY <1>3, <2>3, <2>5 DEF Return
<1>4. ASSUME NEW t \in Starts, NEW th \in Threads, ReserveStart(t, th)
      PROVE  TypeOK'
  <2>1. Len(log) \in Nat
    BY LenProperties
  <2>2. ops' \in [Starts -> Op]
    BY <1>4, <2>1 DEF ReserveStart, Op
  <2>3. starts' \in [Threads -> SUBSET Starts]
    BY <1>4 DEF ReserveStart
  <2> QED BY <1>4, <2>2, <2>3 DEF ReserveStart
<1>5. ASSUME NEW t \in Starts, Release(t)
      PROVE  TypeOK'
  <2>1. ops' \in [Starts -> Op]
    BY <1>5 DEF Release, Op
  <2>2. starts' \in [Threads -> SUBSET Starts]
    BY <1>5 DEF Release
  <2>3. states' \in [Keys -> TurnState]
    BY <1>5, SettledType DEF Release
  <2> QED BY <1>5, <2>1, <2>2, <2>3 DEF Release
<1>6. ASSUME NEW t \in Starts, NEW turn \in Turns, NEW h \in Streams, Open(t, turn, h)
      PROVE  TypeOK'
  <2> DEFINE k == <<ops[t].thread, turn>>
             completes == \E n \in Replay(k) : IsCompletion(n)
  <2>1. Len(log) \in Nat
    BY LenProperties
  <2>2. k \in Keys
    BY <1>6 DEF Open, Keys, Placed
  <2>3. QED
    <3>1. Opened(k, h, completes) \in TurnState
      BY <2>2, OpenedType
    <3>2. states' \in [Keys -> TurnState]
      BY <1>6, <3>1 DEF Open, KeyOf
    <3>3. /\ ReplaySeq(k) \in Seq(Nat)
          /\ OwedSince(t, k) \in Nat
          /\ ops[t].since \in Nat /\ ops[t].conn \in Nat
      BY <2>2, ReplaySeqType, OwedSinceType DEF Op
    <3>4. streams' \in [Streams -> Stream]
      BY <1>6, <2>1, <2>2, <3>3, EmptySeq DEF Open, KeyOf, Stream
    <3>5. ops' \in [Starts -> Op]
      BY <1>6 DEF Open, Op
    <3> QED BY <1>6, <3>2, <3>4, <3>5 DEF Open
<1>7. ASSUME NEW th \in Threads, NEW turn \in Turns, NEW what \in What, Route(th, turn, what)
      PROVE  TypeOK'
  <2> DEFINE k == <<th, turn>>
             n == Len(log) + 1
             st == Recorded(k, n, what)
             finished == st.subscribed /\ st.terminal # 0 /\ st.streams = {} /\ ~PendingStart(k)
             sts == [states EXCEPT ![k] = IF finished THEN NewState ELSE st]
  <2>1. k \in Keys /\ n \in Nat
    BY LenProperties DEF Keys
  <2>2. st \in TurnState
    BY <2>1, RecordedType
  <2>3. sts \in [Keys -> TurnState]
    BY <2>2, NewTypes
  <2>4. states' = Trimmed(sts)
    BY <1>7 DEF Route, KeyOf
  <2>5. states' \in [Keys -> TurnState]
    <3> HIDE DEF sts
    <3> QED BY <2>3, <2>4, TrimmedType
  <2>6. log' \in Seq(Event)
    <3>1. [key |-> k, what |-> what] \in Event
      BY <2>1 DEF Event
    <3>2. log' = Append(log, [key |-> k, what |-> what])
      BY <1>7 DEF Route
    <3> QED BY <3>1, <3>2, AppendProperties
  <2>7. streams' \in [Streams -> Stream]
    <3>1. \A h \in Streams : /\ Push(streams[h], n) \in Stream
                             /\ Complete(Push(streams[h], n)) \in Stream
      BY <2>1, StreamOperationTypes
    <3>2. streams' = [h \in Streams |->
             IF h \in states[k].streams
             THEN IF st.terminal # 0 THEN Complete(Push(streams[h], n)) ELSE Push(streams[h], n)
             ELSE streams[h]]
      BY <1>7 DEF Route, KeyOf
    <3> HIDE DEF st, n
    <3> QED BY <3>1, <3>2
  <2> QED BY <1>7, <2>5, <2>6, <2>7 DEF Route
<1>8. ASSUME FailAll
      PROVE  TypeOK'
  <2>1. streams' \in [Streams -> Stream]
    BY <1>8, StreamOperationTypes DEF FailAll
  <2> QED BY <1>8, <2>1, NewTypes DEF FailAll
<1>9. CASE UNCHANGED vars
  BY <1>9 DEF vars
<1> QED BY <1>1, <1>2, <1>3, <1>4, <1>5, <1>6, <1>7, <1>8, <1>9 DEF Next

-----------------------------------------------------------------------------
(* The inductive invariant, one lemma per action.                          *)

LEMMA InitInv == Init => IInv
<1> SUFFICES ASSUME Init PROVE IInv
  OBVIOUS
<1>1. TypeOK
  BY InitType
<1>2. ops \in [Starts -> {NewOp}] /\ conn = 0
  BY DEF Init
<1> QED BY <1>1, <1>2 DEF Init, IInv, Placed, LiveReadersRegistered, ReadersMeanRunning,
     TerminalRouted, NoForgottenWaiter, ReservationHeld, OwnedTurnsLetGo, NewState, NewStream, NewOp

LEMMA TakeInv ==
  ASSUME IInv, TypeOK', NEW h \in Streams, Take(h)
  PROVE  IInv'
<1> USE DEF Take, IInv, TypeOK
<1>1. \A g \in Streams : /\ streams'[g].phase = streams[g].phase
                        /\ streams'[g].key = streams[g].key
                        /\ streams'[g].waiters = streams[g].waiters
                        /\ g # h => streams'[g].values = streams[g].values
  BY DEF Stream
<1>2. streams[h].waiters \in Nat /\ ~(streams[h].waiters > 0)
  BY DEF NoForgottenWaiter, Stream
<1>3. NoForgottenWaiter'
  BY <1>1, <1>2 DEF NoForgottenWaiter
<1>4. LiveReadersRegistered'
  BY <1>1 DEF LiveReadersRegistered
<1>5. Placed'
  BY <1>1 DEF Placed
<1>6. (ReadersMeanRunning /\ TerminalRouted /\ ReservationHeld
        /\ OwnedTurnsLetGo)'
  BY DEF ReadersMeanRunning, TerminalRouted, IsCompletion, ReservationHeld,
     OwnedTurnsLetGo, PendingStart
<1> QED BY <1>3, <1>4, <1>5, <1>6

LEMMA WaitInv ==
  ASSUME IInv, TypeOK', NEW h \in Streams, Wait(h)
  PROVE  IInv'
<1> USE DEF Wait, IInv, TypeOK
<1>1. \A g \in Streams : /\ streams'[g].phase = streams[g].phase
                        /\ streams'[g].key = streams[g].key
                        /\ streams'[g].values = streams[g].values
                        /\ g # h => streams'[g].waiters = streams[g].waiters
  BY DEF Stream
<1>2. NoForgottenWaiter'
  BY <1>1 DEF NoForgottenWaiter
<1>3. LiveReadersRegistered'
  BY <1>1 DEF LiveReadersRegistered
<1>4. Placed'
  BY <1>1 DEF Placed
<1>5. (ReadersMeanRunning /\ TerminalRouted /\ ReservationHeld
        /\ OwnedTurnsLetGo)'
  BY DEF ReadersMeanRunning, TerminalRouted, IsCompletion, ReservationHeld,
     OwnedTurnsLetGo, PendingStart
<1> QED BY <1>2, <1>3, <1>4, <1>5

LEMMA ReturnInv ==
  ASSUME IInv, TypeOK', NEW h \in Streams, Return(h)
  PROVE  IInv'
<1> USE DEF Return, IInv, TypeOK
<1> DEFINE k == streams[h].key
<1>1. /\ streams'[h].phase = "returned"
      /\ streams'[h].key = k
      /\ streams'[h].waiters = 0
      /\ k \in Keys
      /\ \A g \in Streams \ {h} : streams'[g] = streams[g]
  <2>0. streams[h].waiters \in Nat
    BY DEF Stream
  <2>1. streams[h].waiters > 0 => streams[h].phase = "open" /\ streams[h].values = <<>>
    <3> HIDE DEF Return
    <3> QED BY DEF NoForgottenWaiter
  <2>2. streams[h].values = <<>> \/ streams[h].waiters = 0
    BY <2>0, <2>1
  <2>3. Complete(streams[h]).waiters = 0 /\ Complete(streams[h]).key = k
    BY <2>0, <2>1, <2>2 DEF Complete, Stream
  <2>4. Complete(streams[h]) \in Stream
    BY StreamOperationTypes
  <2> QED BY <2>3, <2>4 DEF Stream, Placed
<1>2. CASE streams[h].phase = "open"
  <2>1. states' = [states EXCEPT ![k] = [states[k] EXCEPT !.streams = @ \ {h}]]
    <3>1. states[k] \in TurnState /\ states[k].terminal = 0
      BY <1>1, <1>2 DEF LiveReadersRegistered, ReadersMeanRunning
    <3>2. [states[k] EXCEPT !.streams = @ \ {h}].terminal = 0
      BY <3>1 DEF TurnState
    <3>3. Disposed(states[k], h, k) = [states[k] EXCEPT !.streams = @ \ {h}]
      BY <3>2 DEF Disposed
    <3> QED BY <1>2, <3>3
  <2>2. /\ states'[k].streams = states[k].streams \ {h}
        /\ states'[k].terminal = states[k].terminal
        /\ states'[k].subscribed = states[k].subscribed
        /\ states'[k].early = states[k].early
        /\ \A j \in Keys \ {k} : states'[j] = states[j]
    BY <1>1, <2>1 DEF TurnState
  <2>3. LiveReadersRegistered'
    BY <1>1, <2>2 DEF LiveReadersRegistered
  <2>4. ReadersMeanRunning' /\ OwnedTurnsLetGo'
    BY <2>2 DEF ReadersMeanRunning, OwnedTurnsLetGo, PendingStart
  <2>5. TerminalRouted'
    BY <2>2 DEF TerminalRouted, IsCompletion
  <2>6. NoForgottenWaiter' /\ Placed' /\ ReservationHeld'
    BY <1>1 DEF NoForgottenWaiter, Placed, ReservationHeld
  <2> QED BY <2>3, <2>4, <2>5, <2>6
<1>3. CASE streams[h].phase # "open"
  <2>1. UNCHANGED states
    BY <1>3
  <2>2. LiveReadersRegistered'
    BY <1>1, <1>3, <2>1 DEF LiveReadersRegistered
  <2>3. (ReadersMeanRunning /\ TerminalRouted /\ OwnedTurnsLetGo)'
    BY <2>1 DEF ReadersMeanRunning, TerminalRouted, IsCompletion,
       OwnedTurnsLetGo, PendingStart
  <2>4. NoForgottenWaiter' /\ Placed' /\ ReservationHeld'
    BY <1>1 DEF NoForgottenWaiter, Placed, ReservationHeld
  <2> QED BY <2>2, <2>3, <2>4
<1> QED BY <1>2, <1>3

LEMMA ReserveStartInv ==
  ASSUME IInv, TypeOK', NEW t \in Starts, NEW th \in Threads, ReserveStart(t, th)
  PROVE  IInv'
<1> USE DEF ReserveStart, IInv, TypeOK
<1>1. /\ ops'[t].thread = th /\ ops'[t].conn = conn
      /\ \A u \in Starts \ {t} : ops'[u] = ops[u]
      /\ t \in starts'[th]
      /\ \A r \in Threads : starts[r] \subseteq starts'[r]
  OBVIOUS
<1>2. Placed' /\ ReservationHeld'
  BY <1>1 DEF Placed, ReservationHeld
<1>3. \A u \in Starts : ops'[u].conn <= conn'
  BY <1>1
<1>4. (LiveReadersRegistered /\ ReadersMeanRunning /\ TerminalRouted /\ NoForgottenWaiter)'
  BY DEF LiveReadersRegistered, ReadersMeanRunning, TerminalRouted, IsCompletion, NoForgottenWaiter
<1>5. \A k \in Keys : PendingStart(k) => PendingStart(k)'
  BY <1>1 DEF PendingStart, Keys, ThreadOf
<1>6. OwnedTurnsLetGo'
  BY <1>5 DEF OwnedTurnsLetGo
<1> QED BY <1>2, <1>3, <1>4, <1>6

\* What is left of turn st once the last start of its thread is released.
SettledFacts(st) ==
  /\ Settled(st).streams = st.streams
  /\ Settled(st).streams # {} => Settled(st).subscribed /\ Settled(st).terminal = 0
  /\ Settled(st).terminal \in {st.terminal, 0}
  /\ Settled(st).early = <<>>
  /\ ~(Settled(st).subscribed /\ Settled(st).terminal # 0)

LEMMA SettledKeepsReaders ==
  ASSUME NEW st \in TurnState, st.streams # {} => st.subscribed /\ st.terminal = 0
  PROVE  SettledFacts(st)
<1>1. CASE ~st.subscribed \/ (st.terminal # 0 /\ st.streams = {})
  BY <1>1 DEF SettledFacts, Settled, NewState, TurnState
<1>2. CASE st.subscribed /\ ~(st.terminal # 0 /\ st.streams = {})
  <2>1. Settled(st) = [st EXCEPT !.early = <<>>]
    BY <1>2 DEF Settled
  <2> QED BY <1>2, <2>1 DEF SettledFacts, TurnState
<1> QED BY <1>1, <1>2

LEMMA ReleaseInv ==
  ASSUME IInv, TypeOK', NEW t \in Starts, Release(t)
  PROVE  IInv'
<1> USE DEF Release, IInv, TypeOK
<1> DEFINE th == ops[t].thread
<1>1. /\ ops'[t].phase = "released" /\ ops'[t].conn = ops[t].conn
      /\ ops'[t].thread = th /\ th \in Threads
      /\ \A u \in Starts \ {t} : ops'[u] = ops[u]
  BY DEF Placed, Op
<1>2. Placed' /\ \A u \in Starts : ops'[u].conn <= conn'
  BY <1>1 DEF Placed
<1>3. NoForgottenWaiter'
  BY DEF NoForgottenWaiter
<1>4. ReservationHeld'
  BY <1>1, <1>2 DEF ReservationHeld, Placed
<1>5. CASE starts[th] # {t}
  <2>1. UNCHANGED states
    BY <1>5
  <2>2. \A r \in Threads : starts[r] # {} => starts'[r] # {}
    BY <1>1, <1>5
  <2>3. \A k \in Keys : PendingStart(k) => PendingStart(k)'
    BY <2>2 DEF PendingStart, Keys, ThreadOf
  <2>4. (LiveReadersRegistered /\ ReadersMeanRunning /\ TerminalRouted)'
    BY <2>1 DEF LiveReadersRegistered, ReadersMeanRunning, TerminalRouted, IsCompletion
  <2>5. OwnedTurnsLetGo'
    BY <2>1, <2>3 DEF OwnedTurnsLetGo
  <2> QED BY <1>2, <1>3, <1>4, <2>4, <2>5
<1>6. CASE starts[th] = {t}
  <2>1. /\ \A k \in Keys : ThreadOf(k) = th => states'[k] = Settled(states[k])
        /\ \A k \in Keys : ThreadOf(k) # th =>
             states'[k] = states[k] /\ (PendingStart(k) => PendingStart(k)')
    BY <1>1, <1>6 DEF PendingStart, Keys, ThreadOf
  <2>2. \A k \in Keys : SettledFacts(states[k])
    BY SettledKeepsReaders DEF ReadersMeanRunning
  <2>3. LiveReadersRegistered'
    BY <2>1, <2>2 DEF LiveReadersRegistered, SettledFacts
  <2>4. ReadersMeanRunning'
    BY <2>1, <2>2 DEF ReadersMeanRunning, SettledFacts
  <2>5. TerminalRouted'
    BY <2>1, <2>2 DEF TerminalRouted, IsCompletion, SettledFacts
  <2>6. OwnedTurnsLetGo'
    BY <2>1, <2>2 DEF OwnedTurnsLetGo, SettledFacts
  <2> QED BY <1>2, <1>3, <1>4, <2>3, <2>4, <2>5, <2>6
<1> QED BY <1>5, <1>6

\* What turn k is once reader h was opened on it.
OpenedFacts(k, h, completes) ==
  LET st == Opened(k, h, completes)
  IN  /\ st.streams = states[k].streams \cup (IF completes THEN {} ELSE {h})
      /\ st.streams # {} => st.subscribed /\ st.terminal = 0
      /\ st.terminal \in {states[k].terminal, 0}
      /\ ~PendingStart(k) => st.early = <<>>
      /\ ~PendingStart(k) => ~(st.subscribed /\ st.terminal # 0)

LEMMA OpenedRegisters ==
  ASSUME IInv, NEW k \in Keys, NEW h \in Streams, NEW completes \in BOOLEAN,
         h \notin states[k].streams, ~completes => states[k].terminal = 0
  PROVE  OpenedFacts(k, h, completes)
<1> DEFINE old == states[k]
           st == [old EXCEPT !.subscribed = TRUE, !.streams = @ \cup {h}]
           kept == IF completes THEN Disposed(st, h, k) ELSE st
<1>1. /\ old \in TurnState
      /\ old.streams # {} => old.subscribed /\ old.terminal = 0
  BY DEF IInv, TypeOK, ReadersMeanRunning
<1>2. /\ st \in TurnState
      /\ st.subscribed
      /\ st.streams = old.streams \cup {h}
      /\ st.terminal = old.terminal
  BY <1>1 DEF TurnState
<1>3. /\ kept \in TurnState
      /\ kept.streams = old.streams \cup (IF completes THEN {} ELSE {h})
      /\ kept.streams # {} => kept.subscribed /\ kept.terminal = 0
      /\ kept.terminal \in {old.terminal, 0}
      /\ ~PendingStart(k) => ~(kept.subscribed /\ kept.terminal # 0)
  <2>1. CASE ~completes
    BY <1>1, <1>2, <2>1
  <2>2. CASE completes
    <3> DEFINE rest == [st EXCEPT !.streams = @ \ {h}]
    <3>1. /\ rest \in TurnState
          /\ rest.subscribed
          /\ rest.streams = old.streams
          /\ rest.terminal = old.terminal
      BY <1>2 DEF TurnState
    <3>2. kept = IF rest.terminal # 0 /\ rest.streams = {} /\ ~PendingStart(k)
                 THEN NewState ELSE rest
      BY <2>2 DEF Disposed
    <3> HIDE DEF kept, rest, st
    <3>3. CASE rest.terminal # 0 /\ rest.streams = {} /\ ~PendingStart(k)
      BY <3>1, <3>2, <3>3, <2>2, NewTypes DEF NewState
    <3>4. CASE ~(rest.terminal # 0 /\ rest.streams = {} /\ ~PendingStart(k))
      BY <3>1, <3>2, <3>4, <2>2, <1>1
    <3> QED BY <3>3, <3>4
  <2> QED BY <2>1, <2>2
<1>4. Opened(k, h, completes) = IF PendingStart(k) THEN kept ELSE [kept EXCEPT !.early = <<>>]
  BY DEF Opened
<1> HIDE DEF kept, st
<1>5. CASE PendingStart(k)
  BY <1>3, <1>4, <1>5 DEF OpenedFacts
<1>6. CASE ~PendingStart(k)
  <2>1. /\ Opened(k, h, completes).streams = kept.streams
        /\ Opened(k, h, completes).subscribed = kept.subscribed
        /\ Opened(k, h, completes).terminal = kept.terminal
        /\ Opened(k, h, completes).early = <<>>
    BY <1>3, <1>4, <1>6 DEF TurnState
  <2> QED BY <1>3, <2>1 DEF OpenedFacts
<1> QED BY <1>5, <1>6

LEMMA OpenInv ==
  ASSUME IInv, TypeOK', NEW t \in Starts, NEW turn \in Turns, NEW h \in Streams,
         Open(t, turn, h)
  PROVE  IInv'
<1> DEFINE k == <<ops[t].thread, turn>>
           completes == \E n \in Replay(k) : IsCompletion(n)
<1>1. k \in Keys
  BY DEF Open, IInv, TypeOK, Placed, Keys
<1>2. /\ streams'[h].phase = IF completes THEN "done" ELSE "open"
      /\ streams'[h].key = k
      /\ streams'[h].waiters = 0
      /\ \A g \in Streams \ {h} : streams'[g] = streams[g]
      /\ states' = [states EXCEPT ![k] = Opened(k, h, completes)]
      /\ ops' = [ops EXCEPT ![t].phase = "opened"]
      /\ ops[t].phase = "reserved" /\ streams[h].phase = "new"
      /\ UNCHANGED <<starts, log, conn>>
  BY DEF Open, KeyOf, IInv, TypeOK
<1>3. states[k].terminal # 0 => completes
  <2>1. ASSUME states[k].terminal # 0
        PROVE  states[k].terminal \in Replay(k)
    BY <2>1 DEF Replay
  <2> QED BY <1>1, <2>1 DEF IInv, TerminalRouted
<1>4. \A j \in Keys : h \notin states[j].streams
  BY <1>2 DEF IInv, LiveReadersRegistered
<1> HIDE DEF completes, k
<1>5. completes \in BOOLEAN
  BY DEF completes
<1>6. OpenedFacts(k, h, completes)
  BY <1>1, <1>3, <1>4, <1>5, OpenedRegisters
<1>7. /\ states'[k] = Opened(k, h, completes)
      /\ \A j \in Keys \ {k} : states'[j] = states[j]
  BY <1>1, <1>2 DEF IInv, TypeOK
<1>8. \A j \in Keys : PendingStart(j)' <=> PendingStart(j)
  BY <1>2 DEF PendingStart
<1>9. LiveReadersRegistered'
  BY <1>1, <1>2, <1>4, <1>6, <1>7 DEF IInv, LiveReadersRegistered, OpenedFacts
<1>10. ReadersMeanRunning'
  BY <1>6, <1>7 DEF IInv, ReadersMeanRunning, OpenedFacts
<1>11. TerminalRouted'
  BY <1>1, <1>2, <1>6, <1>7 DEF IInv, TerminalRouted, IsCompletion, OpenedFacts
<1>12. OwnedTurnsLetGo'
  BY <1>6, <1>7, <1>8 DEF IInv, OwnedTurnsLetGo, OpenedFacts
<1>13. NoForgottenWaiter'
  BY <1>2 DEF IInv, NoForgottenWaiter
<1>14. /\ ops'[t].phase = "opened" /\ ops'[t].thread = ops[t].thread
       /\ ops'[t].conn = ops[t].conn
       /\ \A u \in Starts \ {t} : ops'[u] = ops[u]
  BY <1>2 DEF IInv, TypeOK, Op
<1>15. Placed' /\ ReservationHeld' /\ \A u \in Starts : ops'[u].conn <= conn'
  BY <1>1, <1>2, <1>14 DEF IInv, Placed, ReservationHeld
<1> QED BY <1>9, <1>10, <1>11, <1>12, <1>13, <1>15 DEF IInv

\* Trimming keeps the turns that are owned, and the readers of the others: they
\* have none.
TrimmedFacts(sts, k) ==
  LET st == Trimmed(sts)[k]
  IN  /\ st.streams = sts[k].streams
      /\ sts[k].subscribed => st = sts[k]
      /\ ~sts[k].subscribed => ~st.subscribed
      /\ st.terminal \in {sts[k].terminal, 0}

LEMMA TrimmedKeepsOwned ==
  ASSUME NEW sts \in [Keys -> TurnState], NEW k \in Keys,
         sts[k].streams # {} => sts[k].subscribed
  PROVE  TrimmedFacts(sts, k)
<1>1. Trimmed(sts)[k] \in {sts[k], NewState, [sts[k] EXCEPT !.items = LastOf(@, MaxPendingEvents)]}
  BY DEF Trimmed
<1>2. sts[k].subscribed => Trimmed(sts)[k] = sts[k]
  BY DEF Trimmed, Unclaimed
<1>3. CASE sts[k].subscribed
  BY <1>2, <1>3 DEF TrimmedFacts
<1>4. CASE ~sts[k].subscribed
  <2>1. /\ NewState.streams = {} /\ ~NewState.subscribed /\ NewState.terminal = 0
    BY DEF NewState
  <2>2. LET st == [sts[k] EXCEPT !.items = LastOf(@, MaxPendingEvents)]
        IN  /\ st.streams = sts[k].streams
            /\ st.subscribed = sts[k].subscribed
            /\ st.terminal = sts[k].terminal
    BY DEF TurnState
  <2> QED BY <1>1, <1>4, <2>1, <2>2 DEF TrimmedFacts
<1> QED BY <1>3, <1>4

\* Delivering event n to a reader, and completing it at the end of the turn.
LEMMA DeliveryFacts ==
  ASSUME NEW s \in Stream, NEW n \in Nat, s.phase = "open",
         s.waiters > 0 => s.values = <<>>
  PROVE  /\ Push(s, n).phase = "open" /\ Push(s, n).key = s.key
         /\ Push(s, n).waiters > 0 => Push(s, n).values = <<>>
         /\ Complete(Push(s, n)).phase = "done" /\ Complete(Push(s, n)).key = s.key
         /\ Complete(Push(s, n)).waiters = 0
<1>1. Append(s.values, n) # <<>> /\ Append(s.values, n) \in Seq(Nat)
  <2>1. s.values \in Seq(Nat)
    BY DEF Stream
  <2> QED BY <2>1, AppendProperties, EmptySeq
<1>2. CASE s.waiters > 0
  <2>1. Push(s, n) = [s EXCEPT !.waiters = @ - 1, !.got = Append(@, n)]
    BY <1>2 DEF Push
  <2>2. /\ Push(s, n).phase = "open" /\ Push(s, n).key = s.key
        /\ Push(s, n).values = <<>>
    BY <1>2, <2>1 DEF Stream
  <2>3. Push(s, n) \in Stream
    BY StreamOperationTypes
  <2> QED BY <2>2, <2>3 DEF Complete, Stream
<1>3. CASE ~(s.waiters > 0)
  <2>1. Push(s, n) = [s EXCEPT !.values = Append(@, n)]
    BY <1>3 DEF Push
  <2>2. /\ Push(s, n).phase = "open" /\ Push(s, n).key = s.key
        /\ Push(s, n).values # <<>> /\ Push(s, n).waiters = 0
    BY <1>1, <1>3, <2>1 DEF Stream
  <2>3. Push(s, n) \in Stream
    BY StreamOperationTypes
  <2> QED BY <2>2, <2>3 DEF Complete, Stream
<1> QED BY <1>2, <1>3

LEMMA RouteInv ==
  ASSUME RouterAssumption, IInv, TypeOK', NEW th \in Threads, NEW turn \in Turns,
         NEW what \in What, Route(th, turn, what)
  PROVE  IInv'
<1> DEFINE k == <<th, turn>>
           n == Len(log) + 1
           old == states[k]
           st == Recorded(k, n, what)
           ended == st.terminal # 0
           finished == st.subscribed /\ ended /\ st.streams = {} /\ ~PendingStart(k)
           sts == [states EXCEPT ![k] = IF finished THEN NewState ELSE st]
<1>1. /\ k \in Keys /\ n \in Nat /\ n # 0 /\ Len(log) \in Nat
      /\ old \in TurnState
      /\ old.streams # {} => old.subscribed /\ old.terminal = 0
  <2>1. k \in Keys
    BY DEF Keys
  <2>2. Len(log) \in Nat
    BY LenProperties DEF IInv, TypeOK
  <2>3. /\ old \in TurnState
        /\ old.streams # {} => old.subscribed /\ old.terminal = 0
    BY <2>1 DEF IInv, TypeOK, ReadersMeanRunning
  <2> QED BY <2>1, <2>2, <2>3
<1>2. /\ states' = Trimmed(sts)
      /\ log' = Append(log, [key |-> k, what |-> what])
      /\ streams' = [h \in Streams |->
             IF h \in old.streams
             THEN IF ended THEN Complete(Push(streams[h], n)) ELSE Push(streams[h], n)
             ELSE streams[h]]
      /\ UNCHANGED <<starts, ops, conn>>
  BY DEF Route, KeyOf
<1>3. /\ st \in TurnState
      /\ st.subscribed = old.subscribed
      /\ st.streams = IF ended THEN {} ELSE old.streams
      /\ st.terminal = IF what = "completed" THEN n ELSE old.terminal
      /\ old.subscribed /\ ~PendingStart(k) => st.early = old.early
  <2>1. st \in TurnState
    BY <1>1, RecordedType DEF IInv
  <2>2. (old.terminal # 0 \/ what = "completed") <=> ended
    BY <1>1 DEF Recorded
  <2> QED BY <2>1, <2>2 DEF Recorded
<1>4. /\ Len(log') = n
      /\ \A i \in 1..Len(log) : log'[i] = log[i]
      /\ log'[n].what = what
  <2>1. [key |-> k, what |-> what] \in Event
    BY <1>1 DEF Event
  <2> QED BY <1>1, <1>2, <2>1, AppendProperties DEF IInv, TypeOK
<1> HIDE DEF k, n, st, old
<1>5. \A h \in Streams :
        /\ streams'[h].key = streams[h].key
        /\ h \in old.streams => streams'[h].phase = (IF ended THEN "done" ELSE "open")
        /\ h \in old.streams => streams[h].phase = "open"
        /\ h \notin old.streams => streams'[h] = streams[h]
        /\ streams'[h].waiters > 0 =>
             streams'[h].phase = "open" /\ streams'[h].values = <<>>
  <2>1. TAKE h \in Streams
  <2>2. /\ streams[h] \in Stream
        /\ streams[h].waiters > 0 => streams[h].phase = "open" /\ streams[h].values = <<>>
    BY DEF IInv, TypeOK, NoForgottenWaiter
  <2>3. CASE h \notin old.streams
    BY <1>2, <2>2, <2>3
  <2>4. CASE h \in old.streams
    <3>1. streams[h].phase = "open"
      BY <1>1, <2>4 DEF IInv, LiveReadersRegistered, old
    <3>2. /\ Push(streams[h], n).phase = "open" /\ Push(streams[h], n).key = streams[h].key
          /\ Push(streams[h], n).waiters > 0 => Push(streams[h], n).values = <<>>
          /\ Complete(Push(streams[h], n)).phase = "done"
          /\ Complete(Push(streams[h], n)).key = streams[h].key
          /\ Complete(Push(streams[h], n)).waiters = 0
      BY <1>1, <2>2, <3>1, DeliveryFacts
    <3> QED BY <1>2, <2>4, <3>1, <3>2
  <2> QED BY <2>3, <2>4
<1>6. /\ sts \in [Keys -> TurnState]
      /\ sts[k].streams = st.streams
      /\ sts[k].streams # {} => sts[k].subscribed /\ sts[k].terminal = 0
      /\ sts[k].terminal \in {st.terminal, 0}
      /\ sts[k].subscribed =>
           sts[k] = st /\ st.subscribed /\ (st.terminal # 0 => PendingStart(k))
      /\ \A j \in Keys \ {k} : sts[j] = states[j]
  <2>1. states \in [Keys -> TurnState]
    BY DEF IInv, TypeOK
  <2>2. CASE finished
    <3>1. sts = [states EXCEPT ![k] = NewState]
      BY <2>2
    <3> QED BY <1>1, <2>1, <2>2, <3>1, NewTypes DEF NewState
  <2>3. CASE ~finished
    <3>1. sts = [states EXCEPT ![k] = st]
      BY <2>3
    <3>2. st.subscribed /\ st.terminal # 0 => PendingStart(k)
      BY <1>3, <2>3
    <3> QED BY <1>1, <1>3, <2>1, <3>1, <3>2
  <2> QED BY <2>2, <2>3
<1> HIDE DEF sts
<1>7. \A j \in Keys : TrimmedFacts(sts, j)
  <2>1. \A j \in Keys : sts[j].streams # {} => sts[j].subscribed
    BY <1>6 DEF IInv, ReadersMeanRunning
  <2> QED BY <1>6, <2>1, TrimmedKeepsOwned
<1>8. \A j \in Keys : PendingStart(j)' <=> PendingStart(j)
  BY <1>2 DEF PendingStart
<1>9. LiveReadersRegistered'
  <2>1. SUFFICES ASSUME NEW h \in Streams, NEW j \in Keys
        PROVE h \in states'[j].streams <=> streams'[h].phase = "open" /\ streams'[h].key = j
    BY DEF LiveReadersRegistered
  <2>2. states'[j].streams = sts[j].streams
    BY <1>2, <1>7 DEF TrimmedFacts
  <2>3. h \in states[j].streams <=> streams[h].phase = "open" /\ streams[h].key = j
    BY DEF IInv, LiveReadersRegistered
  <2>4. h \in old.streams <=> streams[h].phase = "open" /\ streams[h].key = k
    BY <1>1 DEF IInv, LiveReadersRegistered, old
  <2>5. CASE j = k
    BY <1>3, <1>5, <1>6, <2>2, <2>4, <2>5
  <2>6. CASE j # k
    BY <1>5, <1>6, <2>2, <2>3, <2>4, <2>6
  <2> QED BY <2>5, <2>6
<1>10. ReadersMeanRunning'
  BY <1>2, <1>6, <1>7 DEF IInv, ReadersMeanRunning, TrimmedFacts
<1>11. TerminalRouted'
  <2>1. SUFFICES ASSUME NEW j \in Keys, states'[j].terminal # 0
        PROVE  /\ states'[j].terminal \in 1..Len(log')
               /\ log'[states'[j].terminal].what = "completed"
    BY DEF TerminalRouted, IsCompletion
  <2>2. states'[j].terminal \in {sts[j].terminal, 0}
    BY <1>2, <1>7 DEF TrimmedFacts
  <2>3. states[j].terminal # 0 =>
          states[j].terminal \in 1..Len(log) /\ log[states[j].terminal].what = "completed"
    BY DEF IInv, TerminalRouted, IsCompletion
  <2>4. sts[j].terminal \in {states[j].terminal, 0} \/ (sts[j].terminal = n /\ what = "completed")
    BY <1>3, <1>6 DEF old
  <2>5. \A i \in 1..Len(log) : i \in 1..n
    BY <1>1 DEF n
  <2>6. n \in 1..n
    BY <1>1
  <2> QED BY <1>4, <2>1, <2>2, <2>3, <2>4, <2>5, <2>6
<1>12. OwnedTurnsLetGo'
  BY <1>2, <1>3, <1>6, <1>7, <1>8 DEF IInv, OwnedTurnsLetGo, TrimmedFacts, old
<1>13. NoForgottenWaiter'
  BY <1>5 DEF NoForgottenWaiter
<1>14. Placed'
  BY <1>2, <1>5 DEF IInv, Placed
<1>15. ReservationHeld' /\ \A u \in Starts : ops'[u].conn <= conn'
  BY <1>2 DEF IInv, ReservationHeld
<1> QED BY <1>9, <1>10, <1>11, <1>12, <1>13, <1>14, <1>15 DEF IInv

LEMMA FailAllInv ==
  ASSUME IInv, TypeOK', FailAll
  PROVE  IInv'
<1> USE DEF IInv, TypeOK, FailAll
<1>1. \A k \in Keys :
        /\ states'[k].streams = {} /\ states'[k].terminal = 0
        /\ states'[k].early = <<>>
  BY DEF NewState
<1>2. \A h \in Streams :
        /\ streams'[h].phase # "open"
        /\ streams'[h].waiters = 0
        /\ streams'[h].key = streams[h].key
        /\ streams'[h].phase # "new" => streams[h].phase # "new"
  <2>1. SUFFICES ASSUME NEW h \in Streams
        PROVE  /\ streams'[h].phase # "open"
               /\ streams'[h].waiters = 0
               /\ streams'[h].key = streams[h].key
               /\ streams'[h].phase # "new" => streams[h].phase # "new"
    OBVIOUS
  <2>2. streams[h] \in Stream
    OBVIOUS
  <2>3. CASE streams[h].phase = "open"
    <3>1. h \in states[streams[h].key].streams /\ streams[h].key \in Keys
      BY <2>3 DEF LiveReadersRegistered, Placed
    <3>2. streams'[h] = Fail(streams[h])
      BY <3>1
    <3> QED BY <2>2, <2>3, <3>2 DEF Fail, Stream
  <2>4. CASE streams[h].phase # "open"
    <3>1. streams'[h] = streams[h]
      BY <2>4 DEF Fail
    <3>2. streams[h].waiters = 0
      <4>1. streams[h].waiters \in Nat
        BY <2>2 DEF Stream
      <4>2. ~(streams[h].waiters > 0)
        BY <2>4 DEF NoForgottenWaiter
      <4> QED BY <4>1, <4>2
    <3> QED BY <2>4, <3>1, <3>2
  <2> QED BY <2>3, <2>4
<1>3. LiveReadersRegistered'
  BY <1>1, <1>2 DEF LiveReadersRegistered
<1>4. (ReadersMeanRunning /\ TerminalRouted /\ OwnedTurnsLetGo)'
  BY <1>1 DEF ReadersMeanRunning, TerminalRouted, OwnedTurnsLetGo
<1>5. NoForgottenWaiter'
  BY <1>2 DEF NoForgottenWaiter
<1>6. Placed'
  BY <1>2 DEF Placed
<1>7. \A t \in Starts : ops'[t].conn <= conn' /\ ops'[t].conn # conn'
  BY DEF Op
<1>8. ReservationHeld'
  BY <1>7 DEF ReservationHeld
<1> QED BY <1>3, <1>4, <1>5, <1>6, <1>7, <1>8

LEMMA StutterInv ==
  ASSUME IInv, UNCHANGED vars
  PROVE  IInv'
BY DEF vars, IInv, TypeOK, Placed, LiveReadersRegistered, ReadersMeanRunning,
   TerminalRouted, IsCompletion, NoForgottenWaiter, ReservationHeld,
   OwnedTurnsLetGo, PendingStart

LEMMA NextInv == IInv /\ [Next]_vars => IInv'
<1> SUFFICES ASSUME IInv, [Next]_vars PROVE IInv'
  OBVIOUS
<1>1. TypeOK'
  BY RouterAssumption, NextType DEF IInv
<1> QED BY <1>1, RouterAssumption, TakeInv, WaitInv, ReturnInv, ReserveStartInv, ReleaseInv,
     OpenInv, RouteInv, FailAllInv, StutterInv DEF Next

\* The inductive invariant holds in every behaviour of the router.
THEOREM Invariance == Spec => []IInv
<1>1. Init => IInv
  BY InitInv
<1>2. IInv /\ [Next]_vars => IInv'
  BY NextInv
<1> QED BY <1>1, <1>2, PTL DEF Spec

\* The fields and maps of the router and its streams keep their types.
THEOREM TypeCorrect == Spec => []TypeOK
<1>1. IInv => TypeOK
  BY DEF IInv
<1> QED BY <1>1, Invariance, PTL

\* No path of the router loses a reader or leaves its next() waiting for nothing,
\* and no finally of an older connection releases a reservation of the current one.
THEOREM NobodyIsForgotten == Spec => []NobodyForgotten
<1>1. IInv => NobodyForgotten
  BY DEF IInv, NobodyForgotten
<1> QED BY <1>1, Invariance, PTL

\* An owned turn keeps early events only while a start of its thread may still
\* join it, and is let go once it is over.
THEOREM OwnedTurnsSettle == Spec => []OwnedTurnsLetGo
<1>1. IInv => OwnedTurnsLetGo
  BY DEF IInv
<1> QED BY <1>1, Invariance, PTL

\* The end of a connection fails every reader that is open and leaves the others
\* as they ended (failAll).
EndFailsReaders ==
  [][conn' # conn =>
       \A h \in Streams :
         streams'[h].phase = IF streams[h].phase = "open" THEN "failed" ELSE streams[h].phase]_vars

\* failAll reaches every open reader, since each is registered with its turn: one
\* that is open after the end of its connection was opened after it.
THEOREM DisconnectFailsReaders == Spec => EndFailsReaders
<1>1. IInv /\ [Next]_vars =>
        [conn' # conn =>
           \A h \in Streams :
             streams'[h].phase = IF streams[h].phase = "open" THEN "failed"
                                                              ELSE streams[h].phase]_vars
  <2> SUFFICES ASSUME IInv, [Next]_vars, conn' # conn, NEW h \in Streams
               PROVE  streams'[h].phase = IF streams[h].phase = "open" THEN "failed"
                                                                       ELSE streams[h].phase
    OBVIOUS
  <2>1. FailAll
    <3>1. \A g \in Streams : ~Take(g) /\ ~Wait(g) /\ ~Return(g)
      BY Zenon DEF Take, Wait, Return
    <3>2. \A s \in Starts : ~Release(s) /\ \A th \in Threads : ~ReserveStart(s, th)
      BY Zenon DEF ReserveStart, Release
    <3>3. \A s \in Starts, turn \in Turns, g \in Streams : ~Open(s, turn, g)
      BY Zenon DEF Open
    <3>4. \A th \in Threads, turn \in Turns, what \in What : ~Route(th, turn, what)
      BY Zenon DEF Route
    <3>5. Next
      BY DEF vars
    <3> QED BY <3>1, <3>2, <3>3, <3>4, <3>5 DEF Next
  <2>2. streams[h] \in Stream
    BY DEF IInv, TypeOK
  <2>3. CASE streams[h].phase = "open"
    <3>1. streams[h].key \in Keys /\ h \in states[streams[h].key].streams
      BY <2>3 DEF IInv, Placed, LiveReadersRegistered
    <3>2. streams'[h] = Fail(streams[h])
      BY <2>1, <3>1 DEF FailAll
    <3> QED BY <2>2, <2>3, <3>2 DEF Fail, Stream
  <2>4. CASE streams[h].phase # "open"
    <3>1. streams'[h] = Fail(streams[h]) \/ streams'[h] = streams[h]
      BY <2>1 DEF FailAll
    <3>2. streams'[h] = streams[h]
      BY <2>4, <3>1 DEF Fail
    <3> QED BY <2>4, <3>2
  <2> QED BY <2>3, <2>4
<1> QED BY <1>1, Invariance, PTL DEF Spec, EndFailsReaders

-----------------------------------------------------------------------------
(* What readers see.                                                       *)

\* What a turn keeps for a reader that joins it.
Held(st) ==
  RangeOf(st.early) \cup RangeOf(st.items) \cup ({st.usage, st.terminal} \ {0})

\* Every event a turn keeps was routed to it.
HeldOfTurn ==
  \A k \in Keys : \A n \in Held(states[k]) : n \in 1..Len(log) /\ log[n].key = k

\* v is what a reader of turn k sees of lg, in the given phase.
Sees(v, k, phase, lg) ==
  /\ \A i \in 1..Len(v) : v[i] \in 1..Len(lg) /\ lg[v[i]].key = k
  /\ \A i, j \in 1..Len(v) : i < j => v[i] < v[j]
  /\ \A i \in 1..Len(v) : lg[v[i]].what = "completed" => i = Len(v)
  /\ phase = "new" => v = <<>>
  /\ phase = "done" => \E i \in 1..Len(v) : lg[v[i]].what = "completed"
  /\ phase = "open" => \A i \in 1..Len(v) : lg[v[i]].what # "completed"

ReaderSees(s, lg) == Sees(s.got \o s.values, s.key, s.phase, lg)

\* The strengthening from which ViewsInOrder and EndsWithCompletion follow.
ViewInv == IInv /\ HeldOfTurn /\ \A h \in Streams : ReaderSees(streams[h], log)

Extends(lg, more) ==
  /\ Len(lg) \in Nat /\ Len(more) \in Nat /\ Len(lg) <= Len(more)
  /\ \A i \in 1..Len(lg) : more[i] = lg[i]

LEMMA SeesMore ==
  ASSUME NEW v \in Seq(Nat), NEW k, NEW phase, NEW lg, NEW more, Extends(lg, more),
         Sees(v, k, phase, lg)
  PROVE  Sees(v, k, phase, more)
<1>1. \A i \in 1..Len(v) : v[i] \in 1..Len(more) /\ more[v[i]] = lg[v[i]]
  <2>1. \A n \in 1..Len(lg) : n \in 1..Len(more)
    BY DEF Extends
  <2> QED BY <2>1 DEF Sees, Extends
<1> QED BY <1>1 DEF Sees

\* The event that was just routed is the next a reader sees.
LEMMA SeesNext ==
  ASSUME NEW v \in Seq(Nat), NEW k, NEW lg, NEW more, Extends(lg, more),
         Sees(v, k, "open", lg), Len(more) = Len(lg) + 1,
         more[Len(lg) + 1].key = k
  PROVE  LET done == more[Len(lg) + 1].what = "completed"
         IN  Sees(Append(v, Len(lg) + 1), k, IF done THEN "done" ELSE "open", more)
<1> DEFINE n == Len(lg) + 1
           w == Append(v, n)
<1>1. n \in Nat /\ n \in 1..Len(more) /\ Len(v) \in Nat
  BY LenProperties DEF Extends
<1>2. /\ Len(w) = Len(v) + 1
      /\ \A i \in 1..Len(v) : w[i] = v[i]
      /\ w[Len(v) + 1] = n /\ w # <<>>
  BY <1>1, AppendProperties
<1>3. Sees(v, k, "open", more)
  BY SeesMore
<1>4. \A i \in 1..Len(v) : v[i] < n /\ v[i] \in Nat
  BY <1>1 DEF Sees, Extends
<1> HIDE DEF w, n
<1>5. \A i \in 1..Len(w) : i \in 1..Len(v) \/ i = Len(v) + 1
  BY <1>1, <1>2
<1>6. \A i \in 1..Len(w) : w[i] \in 1..Len(more) /\ more[w[i]].key = k
  BY <1>1, <1>2, <1>3, <1>5 DEF Sees, n
<1>7. \A i, j \in 1..Len(w) : i < j => w[i] < w[j]
  <2>1. TAKE i, j \in 1..Len(w)
  <2>2. HAVE i < j
  <2>3. i \in 1..Len(v)
    BY <1>1, <1>2, <2>2
  <2>4. CASE j \in 1..Len(v)
    BY <1>2, <1>3, <2>2, <2>3, <2>4 DEF Sees
  <2>5. CASE j = Len(v) + 1
    BY <1>2, <1>4, <2>3, <2>5
  <2> QED BY <1>5, <2>4, <2>5
<1>8. \A i \in 1..Len(v) : more[w[i]].what # "completed"
  BY <1>2, <1>3 DEF Sees
<1>9. Len(w) \in 1..Len(w) /\ w[Len(w)] = n
  BY <1>1, <1>2
<1> QED BY <1>2, <1>5, <1>6, <1>7, <1>8, <1>9 DEF Sees, n, w

\* A reader that drops its queue saw what it saw.
LEMMA SeesLess ==
  ASSUME NEW v \in Seq(Nat), NEW w \in Seq(Nat), NEW k, NEW phase, NEW lg,
         Sees(v \o w, k, phase, lg), NEW now \in {"returned", "failed"}
  PROVE  Sees(v, k, now, lg)
<1>1. /\ Len(v) \in Nat /\ Len(w) \in Nat /\ Len(v \o w) = Len(v) + Len(w)
      /\ \A i \in 1..Len(v) : (v \o w)[i] = v[i] /\ i \in 1..Len(v \o w)
  BY LenProperties, ConcatProperties
<1> DEFINE all == v \o w
<1> HIDE DEF all
<1>2. /\ Len(all) = Len(v) + Len(w)
      /\ \A i \in 1..Len(v) : all[i] = v[i] /\ i \in 1..Len(all)
      /\ Sees(all, k, phase, lg)
  BY <1>1 DEF all
<1>3. \A i \in 1..Len(v) : lg[v[i]].what = "completed" => i = Len(v)
  BY <1>1, <1>2 DEF Sees
<1> QED BY <1>1, <1>2, <1>3 DEF Sees

\* What is taken from the queue was at its head.
LEMMA TakenSame ==
  ASSUME NEW got \in Seq(Nat), NEW values \in Seq(Nat), values # <<>>
  PROVE  Append(got, Head(values)) \o Tail(values) = got \o values
<1> DEFINE first == Append(got, Head(values))
           rest == Tail(values)
<1>1. /\ Len(got) \in Nat /\ Len(values) \in Nat
      /\ Head(values) \in Nat /\ Head(values) = values[1]
      /\ rest \in Seq(Nat) /\ Len(rest) = Len(values) - 1 /\ Len(rest) \in Nat
      /\ \A i \in 1..Len(rest) : rest[i] = values[i + 1]
  BY LenProperties, HeadTailProperties
<1>2. /\ first \in Seq(Nat) /\ Len(first) = Len(got) + 1
      /\ \A i \in 1..Len(got) : first[i] = got[i]
      /\ first[Len(got) + 1] = values[1]
  BY <1>1, AppendProperties
<1> HIDE DEF first, rest
<1>3. /\ first \o rest \in Seq(Nat) /\ Len(first \o rest) = Len(first) + Len(rest)
      /\ \A i \in 1..Len(first) + Len(rest) :
           (first \o rest)[i] = IF i <= Len(first) THEN first[i] ELSE rest[i - Len(first)]
  BY <1>1, <1>2, ConcatProperties
<1>4. /\ got \o values \in Seq(Nat) /\ Len(got \o values) = Len(got) + Len(values)
      /\ \A i \in 1..Len(got) + Len(values) :
           (got \o values)[i] = IF i <= Len(got) THEN got[i] ELSE values[i - Len(got)]
  BY <1>1, ConcatProperties
<1>5. ASSUME NEW i \in 1..Len(first \o rest)
      PROVE  (first \o rest)[i] = (got \o values)[i]
  <2>1. i \in 1..Len(got) + Len(values) /\ i \in 1..Len(first) + Len(rest)
    BY <1>1, <1>2, <1>3
  <2>2. CASE i <= Len(got)
    BY <1>1, <1>2, <1>3, <1>4, <2>1, <2>2
  <2>3. CASE i = Len(got) + 1
    BY <1>1, <1>2, <1>3, <1>4, <2>1, <2>3
  <2>4. CASE i > Len(got) + 1
    <3>1. i - Len(first) \in 1..Len(rest) /\ (i - Len(first)) + 1 = i - Len(got)
      BY <1>1, <1>2, <2>1, <2>4
    <3>2. rest[i - Len(first)] = values[i - Len(got)]
      BY <1>1, <3>1
    <3>3. i > Len(first) /\ i > Len(got)
      BY <1>1, <1>2, <2>1, <2>4
    <3>4. (first \o rest)[i] = rest[i - Len(first)]
      BY <1>1, <1>2, <1>3, <2>1, <3>3
    <3>5. (got \o values)[i] = values[i - Len(got)]
      BY <1>1, <1>4, <2>1, <3>3
    <3> QED BY <3>2, <3>4, <3>5
  <2>5. i <= Len(got) \/ i = Len(got) + 1 \/ i > Len(got) + 1
    <3>1. i \in Nat
      BY <2>1
    <3>2. Len(got) \in Nat
      BY <1>1
    <3> QED BY <3>1, <3>2
  <2> QED BY <2>2, <2>3, <2>4, <2>5
<1>6. Len(first \o rest) = Len(got \o values)
  BY <1>1, <1>2, <1>3, <1>4
<1>7. first \o rest = got \o values
  BY <1>3, <1>4, <1>5, <1>6, SeqEqual
<1> QED BY <1>7 DEF first, rest

LEMMA QueuedSame ==
  ASSUME NEW got \in Seq(Nat), NEW values \in Seq(Nat), NEW n \in Nat
  PROVE  /\ got \o Append(values, n) = Append(got \o values, n)
         /\ got \o <<>> = got
<1>1. got \o <<>> = got
  BY ConcatEmptySeq
<1>2. Append(values, n) = values \o <<n>>
  BY AppendIsConcat
<1>3. got \o values \in Seq(Nat)
  BY ConcatProperties
<1>4. Append(got \o values, n) = (got \o values) \o <<n>>
  BY <1>3, AppendIsConcat
<1>5. <<n>> \in Seq(Nat)
  OBVIOUS
<1>6. (got \o values) \o <<n>> = got \o (values \o <<n>>)
  BY <1>5, ConcatAssociative
<1> QED BY <1>1, <1>2, <1>4, <1>6

\* push: the event is the next the reader sees.
LEMMA PushedNext ==
  ASSUME NEW s \in Stream, NEW n \in Nat, s.phase = "open",
         s.waiters > 0 => s.values = <<>>
  PROVE  /\ Push(s, n).got \o Push(s, n).values = Append(s.got \o s.values, n)
         /\ Push(s, n).phase = "open" /\ Push(s, n).key = s.key
<1>1. s.got \in Seq(Nat) /\ s.values \in Seq(Nat)
  BY DEF Stream
<1>2. CASE s.waiters > 0
  <2>1. Push(s, n) = [s EXCEPT !.waiters = @ - 1, !.got = Append(@, n)]
    BY <1>2 DEF Push
  <2>2. /\ Push(s, n).got = Append(s.got, n) /\ Push(s, n).values = <<>>
        /\ Push(s, n).phase = "open" /\ Push(s, n).key = s.key
    BY <1>2, <2>1 DEF Stream
  <2>3. Append(s.got, n) \in Seq(Nat)
    BY <1>1, AppendProperties
  <2>4. Append(s.got, n) \o <<>> = Append(s.got, n) /\ s.got \o <<>> = s.got
    BY <1>1, <2>3, QueuedSame
  <2> QED BY <1>2, <2>2, <2>4
<1>3. CASE ~(s.waiters > 0)
  <2>1. Push(s, n) = [s EXCEPT !.values = Append(@, n)]
    BY <1>3 DEF Push
  <2>2. /\ Push(s, n).got = s.got /\ Push(s, n).values = Append(s.values, n)
        /\ Push(s, n).phase = "open" /\ Push(s, n).key = s.key
    BY <2>1 DEF Stream
  <2>3. s.got \o Append(s.values, n) = Append(s.got \o s.values, n)
    BY <1>1, QueuedSame
  <2> QED BY <2>2, <2>3
<1> QED BY <1>2, <1>3

\* complete: nothing is taken from the reader.
LEMMA CompletedSame ==
  ASSUME NEW s \in Stream
  PROVE  /\ Complete(s).got = s.got /\ Complete(s).values = s.values
         /\ Complete(s).key = s.key
         /\ Complete(s).phase = IF s.phase = "open" THEN "done" ELSE s.phase
BY DEF Complete, Stream

-----------------------------------------------------------------------------
(* What turns keep.                                                        *)

LEMMA RangeAppend ==
  ASSUME NEW s \in Seq(Nat), NEW n \in Nat
  PROVE  RangeOf(Append(s, n)) \subseteq RangeOf(s) \cup {n}
<1>1. /\ Append(s, n) \in Seq(Nat) /\ Len(Append(s, n)) = Len(s) + 1
      /\ \A i \in 1..Len(s) : Append(s, n)[i] = s[i]
      /\ Append(s, n)[Len(s) + 1] = n /\ Len(s) \in Nat
      /\ DOMAIN s = 1..Len(s) /\ DOMAIN Append(s, n) = 1..Len(Append(s, n))
  BY AppendProperties, LenProperties
<1>2. \A i \in 1..Len(s) + 1 : i \in 1..Len(s) \/ i = Len(s) + 1
  BY <1>1
<1> QED BY <1>1, <1>2 DEF RangeOf

LEMMA NothingHeld == Held(NewState) = {}
<1>1. RangeOf(<<>>) = {}
  BY DEF RangeOf
<1> QED BY <1>1 DEF NewState, Held

\* Turns without their early events or with fewer readers keep no more.
LEMMA HeldLess ==
  ASSUME NEW st \in TurnState
  PROVE  /\ \A T \in SUBSET Streams : Held([st EXCEPT !.streams = T]) = Held(st)
         /\ Held([st EXCEPT !.early = <<>>]) \subseteq Held(st)
         /\ Held(Settled(st)) \subseteq Held(st)
         /\ \A h, k : Held(Disposed(st, h, k)) \subseteq Held(st)
<1>1. RangeOf(<<>>) = {}
  BY DEF RangeOf
<1>2. ASSUME NEW T \in SUBSET Streams
      PROVE  Held([st EXCEPT !.streams = T]) = Held(st)
  BY DEF Held, TurnState
<1>3. Held([st EXCEPT !.early = <<>>]) \subseteq Held(st)
  <2>1. LET now == [st EXCEPT !.early = <<>>]
        IN  /\ now.early = <<>> /\ now.items = st.items
            /\ now.usage = st.usage /\ now.terminal = st.terminal
    BY DEF TurnState
  <2> QED BY <1>1, <2>1 DEF Held
<1>4. Held(Settled(st)) \subseteq Held(st)
  BY <1>3, NothingHeld DEF Settled
<1>5. ASSUME NEW h, NEW k
      PROVE  Held(Disposed(st, h, k)) \subseteq Held(st)
  <2> DEFINE rest == [st EXCEPT !.streams = st.streams \ {h}]
  <2>1. st.streams \ {h} \in SUBSET Streams
    BY DEF TurnState
  <2>2. Held(rest) = Held(st)
    BY <1>2, <2>1
  <2>3. Disposed(st, h, k) \in {NewState, rest}
    BY DEF Disposed
  <2> QED BY <2>2, <2>3, NothingHeld
<1> QED BY <1>2, <1>3, <1>4, <1>5

LEMMA OpenedHolds ==
  ASSUME TypeOK, NEW k \in Keys, NEW h \in Streams, NEW completes \in BOOLEAN
  PROVE  Held(Opened(k, h, completes)) \subseteq Held(states[k])
<1> DEFINE st == [states[k] EXCEPT !.subscribed = TRUE, !.streams = @ \cup {h}]
           kept == IF completes THEN Disposed(st, h, k) ELSE st
<1>1. states[k] \in TurnState
  BY DEF TypeOK
<1>2. st \in TurnState /\ Held(st) = Held(states[k])
  BY <1>1 DEF TurnState, Held
<1>3. Opened(k, h, completes) = IF PendingStart(k) THEN kept ELSE [kept EXCEPT !.early = <<>>]
  BY DEF Opened
<1> HIDE DEF st
<1>4. kept \in TurnState /\ Held(kept) \subseteq Held(st)
  BY <1>2, HeldLess, DisposedType
<1> HIDE DEF kept
<1> QED BY <1>2, <1>3, <1>4, HeldLess

LEMMA SetItemRange ==
  ASSUME NEW items \in Seq(Nat), NEW n \in Nat, NEW what
  PROVE  RangeOf(SetItem(items, n, what)) \subseteq RangeOf(items) \cup {n}
<1> DEFINE put == [p \in DOMAIN items |-> IF log[items[p]].what = what THEN n ELSE items[p]]
<1>1. RangeOf(put) \subseteq RangeOf(items) \cup {n}
  BY DEF RangeOf
<1>2. SetItem(items, n, what) \in {put, Append(items, n)}
  BY DEF SetItem
<1> QED BY <1>1, <1>2, RangeAppend

LEMMA RecordedHolds ==
  ASSUME RouterAssumption, TypeOK, NEW k \in Keys, NEW n \in Nat, NEW what \in What
  PROVE  Held(Recorded(k, n, what)) \subseteq Held(states[k]) \cup {n}
<1> DEFINE st == states[k]
           now == Recorded(k, n, what)
<1>1. st \in TurnState /\ st.early \in Seq(Nat) /\ st.items \in Seq(Nat)
  BY DEF TypeOK, TurnState
<1>2. RangeOf(LastOf(Append(st.early, n), MaxPendingEvents)) \subseteq RangeOf(st.early) \cup {n}
  <2>1. Append(st.early, n) \in Seq(Nat) /\ MaxPendingEvents \in Nat
    BY <1>1, AppendProperties DEF RouterAssumption
  <2>2. /\ RangeOf(LastOf(Append(st.early, n), MaxPendingEvents))
             \subseteq RangeOf(Append(st.early, n))
        /\ RangeOf(Append(st.early, n)) \subseteq RangeOf(st.early) \cup {n}
    <3>1. ASSUME NEW s \in Seq(Nat)
          PROVE  RangeOf(LastOf(s, MaxPendingEvents)) \subseteq RangeOf(s)
      BY <2>1, LastOfProperties
    <3>2. RangeOf(Append(st.early, n)) \subseteq RangeOf(st.early) \cup {n}
      BY <1>1, RangeAppend
    <3> QED BY <2>1, <3>1, <3>2
  <2> QED BY <2>2
<1>3. now.early \in {st.early, LastOf(Append(st.early, n), MaxPendingEvents)}
  BY DEF Recorded
<1>4. now.items \in {st.items, SetItem(st.items, n, what)}
  BY DEF Recorded
<1>5. now.usage \in {st.usage, n} /\ now.terminal \in {st.terminal, n}
  BY DEF Recorded
<1>6. RangeOf(SetItem(st.items, n, what)) \subseteq RangeOf(st.items) \cup {n}
  BY <1>1, SetItemRange
<1> HIDE DEF st, now
<1> QED BY <1>2, <1>3, <1>4, <1>5, <1>6 DEF Held, st, now

LEMMA TrimmedHolds ==
  ASSUME RouterAssumption, NEW sts \in [Keys -> TurnState], NEW k \in Keys
  PROVE  Held(Trimmed(sts)[k]) \subseteq Held(sts[k])
<1> DEFINE cut == LastOf(sts[k].items, MaxPendingEvents)
           now == [sts[k] EXCEPT !.items = cut]
<1>1. RangeOf(cut) \subseteq RangeOf(sts[k].items)
  <2>1. sts[k].items \in Seq(Nat) /\ MaxPendingEvents \in Nat
    BY DEF TurnState, RouterAssumption
  <2> QED BY <2>1, LastOfProperties
<1>2. /\ now.items = cut /\ now.early = sts[k].early
      /\ now.usage = sts[k].usage /\ now.terminal = sts[k].terminal
  BY DEF TurnState
<1>3. Trimmed(sts)[k] \in {sts[k], NewState, now}
  BY DEF Trimmed
<1> HIDE DEF cut, now
<1>4. Held(now) \subseteq Held(sts[k])
  BY <1>1, <1>2 DEF Held
<1> QED BY <1>3, <1>4, NothingHeld

-----------------------------------------------------------------------------
(* What a new reader is replayed.                                          *)

LEMMA QueuedSeen ==
  ASSUME NEW got \in Seq(Nat), NEW values \in Seq(Nat), NEW n \in RangeOf(values)
  PROVE  \E i \in 1..Len(got \o values) : (got \o values)[i] = n
<1>1. PICK p \in 1..Len(values) : values[p] = n
  BY LenProperties DEF RangeOf
<1>2. Len(got) \in Nat /\ Len(values) \in Nat
  BY LenProperties
<1>3. /\ Len(got \o values) = Len(got) + Len(values)
      /\ \A i \in 1..Len(got) + Len(values) :
           (got \o values)[i] = IF i <= Len(got) THEN got[i] ELSE values[i - Len(got)]
  BY ConcatProperties
<1>4. /\ Len(got) + p \in 1..Len(got) + Len(values)
      /\ ~(Len(got) + p <= Len(got)) /\ (Len(got) + p) - Len(got) = p
  BY <1>1, <1>2
<1>5. (got \o values)[Len(got) + p] = n
  BY <1>1, <1>3, <1>4
<1> QED BY <1>3, <1>4, <1>5

LEMMA ReplayOfTurn ==
  ASSUME ViewInv, NEW k \in Keys
  PROVE  \A n \in Replay(k) : n \in 1..Len(log) /\ log[n].key = k
<1>1. ASSUME NEW n \in Held(states[k])
      PROVE  n \in 1..Len(log) /\ log[n].key = k
  BY <1>1 DEF ViewInv, HeldOfTurn
<1>2. ASSUME NEW h \in states[k].streams, NEW n \in RangeOf(streams[h].values)
      PROVE  n \in 1..Len(log) /\ log[n].key = k
  <2>1. h \in Streams /\ streams[h].key = k
    BY DEF ViewInv, IInv, TypeOK, TurnState, LiveReadersRegistered
  <2>2. streams[h].got \in Seq(Nat) /\ streams[h].values \in Seq(Nat)
    BY <2>1 DEF ViewInv, IInv, TypeOK, Stream
  <2>3. PICK i \in 1..Len(streams[h].got \o streams[h].values) :
               (streams[h].got \o streams[h].values)[i] = n
    BY <2>2, QueuedSeen
  <2> QED BY <2>1, <2>3 DEF ViewInv, ReaderSees, Sees
<1> QED BY <1>1, <1>2 DEF Replay, Held

LEMMA ReplaySees ==
  ASSUME ViewInv, NEW k \in Keys
  PROVE  LET completes == \E n \in Replay(k) : IsCompletion(n)
         IN  Sees(ReplaySeq(k), k, IF completes THEN "done" ELSE "open", log)
<1> DEFINE all == Replay(k)
           kept == {n \in all : \A c \in all : IsCompletion(c) => n <= c}
           v == ReplaySeq(k)
           ends == {n \in all : IsCompletion(n)}
<1>1. Len(log) \in Nat
  BY LenProperties DEF ViewInv, IInv, TypeOK
<1>2. \A n \in all : n \in 1..Len(log) /\ n \in Nat /\ log[n].key = k
  BY <1>1, ReplayOfTurn
<1>3. Lists(v, kept, Len(log))
  BY <1>1, InOrderLists DEF ReplaySeq
<1>4. \A n \in ends : n \in all /\ log[n].what = "completed" /\ n \in Nat
  BY <1>2 DEF IsCompletion
<1>5. \A n \in kept : n \in all /\ \A c \in ends : n <= c
  OBVIOUS
<1>6. \A n \in all : (\A c \in ends : n <= c) => n \in kept
  OBVIOUS
<1>7. \A n \in all : log[n].what = "completed" => n \in ends
  BY DEF IsCompletion
<1>8. (\E n \in Replay(k) : IsCompletion(n)) <=> ends # {}
  OBVIOUS
<1> HIDE DEF all, kept, v, ends
<1>9. /\ Len(v) \in Nat /\ DOMAIN v = 1..Len(v)
      /\ \A i, j \in 1..Len(v) : i < j => v[i] < v[j]
      /\ \A i \in 1..Len(v) : v[i] \in kept /\ v[i] \in Nat
      /\ \A n \in kept : \E i \in 1..Len(v) : v[i] = n
  <2>1. v \in Seq(Nat) /\ RangeOf(v) = kept \cap (1..Len(log))
        /\ \A i, j \in 1..Len(v) : i < j => v[i] < v[j]
    BY <1>3 DEF Lists
  <2>2. Len(v) \in Nat /\ DOMAIN v = 1..Len(v) /\ \A i \in 1..Len(v) : v[i] \in Nat
    BY <2>1, LenProperties
  <2>3. \A n \in kept : n \in RangeOf(v)
    BY <1>2, <1>5, <2>1
  <2> QED BY <2>1, <2>2, <2>3 DEF RangeOf
<1>10. \A i \in 1..Len(v) : v[i] \in 1..Len(log) /\ log[v[i]].key = k
  BY <1>2, <1>5, <1>9
<1>11. ASSUME NEW i \in 1..Len(v), log[v[i]].what = "completed"
       PROVE  i = Len(v)
  <2>1. v[i] \in ends
    BY <1>5, <1>7, <1>9, <1>11
  <2>2. Len(v) \in 1..Len(v) /\ i <= Len(v) /\ i \in Nat /\ Len(v) \in Nat
    BY <1>9
  <2>3. v[Len(v)] <= v[i]
    BY <1>5, <1>9, <2>1, <2>2
  <2>4. i < Len(v) => v[i] < v[Len(v)]
    BY <1>9, <2>2
  <2>5. v[i] \in Nat /\ v[Len(v)] \in Nat
    BY <1>9, <2>2
  <2>6. ~(i < Len(v))
    BY <2>3, <2>4, <2>5
  <2> QED BY <2>2, <2>6
<1>12. CASE ends = {}
  <2>1. \A i \in 1..Len(v) : log[v[i]].what # "completed"
    BY <1>5, <1>7, <1>9, <1>12
  <2>2. Sees(v, k, "open", log)
    BY <1>9, <1>10, <1>11, <2>1 DEF Sees
  <2> QED BY <1>8, <1>12, <2>2 DEF v
<1>13. CASE ends # {}
  <2>1. ends \subseteq Nat
    BY <1>4
  <2>2. PICK c \in ends : \A d \in ends : c <= d
    BY <1>13, <2>1, LeastNatural
  <2>3. c \in kept /\ log[c].what = "completed"
    BY <1>4, <1>6, <2>2
  <2>4. \E i \in 1..Len(v) : log[v[i]].what = "completed"
    BY <1>9, <2>3
  <2>5. Sees(v, k, "done", log)
    BY <1>9, <1>10, <1>11, <2>4 DEF Sees
  <2> QED BY <1>8, <1>13, <2>5 DEF v
<1> QED BY <1>12, <1>13

-----------------------------------------------------------------------------
(* What a step does to what a reader sees.                                 *)

Grown(v, w) == Len(v) <= Len(w) /\ SubSeq(w, 1, Len(v)) = v

\* Stream s has become t: it sees more, unless it returned or failed.
Follows(s, t, lg) ==
  /\ ReaderSees(t, lg)
  /\ t.phase \in {"returned", "failed"}
       \/ Grown(s.got \o s.values, t.got \o t.values)

LEMMA GrownBy ==
  ASSUME NEW v \in Seq(Nat), NEW w \in Seq(Nat), Len(v) <= Len(w),
         \A i \in 1..Len(v) : w[i] = v[i]
  PROVE  Grown(v, w)
<1> DEFINE first == SubSeq(w, 1, Len(v))
<1>1. Len(v) \in Nat /\ Len(w) \in Nat
  BY LenProperties
<1>2. 1 \in Int /\ Len(v) \in Int /\ \A i \in 1..Len(v) : w[i] \in Nat
  BY <1>1, LenProperties
<1>3. /\ first \in Seq(Nat)
      /\ Len(first) = IF 1 <= Len(v) THEN Len(v) - 1 + 1 ELSE 0
      /\ \A i \in 1..Len(v) - 1 + 1 : first[i] = w[1 + i - 1]
  BY <1>2, SubSeqProperties
<1> HIDE DEF first
<1>4. Len(first) = Len(v)
  BY <1>1, <1>3
<1>5. ASSUME NEW i \in 1..Len(first)
      PROVE  first[i] = v[i]
  <2>1. i \in 1..Len(v) - 1 + 1 /\ 1 + i - 1 = i
    BY <1>1, <1>4
  <2>2. first[i] = w[i]
    BY <1>3, <2>1
  <2> QED BY <1>4, <2>2
<1>6. first = v
  BY <1>3, <1>4, <1>5, SeqEqual
<1> QED BY <1>6 DEF Grown, first

LEMMA SeenType ==
  ASSUME NEW s \in Stream
  PROVE  s.got \in Seq(Nat) /\ s.values \in Seq(Nat) /\ s.got \o s.values \in Seq(Nat)
<1>1. s.got \in Seq(Nat) /\ s.values \in Seq(Nat)
  BY DEF Stream
<1> QED BY <1>1, ConcatProperties

LEMMA FollowsSame ==
  ASSUME NEW s \in Stream, NEW t \in Stream, NEW lg, NEW more, Extends(lg, more),
         ReaderSees(s, lg), t.got \o t.values = s.got \o s.values,
         t.key = s.key, t.phase = s.phase
  PROVE  Follows(s, t, more)
<1> DEFINE v == s.got \o s.values
<1>1. v \in Seq(Nat) /\ Len(v) \in Nat
  BY SeenType, LenProperties
<1>2. Sees(v, s.key, s.phase, more)
  BY <1>1, SeesMore DEF ReaderSees
<1>3. Grown(v, v)
  <2> HIDE DEF v
  <2> QED BY <1>1, GrownBy
<1> QED BY <1>2, <1>3 DEF Follows, ReaderSees

\* A reader that is gone.
LEMMA FollowsDropped ==
  ASSUME NEW s \in Stream, NEW t \in Stream, NEW lg, ReaderSees(s, lg),
         t.got = s.got, t.values = <<>>, t.key = s.key,
         t.phase \in {"returned", "failed"}
  PROVE  Follows(s, t, lg)
<1>1. s.got \in Seq(Nat) /\ s.values \in Seq(Nat) /\ s.got \o <<>> = s.got
  BY SeenType, ConcatEmptySeq
<1>2. Sees(s.got, s.key, t.phase, lg)
  BY <1>1, SeesLess DEF ReaderSees
<1> QED BY <1>1, <1>2 DEF Follows, ReaderSees

LEMMA SameLog ==
  ASSUME TypeOK
  PROVE  Extends(log, log)
BY LenProperties DEF TypeOK, Extends

LEMMA Unmoved ==
  ASSUME ViewInv, NEW h \in Streams, streams'[h] = streams[h], log' = log
  PROVE  Follows(streams[h], streams'[h], log')
<1>1. /\ streams[h] \in Stream /\ ReaderSees(streams[h], log)
      /\ Extends(log, log)
  BY SameLog DEF ViewInv, IInv, TypeOK
<1>2. Follows(streams[h], streams[h], log)
  BY <1>1, FollowsSame
<1> QED BY <1>2

LEMMA ReaderFollows ==
  ASSUME ViewInv, TypeOK', NEW h \in Streams, Take(h) \/ Wait(h) \/ Return(h)
  PROVE  \A g \in Streams : Follows(streams[g], streams'[g], log')
<1> DEFINE s == streams[h]
           t == streams'[h]
<1>1. /\ s \in Stream /\ t \in Stream /\ ReaderSees(s, log)
      /\ Extends(log, log) /\ log' = log
  BY SameLog DEF ViewInv, IInv, TypeOK, Take, Wait, Return
<1>2. \A g \in Streams \ {h} : streams'[g] = streams[g]
  BY DEF ViewInv, IInv, TypeOK, Take, Wait, Return
<1>3. CASE Take(h)
  <2>1. t = [s EXCEPT !.values = Tail(@), !.got = Append(@, Head(s.values))] /\ s.values # <<>>
    BY <1>3 DEF ViewInv, IInv, TypeOK, Take
  <2>2. /\ t.got = Append(s.got, Head(s.values)) /\ t.values = Tail(s.values)
        /\ t.key = s.key /\ t.phase = s.phase
    BY <1>1, <2>1 DEF Stream
  <2>3. t.got \o t.values = s.got \o s.values
    BY <1>1, <2>1, <2>2, SeenType, TakenSame
  <2> HIDE DEF s, t
  <2>4. Follows(s, t, log)
    BY <1>1, <2>2, <2>3, FollowsSame
  <2> QED BY <1>1, <1>2, <2>4, Unmoved DEF s, t
<1>4. CASE Wait(h)
  <2>1. t = [s EXCEPT !.waiters = @ + 1]
    BY <1>4 DEF ViewInv, IInv, TypeOK, Wait
  <2>2. /\ t.got = s.got /\ t.values = s.values
        /\ t.key = s.key /\ t.phase = s.phase
    BY <1>1, <2>1 DEF Stream
  <2> HIDE DEF s, t
  <2>3. Follows(s, t, log)
    BY <1>1, <2>2, FollowsSame
  <2> QED BY <1>1, <1>2, <2>3, Unmoved DEF s, t
<1>5. CASE Return(h)
  <2>1. t = [Complete(s) EXCEPT !.phase = "returned", !.values = <<>>]
    BY <1>5 DEF ViewInv, IInv, TypeOK, Return
  <2>2. Complete(s) \in Stream /\ Complete(s).got = s.got /\ Complete(s).key = s.key
    BY <1>1, StreamOperationTypes, CompletedSame
  <2>3. t.got = s.got /\ t.values = <<>> /\ t.key = s.key /\ t.phase = "returned"
    BY <2>1, <2>2 DEF Stream
  <2> HIDE DEF s, t
  <2>4. Follows(s, t, log)
    BY <1>1, <2>3, FollowsDropped
  <2> QED BY <1>1, <1>2, <2>4, Unmoved DEF s, t
<1> QED BY <1>3, <1>4, <1>5

LEMMA OpenFollows ==
  ASSUME ViewInv, TypeOK', NEW t \in Starts, NEW turn \in Turns, NEW h \in Streams,
         Open(t, turn, h)
  PROVE  \A g \in Streams : Follows(streams[g], streams'[g], log')
<1> DEFINE k == <<ops[t].thread, turn>>
           phase == IF \E n \in Replay(k) : IsCompletion(n) THEN "done" ELSE "open"
           v == ReplaySeq(k)
           old == streams[h]
           now == streams'[h]
<1>1. k \in Keys /\ log' = log
  BY DEF Open, ViewInv, IInv, TypeOK, Placed, Keys
<1>2. /\ now.phase = phase /\ now.key = k
      /\ now.values = v /\ now.got = <<>>
      /\ old.phase = "new"
      /\ \A g \in Streams \ {h} : streams'[g] = streams[g]
  BY DEF Open, KeyOf, ViewInv, IInv, TypeOK
<1>3. Sees(v, k, phase, log)
  BY <1>1, ReplaySees
<1>4. v \in Seq(Nat) /\ <<>> \in Seq(Nat) /\ <<>> \o v = v
  BY <1>1, ReplaySeqType, EmptySeq, ConcatEmptySeq DEF ViewInv, IInv
<1>5. old.got \o old.values = <<>>
  BY <1>2 DEF ViewInv, ReaderSees, Sees
<1> HIDE DEF v, k, phase, old, now
<1>6. Grown(<<>>, v)
  <2> DEFINE none == <<>>
  <2>1. none \in Seq(Nat) /\ Len(none) = 0 /\ Len(v) \in Nat
    BY <1>4, LenProperties
  <2> HIDE DEF none
  <2>2. Len(none) <= Len(v) /\ \A i \in 1..Len(none) : v[i] = none[i]
    BY <2>1
  <2>3. Grown(none, v)
    BY <1>4, <2>1, <2>2, GrownBy
  <2> QED BY <2>3 DEF none
<1>7. Follows(old, now, log)
  BY <1>2, <1>3, <1>4, <1>5, <1>6 DEF Follows, ReaderSees
<1> QED BY <1>1, <1>2, <1>7, Unmoved DEF old, now

LEMMA RouteFollows ==
  ASSUME ViewInv, TypeOK', NEW th \in Threads, NEW turn \in Turns, NEW what \in What,
         Route(th, turn, what)
  PROVE  \A g \in Streams : Follows(streams[g], streams'[g], log')
<1> DEFINE k == <<th, turn>>
           n == Len(log) + 1
           ended == Recorded(k, n, what).terminal # 0
<1>1. k \in Keys /\ Len(log) \in Nat /\ n \in Nat /\ n # 0
  BY LenProperties DEF Keys, ViewInv, IInv, TypeOK
<1>2. /\ Extends(log, log') /\ Len(log') = n
      /\ log'[n].key = k /\ log'[n].what = what
  <2>1. [key |-> k, what |-> what] \in Event
    BY <1>1 DEF Event
  <2>2. log \in Seq(Event) /\ log' = Append(log, [key |-> k, what |-> what])
    BY DEF ViewInv, IInv, TypeOK, Route
  <2> HIDE DEF k
  <2> QED BY <1>1, <2>1, <2>2, AppendProperties DEF Extends
<1>3. TAKE g \in Streams
<1> DEFINE s == streams[g]
           t == streams'[g]
<1>4. /\ s \in Stream /\ t \in Stream /\ ReaderSees(s, log)
      /\ s.waiters > 0 => s.values = <<>>
  BY DEF ViewInv, IInv, TypeOK, NoForgottenWaiter
<1>5. CASE g \notin states[k].streams
  <2>1. t = s
    BY <1>5 DEF Route, KeyOf
  <2> HIDE DEF s, t
  <2>2. Follows(s, t, log')
    BY <1>2, <1>4, <2>1, FollowsSame
  <2> QED BY <2>2 DEF s, t
<1>6. CASE g \in states[k].streams
  <2>1. s.phase = "open" /\ s.key = k
    BY <1>1, <1>6 DEF ViewInv, IInv, LiveReadersRegistered
  <2>2. ended <=> what = "completed"
    <3>1. states[k].terminal = 0
      BY <1>1, <1>6 DEF ViewInv, IInv, ReadersMeanRunning
    <3> QED BY <1>1, <3>1 DEF Recorded
  <2>3. t = IF ended THEN Complete(Push(s, n)) ELSE Push(s, n)
    BY <1>6 DEF Route, KeyOf
  <2> HIDE DEF s, t, ended, n, k
  <2>4. /\ Push(s, n).got \o Push(s, n).values = Append(s.got \o s.values, n)
        /\ Push(s, n).phase = "open" /\ Push(s, n).key = k
        /\ Push(s, n) \in Stream
    BY <1>1, <1>4, <2>1, PushedNext, StreamOperationTypes
  <2>5. /\ t.got \o t.values = Append(s.got \o s.values, n)
        /\ t.key = k /\ t.phase = IF what = "completed" THEN "done" ELSE "open"
    <3>1. CASE ended
      BY <2>2, <2>3, <2>4, <3>1, CompletedSame
    <3>2. CASE ~ended
      BY <2>2, <2>3, <2>4, <3>2
    <3> QED BY <3>1, <3>2
  <2>6. Sees(Append(s.got \o s.values, n), k,
             IF what = "completed" THEN "done" ELSE "open", log')
    <3>1. s.got \o s.values \in Seq(Nat) /\ Sees(s.got \o s.values, k, "open", log)
      BY <1>4, <2>1, SeenType DEF ReaderSees
    <3> QED BY <1>2, <3>1, SeesNext DEF n
  <2>7. Grown(s.got \o s.values, Append(s.got \o s.values, n))
    <3> DEFINE v == s.got \o s.values
    <3>1. v \in Seq(Nat) /\ Len(v) \in Nat
      BY <1>4, SeenType, LenProperties
    <3> HIDE DEF v
    <3>2. /\ Append(v, n) \in Seq(Nat) /\ Len(v) <= Len(Append(v, n))
          /\ \A i \in 1..Len(v) : Append(v, n)[i] = v[i]
      BY <1>1, <3>1, AppendProperties
    <3>3. Grown(v, Append(v, n))
      BY <3>1, <3>2, GrownBy
    <3> QED BY <3>3 DEF v
  <2>8. Follows(s, t, log')
    BY <2>5, <2>6, <2>7 DEF Follows, ReaderSees
  <2> QED BY <2>8 DEF s, t
<1> QED BY <1>5, <1>6

LEMMA FailAllFollows ==
  ASSUME ViewInv, TypeOK', FailAll
  PROVE  \A g \in Streams : Follows(streams[g], streams'[g], log')
<1>1. TAKE g \in Streams
<1> DEFINE s == streams[g]
           t == streams'[g]
<1>2. /\ s \in Stream /\ t \in Stream /\ ReaderSees(s, log) /\ log' = log
  BY DEF ViewInv, IInv, TypeOK, FailAll
<1>3. t = s \/ t = Fail(s)
  BY DEF FailAll
<1>4. CASE t = s
  BY <1>2, <1>4, Unmoved
<1>5. CASE t = Fail(s) /\ s.phase = "open"
  <2>1. t.got = s.got /\ t.values = <<>> /\ t.key = s.key /\ t.phase = "failed"
    BY <1>2, <1>5 DEF Fail, Stream
  <2> HIDE DEF s, t
  <2>2. Follows(s, t, log)
    BY <1>2, <2>1, FollowsDropped
  <2> QED BY <1>2, <2>2 DEF s, t
<1>6. CASE t = Fail(s) /\ s.phase # "open"
  <2>1. t = s
    BY <1>6 DEF Fail
  <2> QED BY <1>2, <2>1, Unmoved
<1> QED BY <1>3, <1>4, <1>5, <1>6

LEMMA NextFollows ==
  ASSUME ViewInv, TypeOK', [Next]_vars
  PROVE  \A g \in Streams : Follows(streams[g], streams'[g], log')
<1>1. CASE UNCHANGED <<streams, log>>
  BY <1>1, Unmoved
<1>2. ASSUME NEW t \in Starts, Release(t) \/ \E th \in Threads : ReserveStart(t, th)
      PROVE  UNCHANGED <<streams, log>>
  BY <1>2 DEF Release, ReserveStart
<1>3. UNCHANGED vars => UNCHANGED <<streams, log>>
  BY DEF vars
<1> QED BY <1>1, <1>2, <1>3, ReaderFollows, OpenFollows, RouteFollows, FailAllFollows
        DEF Next

-----------------------------------------------------------------------------
(* What a step does to what turns keep, and the invariant.                 *)

LEMMA NextHolds ==
  ASSUME ViewInv, [Next]_vars
  PROVE  HeldOfTurn'
<1>1. /\ RouterAssumption /\ TypeOK /\ states \in [Keys -> TurnState]
      /\ Len(log) \in Nat
      /\ \A k \in Keys : \A n \in Held(states[k]) : n \in 1..Len(log) /\ log[n].key = k
  BY RouterAssumption, LenProperties DEF ViewInv, IInv, TypeOK, HeldOfTurn
<1>2. ASSUME log' = log, \A k \in Keys : Held(states'[k]) \subseteq Held(states[k])
      PROVE  HeldOfTurn'
  BY <1>1, <1>2 DEF HeldOfTurn, Held
<1>3. ASSUME UNCHANGED <<states, log>>
      PROVE  HeldOfTurn'
  BY <1>2, <1>3
<1>4. ASSUME NEW h \in Streams, Return(h)
      PROVE  HeldOfTurn'
  <2>1. \A k \in Keys : states'[k] = states[k] \/ states'[k] = Disposed(states[k], h, k)
    BY <1>1, <1>4 DEF Return
  <2> QED BY <1>1, <1>2, <1>4, <2>1, HeldLess DEF Return
<1>5. ASSUME NEW t \in Starts, Release(t)
      PROVE  HeldOfTurn'
  <2>1. \A k \in Keys : states'[k] = states[k] \/ states'[k] = Settled(states[k])
    BY <1>1, <1>5 DEF Release
  <2> QED BY <1>1, <1>2, <1>5, <2>1, HeldLess DEF Release
<1>6. ASSUME NEW t \in Starts, NEW turn \in Turns, NEW h \in Streams, Open(t, turn, h)
      PROVE  HeldOfTurn'
  <2>1. ASSUME NEW k \in Keys
        PROVE  \/ states'[k] = states[k]
               \/ \E completes \in BOOLEAN : states'[k] = Opened(k, h, completes)
    BY <1>1, <1>6 DEF Open
  <2> QED BY <1>1, <1>2, <1>6, <2>1, OpenedHolds DEF Open
<1>7. ASSUME NEW th \in Threads, NEW turn \in Turns, NEW what \in What,
             Route(th, turn, what)
      PROVE  HeldOfTurn'
  <2> DEFINE k == <<th, turn>>
             n == Len(log) + 1
             st == Recorded(k, n, what)
             finished == st.subscribed /\ st.terminal # 0 /\ st.streams = {} /\ ~PendingStart(k)
             sts == [states EXCEPT ![k] = IF finished THEN NewState ELSE st]
  <2>1. k \in Keys /\ n \in Nat
    BY <1>1 DEF Keys
  <2>2. /\ states' = Trimmed(sts)
        /\ log' = Append(log, [key |-> k, what |-> what])
    BY <1>7 DEF Route, KeyOf
  <2>3. st \in TurnState /\ Held(st) \subseteq Held(states[k]) \cup {n}
    BY <1>1, <2>1, RecordedType, RecordedHolds
  <2>4. /\ Len(log') = n /\ \A i \in 1..Len(log) : log'[i] = log[i]
        /\ log'[n].key = k
    <3>1. [key |-> k, what |-> what] \in Event
      BY <2>1 DEF Event
    <3> HIDE DEF k
    <3> QED BY <1>1, <2>2, <3>1, AppendProperties DEF TypeOK
  <2> HIDE DEF k, st
  <2>5. /\ sts \in [Keys -> TurnState]
        /\ \A j \in Keys : \/ sts[j] = states[j]
                           \/ j = k /\ sts[j] \in {NewState, st}
    BY <1>1, <2>1, <2>3, NewTypes
  <2> HIDE DEF sts
  <2>6. ASSUME NEW j \in Keys, NEW m \in Held(sts[j])
        PROVE  m \in Held(states[j]) \/ (j = k /\ m = n)
    BY <2>3, <2>5, <2>6, NothingHeld
  <2>7. ASSUME NEW j \in Keys, NEW m \in Held(states'[j])
        PROVE  m \in 1..Len(log') /\ log'[m].key = j
    <3>1. m \in Held(sts[j])
      BY <1>1, <2>2, <2>5, <2>7, TrimmedHolds
    <3>2. CASE m \in Held(states[j])
      <4>1. m \in 1..Len(log) /\ log[m].key = j
        BY <1>1, <3>2
      <4> QED BY <1>1, <2>4, <4>1
    <3>3. CASE j = k /\ m = n
      BY <2>1, <1>1, <2>4, <3>3
    <3> QED BY <2>6, <3>1, <3>2, <3>3
  <2> QED BY <2>7 DEF HeldOfTurn, Held
<1>8. CASE FailAll
  <2>1. log' = log /\ \A k \in Keys : states'[k] = NewState
    BY <1>8 DEF FailAll
  <2> QED BY <1>2, <2>1, NothingHeld
<1>9. ASSUME NEW h \in Streams, Take(h) \/ Wait(h)
      PROVE  UNCHANGED <<states, log>>
  BY <1>9 DEF Take, Wait
<1>10. ASSUME NEW t \in Starts, NEW th \in Threads, ReserveStart(t, th)
       PROVE  UNCHANGED <<states, log>>
  BY <1>10 DEF ReserveStart
<1>11. UNCHANGED vars => UNCHANGED <<states, log>>
  BY DEF vars
<1> QED BY <1>3, <1>4, <1>5, <1>6, <1>7, <1>8, <1>9, <1>10, <1>11 DEF Next

LEMMA ViewInit == Init => ViewInv
<1> SUFFICES ASSUME Init PROVE ViewInv
  OBVIOUS
<1>1. IInv
  BY InitInv
<1>2. HeldOfTurn
  BY NothingHeld DEF Init, HeldOfTurn
<1>3. ASSUME NEW h \in Streams
      PROVE  ReaderSees(streams[h], log)
  <2>1. <<>> \in Seq(Nat) /\ <<>> \o <<>> = <<>>
    BY EmptySeq, ConcatEmptySeq
  <2> QED BY <2>1 DEF Init, NewStream, ReaderSees, Sees
<1> QED BY <1>1, <1>2, <1>3 DEF ViewInv

LEMMA ViewNext == ViewInv /\ [Next]_vars => ViewInv'
<1> SUFFICES ASSUME ViewInv, [Next]_vars PROVE ViewInv'
  OBVIOUS
<1>1. IInv' /\ HeldOfTurn'
  BY NextInv, NextHolds DEF ViewInv
<1>2. \A h \in Streams : ReaderSees(streams'[h], log')
  BY <1>1, NextFollows DEF Follows, IInv
<1> QED BY <1>1, <1>2 DEF ViewInv, ReaderSees, Sees

\* What readers see is what was routed to their turn, in every behaviour.
THEOREM ViewInvariance == Spec => []ViewInv
BY ViewInit, ViewNext, PTL DEF Spec

\* A reader sees events of its own turn, in order of arrival, each once, whatever
\* is replayed to it and whoever else reads the turn.
THEOREM SeesInOrder == Spec => []ViewsInOrder
<1>1. ViewInv => ViewsInOrder
  <2> SUFFICES ASSUME ViewInv, NEW h \in Streams
               PROVE  /\ \A i \in 1..Len(View(h)) : log[View(h)[i]].key = streams[h].key
                      /\ \A i \in 1..(Len(View(h)) - 1) : View(h)[i] < View(h)[i + 1]
    BY DEF ViewsInOrder
  <2> DEFINE v == streams[h].got \o streams[h].values
  <2>1. View(h) = v /\ Sees(v, streams[h].key, streams[h].phase, log)
    BY DEF View, ViewInv, ReaderSees
  <2>2. Len(v) \in Nat
    BY SeenType, LenProperties DEF ViewInv, IInv, TypeOK
  <2> HIDE DEF v
  <2>3. ASSUME NEW i \in 1..(Len(v) - 1)
        PROVE  v[i] < v[i + 1]
    <3>1. i \in 1..Len(v) /\ i + 1 \in 1..Len(v) /\ i < i + 1
      BY <2>2
    <3> QED BY <2>1, <3>1 DEF Sees
  <2> QED BY <2>1, <2>3 DEF Sees
<1> QED BY <1>1, ViewInvariance, PTL

\* The completion is the last event a reader sees, and a reader that came to the
\* end saw it.
THEOREM CompletionEnds == Spec => []EndsWithCompletion
<1>1. ViewInv => EndsWithCompletion
  <2> SUFFICES ASSUME ViewInv, NEW h \in Streams
               PROVE  LET v == View(h)
                          completions == {i \in DOMAIN v : IsCompletion(v[i])}
                      IN  /\ completions \subseteq {Len(v)}
                          /\ streams[h].phase = "done" => completions # {}
                          /\ streams[h].phase = "open" => completions = {}
    BY DEF EndsWithCompletion
  <2> DEFINE v == streams[h].got \o streams[h].values
  <2>1. View(h) = v /\ Sees(v, streams[h].key, streams[h].phase, log)
    BY DEF View, ViewInv, ReaderSees
  <2>2. DOMAIN v = 1..Len(v)
    BY SeenType, LenProperties DEF ViewInv, IInv, TypeOK
  <2> HIDE DEF v
  <2> QED BY <2>1, <2>2 DEF Sees, IsCompletion
<1> QED BY <1>1, ViewInvariance, PTL

\* What a reader has seen or has queued stays, until it returns or fails.
THEOREM NothingTakenBack == Spec => ViewsOnlyGrow
<1>1. ViewInv /\ ViewInv' /\ [Next]_vars =>
        [\A h \in Streams :
           \/ streams'[h].phase \in {"returned", "failed"}
           \/ /\ Len(View(h)) <= Len(View(h)')
              /\ SubSeq(View(h)', 1, Len(View(h))) = View(h)]_vars
  <2> SUFFICES ASSUME ViewInv, ViewInv', [Next]_vars, NEW h \in Streams
               PROVE  \/ streams'[h].phase \in {"returned", "failed"}
                      \/ /\ Len(View(h)) <= Len(View(h)')
                         /\ SubSeq(View(h)', 1, Len(View(h))) = View(h)
    OBVIOUS
  <2>1. Follows(streams[h], streams'[h], log')
    BY NextFollows DEF ViewInv, IInv
  <2> QED BY <2>1 DEF Follows, Grown, View
<1> QED BY <1>1, ViewInvariance, PTL DEF Spec, ViewsOnlyGrow

-----------------------------------------------------------------------------
(* The bound on the histories nobody asked for.                            *)

Bounded(st) ==
  Len(st.items) <= MaxPendingEvents /\ Len(st.early) <= MaxPendingEvents

\* The place of a turn in the insertion order is an event of its own.
Born(st, k, lg) == st.born # 0 => st.born \in 1..Len(lg) /\ lg[st.born].key = k

BornApart == \A k \in Keys : Born(states[k], k, log)

\* The strengthening from which UnclaimedBounded follows.
UnclaimedInv ==
  /\ IInv /\ BornApart
  /\ IsFiniteSet(Unclaimed(states)) /\ UnclaimedBounded

\* Of the elements of a finite set with distinct places, no more than max have
\* fewer than max above them.
LEMMA FewKept ==
  ASSUME NEW U, IsFiniteSet(U), NEW place \in [U -> Nat],
         \A j, k \in U : place[j] = place[k] => j = k,
         NEW max \in Nat \ {0},
         NEW kept \in SUBSET U,
         \A k \in kept : ~(Cardinality({j \in U : place[j] > place[k]}) >= max)
  PROVE  Cardinality(kept) <= max
<1>1. IsFiniteSet(kept)
  BY FS_Subset
<1>2. CASE kept = {}
  BY <1>2, FS_EmptySet
<1>3. CASE kept # {}
  <2> DEFINE places == {place[k] : k \in kept}
  <2>1. places \subseteq Nat /\ places # {}
    BY <1>3
  <2>2. PICK p \in places : \A q \in places : p <= q
    BY <2>1, LeastNatural
  <2>3. PICK last \in kept : p = place[last]
    BY <2>2
  <2> DEFINE above == {j \in U : place[j] > place[last]}
             rest == kept \ {last}
  <2>4. ASSUME NEW k \in rest
        PROVE  k \in above
    <3>1. k \in kept /\ k # last /\ place[last] <= place[k]
      BY <2>2, <2>3
    <3>2. place[k] \in Nat /\ place[last] \in Nat /\ place[k] # place[last]
      BY <2>3, <3>1
    <3> QED BY <3>1, <3>2
  <2>5. IsFiniteSet(above) /\ Cardinality(above) \in Nat
    BY FS_Subset, FS_CardinalityType
  <2>6. Cardinality(rest) <= Cardinality(above) /\ Cardinality(rest) \in Nat
    <3>1. rest \subseteq above
      BY <2>4
    <3>2. IsFiniteSet(rest)
      BY <1>1, FS_Subset
    <3> HIDE DEF rest, above
    <3> QED BY <2>5, <3>1, <3>2, FS_Subset, FS_CardinalityType
  <2>7. ~(Cardinality(above) >= max)
    BY <2>3
  <2>8. Cardinality(rest) = Cardinality(kept) - 1 /\ Cardinality(kept) \in Nat
    BY <1>1, <2>3, FS_RemoveElement, FS_CardinalityType
  <2> HIDE DEF rest, above
  <2> QED BY <2>5, <2>6, <2>7, <2>8
<1> QED BY <1>2, <1>3

\* A step that makes no turn unclaimed and leaves those that are.
LEMMA UnclaimedLess ==
  ASSUME RouterAssumption, UnclaimedInv, TypeOK', log' = log,
         \A k \in Keys : states'[k].born \in {states[k].born, 0},
         \A k \in Unclaimed(states)' : k \in Unclaimed(states) /\ states'[k] = states[k]
  PROVE  BornApart' /\ IsFiniteSet(Unclaimed(states)') /\ UnclaimedBounded'
<1>1. BornApart'
  BY DEF UnclaimedInv, BornApart, Born
<1>2. /\ IsFiniteSet(Unclaimed(states)')
      /\ Cardinality(Unclaimed(states)') <= Cardinality(Unclaimed(states))
      /\ Cardinality(Unclaimed(states)') \in Nat /\ Cardinality(Unclaimed(states)) \in Nat
  <2> DEFINE U == Unclaimed(states)
             V == Unclaimed(states)'
  <2>1. V \subseteq U /\ IsFiniteSet(U)
    BY DEF UnclaimedInv
  <2> HIDE DEF U, V
  <2>2. IsFiniteSet(V) /\ Cardinality(V) <= Cardinality(U)
        /\ Cardinality(V) \in Nat /\ Cardinality(U) \in Nat
    BY <2>1, FS_Subset, FS_CardinalityType
  <2> QED BY <2>2 DEF U, V
<1>3. \A k \in Unclaimed(states)' : Bounded(states'[k])
  BY DEF UnclaimedInv, UnclaimedBounded, Bounded
<1>4. Cardinality(Unclaimed(states)') <= MaxPendingTurns
  BY <1>2 DEF UnclaimedInv, UnclaimedBounded, RouterAssumption
<1> QED BY <1>1, <1>2, <1>3, <1>4 DEF UnclaimedBounded, Bounded

\* An owned turn is never unclaimed again, but let go.
LEMMA UnclaimedByReader ==
  ASSUME RouterAssumption, UnclaimedInv, TypeOK',
         \/ \E h \in Streams : Take(h) \/ Wait(h) \/ Return(h)
         \/ \E t \in Starts, turn \in Turns, h \in Streams : Open(t, turn, h)
  PROVE  BornApart' /\ IsFiniteSet(Unclaimed(states)') /\ UnclaimedBounded'
<1>1. states \in [Keys -> TurnState] /\ NewState.born = 0
  BY DEF UnclaimedInv, IInv, TypeOK, NewState
<1>2. starts' = starts /\ log' = log
  BY DEF Take, Wait, Return, Open
<1>3. ASSUME NEW k \in Keys
      PROVE  \/ states'[k] = states[k]
             \/ /\ states'[k].born \in {states[k].born, 0}
                /\ states'[k].subscribed \/ states'[k].born = 0
  <2>1. ASSUME NEW h \in Streams, Take(h) \/ Wait(h)
        PROVE  states'[k] = states[k]
    BY <2>1 DEF Take, Wait
  <2>2. ASSUME NEW h \in Streams, Return(h), states'[k] # states[k]
        PROVE  /\ states'[k].born \in {states[k].born, 0}
               /\ states'[k].subscribed \/ states'[k].born = 0
    <3>1. streams[h].phase = "open" /\ k = streams[h].key
          /\ states'[k] = Disposed(states[k], h, k)
      BY <1>1, <2>2 DEF Return
    <3>2. states[k].subscribed
      BY <3>1 DEF UnclaimedInv, IInv, LiveReadersRegistered, ReadersMeanRunning
    <3> DEFINE rest == [states[k] EXCEPT !.streams = @ \ {h}]
    <3>3. rest.subscribed /\ rest.born = states[k].born
      BY <1>1, <3>2 DEF TurnState
    <3>4. Disposed(states[k], h, k) \in {NewState, rest}
      BY DEF Disposed
    <3> HIDE DEF rest
    <3> QED BY <1>1, <3>1, <3>3, <3>4
  <2>3. ASSUME NEW t \in Starts, NEW turn \in Turns, NEW h \in Streams, Open(t, turn, h),
               states'[k] # states[k]
        PROVE  /\ states'[k].born \in {states[k].born, 0}
               /\ states'[k].subscribed \/ states'[k].born = 0
    <3>1. PICK completes \in BOOLEAN : states'[k] = Opened(k, h, completes)
      BY <1>1, <2>3 DEF Open
    <3> DEFINE st == [states[k] EXCEPT !.subscribed = TRUE, !.streams = @ \cup {h}]
               rest == [st EXCEPT !.streams = @ \ {h}]
               kept == IF completes THEN Disposed(st, h, k) ELSE st
    <3>2. /\ st \in TurnState /\ st.subscribed /\ st.born = states[k].born
          /\ rest \in TurnState /\ rest.subscribed /\ rest.born = states[k].born
      BY <1>1 DEF TurnState
    <3>3. kept \in {NewState, rest, st}
      BY DEF Disposed
    <3>4. Opened(k, h, completes) = IF PendingStart(k) THEN kept ELSE [kept EXCEPT !.early = <<>>]
      BY DEF Opened
    <3> HIDE DEF st, rest, kept
    <3>5. /\ kept \in TurnState /\ kept.born \in {states[k].born, 0}
          /\ kept.subscribed \/ kept.born = 0
      BY <1>1, <3>2, <3>3, NewTypes
    <3>6. LET now == [kept EXCEPT !.early = <<>>]
          IN  now.born = kept.born /\ now.subscribed = kept.subscribed
      BY <3>5 DEF TurnState
    <3> QED BY <3>1, <3>4, <3>5, <3>6
  <2> QED BY <2>1, <2>2, <2>3
<1>4. \A k \in Unclaimed(states)' : k \in Unclaimed(states) /\ states'[k] = states[k]
  BY <1>2, <1>3 DEF Unclaimed, PendingStart
<1>5. \A k \in Keys : states'[k].born \in {states[k].born, 0}
  BY <1>3
<1> QED BY <1>2, <1>4, <1>5, UnclaimedLess

LEMMA UnclaimedByStart ==
  ASSUME RouterAssumption, UnclaimedInv, TypeOK',
         \/ \E t \in Starts, th \in Threads : ReserveStart(t, th)
         \/ \E t \in Starts : Release(t)
         \/ FailAll
  PROVE  BornApart' /\ IsFiniteSet(Unclaimed(states)') /\ UnclaimedBounded'
<1>1. /\ states \in [Keys -> TurnState] /\ NewState.born = 0
      /\ starts \in [Threads -> SUBSET Starts]
      /\ \A k \in Keys : ThreadOf(k) \in Threads
  BY DEF UnclaimedInv, IInv, TypeOK, NewState, Keys, ThreadOf
<1>2. log' = log
  BY DEF ReserveStart, Release, FailAll
<1>3. ASSUME NEW k \in Keys
      PROVE  \/ states'[k] = states[k] /\ (PendingStart(k) => PendingStart(k)')
             \/ /\ states'[k].born \in {states[k].born, 0}
                /\ states'[k].subscribed \/ states'[k].born = 0
  <2>1. ASSUME NEW t \in Starts, NEW th \in Threads, ReserveStart(t, th)
        PROVE  states'[k] = states[k] /\ (PendingStart(k) => PendingStart(k)')
    BY <1>1, <2>1 DEF ReserveStart, PendingStart
  <2>2. CASE FailAll
    BY <1>1, <2>2 DEF FailAll
  <2>3. ASSUME NEW t \in Starts, Release(t)
        PROVE  \/ states'[k] = states[k] /\ (PendingStart(k) => PendingStart(k)')
               \/ /\ states'[k].born \in {states[k].born, 0}
                  /\ states'[k].subscribed \/ states'[k].born = 0
    <3> DEFINE th == ops[t].thread
               now == [states[k] EXCEPT !.early = <<>>]
    <3>1. CASE t \in starts[th] /\ starts[th] = {t} /\ ThreadOf(k) = th
      <4>1. states'[k] = Settled(states[k])
        BY <1>1, <2>3, <3>1 DEF Release
      <4>2. now.born = states[k].born /\ now.subscribed = states[k].subscribed
        BY <1>1 DEF TurnState
      <4>3. Settled(states[k]) = NewState
              \/ (states[k].subscribed /\ Settled(states[k]) = now)
        BY DEF Settled
      <4> HIDE DEF now
      <4> QED BY <1>1, <4>1, <4>2, <4>3
    <3>2. CASE ~(t \in starts[th] /\ starts[th] = {t} /\ ThreadOf(k) = th)
      <4>1. states'[k] = states[k]
        BY <1>1, <2>3, <3>2 DEF Release
      <4>2. starts' = starts \/ (t \in starts[th] /\ starts' = [starts EXCEPT ![th] = @ \ {t}])
        BY <2>3 DEF Release
      <4>3. PendingStart(k) => PendingStart(k)'
        <5> SUFFICES ASSUME starts[ThreadOf(k)] # {} PROVE starts'[ThreadOf(k)] # {}
          BY DEF PendingStart, ThreadOf
        <5>1. CASE ThreadOf(k) # th \/ starts' = starts
          BY <1>1, <4>2, <5>1
        <5>2. CASE ThreadOf(k) = th /\ t \in starts[th]
                   /\ starts' = [starts EXCEPT ![th] = @ \ {t}]
          BY <1>1, <3>2, <5>2
        <5> QED BY <4>2, <5>1, <5>2
      <4> QED BY <4>1, <4>3
    <3> QED BY <3>1, <3>2
  <2> QED BY <2>1, <2>2, <2>3
<1>4. \A k \in Unclaimed(states)' : k \in Unclaimed(states) /\ states'[k] = states[k]
  BY <1>3 DEF Unclaimed
<1>5. \A k \in Keys : states'[k].born \in {states[k].born, 0}
  BY <1>3
<1> QED BY <1>2, <1>4, <1>5, UnclaimedLess

\* trimUnclaimed keeps the newest.
LEMMA UnclaimedByRoute ==
  ASSUME RouterAssumption, UnclaimedInv, TypeOK',
         NEW th \in Threads, NEW turn \in Turns, NEW what \in What, Route(th, turn, what)
  PROVE  BornApart' /\ IsFiniteSet(Unclaimed(states)') /\ UnclaimedBounded'
<1> DEFINE k == <<th, turn>>
           n == Len(log) + 1
           st == Recorded(k, n, what)
           finished == st.subscribed /\ st.terminal # 0 /\ st.streams = {} /\ ~PendingStart(k)
           sts == [states EXCEPT ![k] = IF finished THEN NewState ELSE st]
           U == Unclaimed(sts)
           place == [j \in U |-> sts[j].born]
           kept == Unclaimed(states)'
<1>1. /\ k \in Keys /\ Len(log) \in Nat /\ n \in Nat /\ n # 0
      /\ states \in [Keys -> TurnState] /\ TypeOK
      /\ MaxPendingTurns \in Nat \ {0} /\ MaxPendingEvents \in Nat
  BY LenProperties DEF Keys, UnclaimedInv, IInv, TypeOK, RouterAssumption
<1>2. /\ states' = Trimmed(sts) /\ starts' = starts
      /\ log' = Append(log, [key |-> k, what |-> what])
  BY DEF Route, KeyOf
<1>3. /\ Len(log') = n /\ \A i \in 1..Len(log) : log'[i] = log[i]
      /\ log'[n].key = k
  <2>1. [key |-> k, what |-> what] \in Event
    BY <1>1 DEF Event
  <2> HIDE DEF k
  <2> QED BY <1>1, <1>2, <2>1, AppendProperties DEF TypeOK
<1>4. /\ st \in TurnState
      /\ st.born = IF states[k].born = 0 THEN n ELSE states[k].born
      /\ ~st.subscribed => Len(st.early) <= MaxPendingEvents
  <2>1. st \in TurnState
    BY <1>1, RecordedType
  <2>2. Append(states[k].early, n) \in Seq(Nat)
    BY <1>1, AppendProperties DEF TurnState
  <2>3. Len(LastOf(Append(states[k].early, n), MaxPendingEvents)) <= MaxPendingEvents
    BY <1>1, <2>2, LastOfProperties
  <2> QED BY <2>1, <2>3 DEF Recorded
<1> HIDE DEF k, n, st
<1>5. /\ sts \in [Keys -> TurnState]
      /\ \A j \in Keys \ {k} : sts[j] = states[j]
      /\ sts[k] \in {NewState, st}
  BY <1>1, <1>4, NewTypes
<1>6. NewState.born = 0
  BY DEF NewState
<1> HIDE DEF sts
<1>7. \A j \in Keys : Born(sts[j], j, log')
  <2>1. ASSUME NEW j \in Keys, Born(sts[j], j, log)
        PROVE  Born(sts[j], j, log')
    BY <1>1, <1>3, <2>1 DEF Born, n
  <2>2. Born(sts[k], k, log) \/ sts[k].born = n
    BY <1>1, <1>4, <1>5, <1>6 DEF Born, UnclaimedInv, BornApart
  <2>3. n \in 1..n
    BY <1>1
  <2> QED BY <1>1, <1>3, <1>5, <2>1, <2>2, <2>3 DEF Born, UnclaimedInv, BornApart
<1>8. IsFiniteSet(U)
  <2>1. U \subseteq Unclaimed(states) \cup {k}
    BY <1>5 DEF Unclaimed
  <2>2. IsFiniteSet(Unclaimed(states) \cup {k})
    BY FS_AddElement DEF UnclaimedInv
  <2> HIDE DEF U
  <2> QED BY <2>1, <2>2, FS_Subset
<1>9. /\ place \in [U -> Nat]
      /\ \A i, j \in U : place[i] = place[j] => i = j
  <2>1. \A j \in U : j \in Keys /\ sts[j].born # 0 /\ sts[j].born \in Nat
    BY <1>5 DEF Unclaimed, TurnState
  <2>2. \A j \in U : log'[sts[j].born].key = j
    BY <1>7, <2>1 DEF Born
  <2> HIDE DEF U
  <2> QED BY <2>1, <2>2
<1>10. ASSUME NEW j \in Keys
       PROVE  LET cut == [sts[j] EXCEPT !.items = LastOf(@, MaxPendingEvents)]
              IN  \/ j \notin U /\ states'[j] = sts[j]
                  \/ states'[j] = NewState
                  \/ /\ j \in U /\ states'[j] = cut
                     /\ ~(Cardinality({i \in U : sts[i].born > sts[j].born}) >= MaxPendingTurns)
  BY <1>2 DEF Trimmed
<1>11. ASSUME NEW j \in Keys
       PROVE  LET cut == [sts[j] EXCEPT !.items = LastOf(@, MaxPendingEvents)]
              IN  /\ cut.born = sts[j].born /\ cut.early = sts[j].early
                  /\ Len(cut.items) <= MaxPendingEvents
  <2>1. sts[j].items \in Seq(Nat)
    BY <1>5 DEF TurnState
  <2>2. Len(LastOf(sts[j].items, MaxPendingEvents)) <= MaxPendingEvents
    BY <1>1, <2>1, LastOfProperties
  <2> QED BY <1>5, <2>2 DEF TurnState
<1>12. ASSUME NEW j \in kept
       PROVE  /\ j \in U /\ states'[j] = [sts[j] EXCEPT !.items = LastOf(@, MaxPendingEvents)]
              /\ ~(Cardinality({i \in U : sts[i].born > sts[j].born}) >= MaxPendingTurns)
  <2>1. j \in Keys /\ states'[j].born # 0 /\ ~states'[j].subscribed /\ ~PendingStart(j)
    BY <1>2 DEF Unclaimed, PendingStart
  <2>2. ~(j \notin U /\ states'[j] = sts[j])
    BY <2>1 DEF Unclaimed
  <2> QED BY <1>6, <1>10, <2>1, <2>2
<1>13. Cardinality(kept) <= MaxPendingTurns /\ IsFiniteSet(kept)
  <2>1. kept \in SUBSET U
    BY <1>12
  <2>2. ASSUME NEW j \in kept
        PROVE  ~(Cardinality({i \in U : place[i] > place[j]}) >= MaxPendingTurns)
    <3>1. {i \in U : place[i] > place[j]} = {i \in U : sts[i].born > sts[j].born}
      BY <1>12
    <3> QED BY <1>12, <3>1
  <2> HIDE DEF U, place, kept
  <2> QED BY <1>1, <1>8, <1>9, <2>1, <2>2, FewKept, FS_Subset
<1>14. ASSUME NEW j \in kept
       PROVE  Bounded(states'[j])
  <2>1. j \in Keys /\ j \in U
    BY <1>12 DEF Unclaimed
  <2>2. Len(sts[j].early) <= MaxPendingEvents
    <3>1. CASE j = k
      <4>1. sts[k] = st /\ ~st.subscribed
        BY <1>5, <1>6, <2>1, <3>1 DEF Unclaimed
      <4> QED BY <1>4, <3>1, <4>1
    <3>2. CASE j # k
      <4>1. sts[j] = states[j] /\ j \in Unclaimed(states)
        BY <1>5, <2>1, <3>2 DEF Unclaimed
      <4> QED BY <4>1 DEF UnclaimedInv, UnclaimedBounded
    <3> QED BY <3>1, <3>2
  <2> QED BY <1>11, <1>12, <2>1, <2>2 DEF Bounded
<1>15. ASSUME NEW j \in Keys
       PROVE  Born(states'[j], j, log')
  <2>1. states'[j].born \in {sts[j].born, 0}
    BY <1>6, <1>10, <1>11
  <2> QED BY <1>7, <2>1 DEF Born
<1> QED BY <1>13, <1>14, <1>15 DEF BornApart, UnclaimedBounded, Bounded

LEMMA UnclaimedInit == Init => UnclaimedInv
<1> SUFFICES ASSUME Init PROVE UnclaimedInv
  OBVIOUS
<1>1. IInv
  BY InitInv
<1>2. \A k \in Keys : states[k].born = 0
  BY DEF Init, NewState
<1>3. Unclaimed(states) = {}
  BY <1>2 DEF Unclaimed
<1>4. BornApart
  BY <1>2 DEF BornApart, Born
<1>5. IsFiniteSet(Unclaimed(states)) /\ Cardinality(Unclaimed(states)) = 0
  BY <1>3, FS_EmptySet
<1> QED BY <1>1, <1>3, <1>4, <1>5, RouterAssumption
        DEF UnclaimedInv, UnclaimedBounded, RouterAssumption

LEMMA UnclaimedNext == UnclaimedInv /\ [Next]_vars => UnclaimedInv'
<1> SUFFICES ASSUME UnclaimedInv, [Next]_vars PROVE UnclaimedInv'
  OBVIOUS
<1>1. IInv' /\ TypeOK'
  BY NextInv DEF UnclaimedInv, IInv
<1>2. CASE UNCHANGED vars
  <2>1. /\ log' = log /\ states' = states
        /\ \A k \in Unclaimed(states)' : k \in Unclaimed(states)
    BY <1>2 DEF vars, Unclaimed, PendingStart
  <2>2. BornApart' /\ IsFiniteSet(Unclaimed(states)') /\ UnclaimedBounded'
    BY <1>1, <2>1, UnclaimedLess, RouterAssumption
  <2> QED BY <1>1, <2>2 DEF UnclaimedInv
<1>3. CASE Next
  <2>1. BornApart' /\ IsFiniteSet(Unclaimed(states)') /\ UnclaimedBounded'
    BY <1>1, <1>3, UnclaimedByReader, UnclaimedByStart, UnclaimedByRoute,
       RouterAssumption DEF Next
  <2> QED BY <1>1, <2>1 DEF UnclaimedInv
<1> QED BY <1>2, <1>3

\* However many turns send events that nobody asked for, no more than
\* MaxPendingTurns of them are kept, each with a bounded history.
THEOREM UnclaimedStayFew == Spec => []UnclaimedBounded
<1>1. UnclaimedInv => UnclaimedBounded
  BY DEF UnclaimedInv
<1> QED BY <1>1, UnclaimedInit, UnclaimedNext, PTL DEF Spec

-----------------------------------------------------------------------------
(* What readers are owed.                                                  *)

\* The results a turn keeps: its items, usage and completion.
Results(st) == RangeOf(st.items) \cup ({st.usage, st.terminal} \ {0})

\* The results of turn k after event s are in kept, or came again since.
Keeps(kept, k, s, lg) ==
  \A n \in s + 1..Len(lg) :
    lg[n].key = k /\ lg[n].what # "delta"
      => n \in kept \/ \E m \in n + 1..Len(lg) : lg[m] = lg[n]

\* The events of turn k from event n to event last.
TurnEvents(k, n, last, lg) == {m \in n..last : lg[m].key = k}

\* The events of turn k after event s are in the buffer, or too many followed.
Buffers(early, k, s, lg) ==
  \A n \in s + 1..Len(lg) :
    lg[n].key = k
      => n \in RangeOf(early) \/ Cardinality(TurnEvents(k, n, Len(lg), lg)) > MaxPendingEvents

\* Turn k has completed by event s.
Over(k, s, lg) == \E n \in 1..s : lg[n].key = k /\ lg[n].what = "completed"

\* A start in flight may be answered with turn k: it was not over before.
MayJoin(k) == \E t \in starts[ThreadOf(k)] : ~Over(k, ops[t].since, log)

\* What turn k keeps for those who claimed it after event s.
KeptSince(k, s) ==
  /\ ~Over(k, Len(log), log) => states[k].subscribed
  /\ ~Over(k, Len(log), log) \/ MayJoin(k) => Keeps(Results(states[k]), k, s, log)

\* A start in flight finds whatever came since its reservation.
KeptForStarts ==
  \A k \in Keys : \A t \in starts[ThreadOf(k)] :
    /\ Keeps(Results(states[k]), k, ops[t].since, log)
    /\ Buffers(states[k].early, k, ops[t].since, log)

\* So does whoever joins the readers of the connection.
KeptForReaders ==
  \A k \in Keys, h \in Streams :
    streams[h].key = k /\ streams[h].conn = conn => KeptSince(k, streams[h].since)

Increasing(s) == \A i, j \in 1..Len(s) : i < j => s[i] < s[j]

EarlyInOrder == \A k \in Keys : Increasing(states[k].early)

\* The usage a turn keeps is a usage report.
UsageRouted == \A k \in Keys : states[k].usage # 0 => log[states[k].usage].what = "usage"

\* Reservations and readers are of the past.
InThePast ==
  /\ \A th \in Threads : \A t \in starts[th] : ops[t].phase # "idle" /\ ops[t].since <= Len(log)
  /\ \A h \in Streams : streams[h].opened <= Len(log) /\ streams[h].conn <= conn

\* Event n reached reader s too late: it was superseded, or let go.
Missed(s, n, lg) ==
  \/ /\ lg[n].what # "delta"
     /\ \E m \in n + 1..s.opened : lg[m] = lg[n]
  \/ /\ lg[n].what = "delta"
     /\ n <= s.reserved \/ Cardinality(TurnEvents(s.key, n, s.opened, lg)) > MaxPendingEvents

\* Reader s sees what it is owed of event n.
Given(s, n, lg) ==
  \/ lg[n].key # s.key
  \/ n \in RangeOf(s.got \o s.values)
  \/ n <= s.opened /\ Missed(s, n, lg)
  \/ /\ s.phase = "done"
     /\ \E c \in RangeOf(s.got \o s.values) : c < n /\ lg[c].what = "completed"

AllGiven(s, lg) == \A n \in s.since + 1..Len(lg) : Given(s, n, lg)

\* What ResultsComplete says of each reader.
ReadersGiven ==
  \A h \in Streams : streams[h].phase \in {"open", "done"} => AllGiven(streams[h], log)

\* The strengthening from which ResultsComplete follows.
OwedInv ==
  /\ ViewInv
  /\ InThePast
  /\ UsageRouted
  /\ EarlyInOrder
  /\ KeptForStarts
  /\ KeptForReaders
  /\ ReadersGiven

\* The log more has one event more.
Longer(lg, more) == Extends(lg, more) /\ Len(more) = Len(lg) + 1

LEMMA TurnEventsFinite ==
  ASSUME NEW k, NEW n \in Int, NEW last \in Int, NEW lg
  PROVE  IsFiniteSet(TurnEvents(k, n, last, lg)) /\ Cardinality(TurnEvents(k, n, last, lg)) \in Nat
<1>1. TurnEvents(k, n, last, lg) \in SUBSET (n..last) /\ IsFiniteSet(n..last)
  BY FS_Interval DEF TurnEvents
<1> QED BY <1>1, FS_Subset, FS_CardinalityType

\* What was superseded or buffered stays so as the log grows, and the new event
\* is kept.
LEMMA KeepsNext ==
  ASSUME NEW lg, NEW more, Longer(lg, more), NEW k, NEW s \in Nat, NEW old, NEW now, Keeps(old, k, s, lg),
         \A n \in old : n \in 1..Len(lg) => n \in now \/ lg[n] = more[Len(lg) + 1],
         more[Len(lg) + 1].key = k /\ more[Len(lg) + 1].what # "delta" => Len(lg) + 1 \in now
  PROVE  Keeps(now, k, s, more)
<1> DEFINE l == Len(lg)
<1>1. l \in Nat /\ Len(more) = l + 1 /\ \A i \in 1..l : more[i] = lg[i]
  BY DEF Longer, Extends
<1> HIDE DEF l
<1>2. SUFFICES ASSUME NEW n \in s + 1..l + 1, more[n].key = k, more[n].what # "delta"
               PROVE  n \in now \/ \E m \in n + 1..l + 1 : more[m] = more[n]
  BY <1>1 DEF Keeps
<1>3. CASE n = l + 1
  BY <1>2, <1>3 DEF l
<1>4. CASE n # l + 1
  <2>1. n \in s + 1..l /\ n \in 1..l /\ more[n] = lg[n]
    BY <1>1, <1>4
  <2>2. CASE n \in old
    <3>1. n \in now \/ lg[n] = more[l + 1]
      BY <2>1, <2>2 DEF l
    <3>2. l + 1 \in n + 1..l + 1
      BY <1>1, <2>1
    <3> QED BY <2>1, <3>1, <3>2
  <2>3. CASE n \notin old
    <3>1. PICK m \in n + 1..l : lg[m] = lg[n]
      BY <1>2, <2>1, <2>3 DEF Keeps, l
    <3>2. m \in 1..l /\ m \in n + 1..l + 1
      BY <1>1, <2>1
    <3> QED BY <1>1, <2>1, <3>1, <3>2
  <2> QED BY <2>2, <2>3
<1> QED BY <1>3, <1>4

LEMMA BuffersNext ==
  ASSUME NEW lg, NEW more, Longer(lg, more), NEW k, NEW s \in Nat, NEW old, NEW now, Buffers(old, k, s, lg),
         MaxPendingEvents \in Nat,
         \A n \in RangeOf(old) : n \in 1..Len(lg) =>
           \/ n \in RangeOf(now)
           \/ Cardinality(TurnEvents(k, n, Len(lg) + 1, more)) > MaxPendingEvents,
         more[Len(lg) + 1].key = k => Len(lg) + 1 \in RangeOf(now)
  PROVE  Buffers(now, k, s, more)
<1> DEFINE l == Len(lg)
<1>1. l \in Nat /\ Len(more) = l + 1 /\ \A i \in 1..l : more[i] = lg[i]
  BY DEF Longer, Extends
<1> HIDE DEF l
<1>2. SUFFICES ASSUME NEW n \in s + 1..l + 1, more[n].key = k
               PROVE  n \in RangeOf(now) \/ Cardinality(TurnEvents(k, n, l + 1, more)) > MaxPendingEvents
  BY <1>1 DEF Buffers
<1>3. CASE n = l + 1
  BY <1>2, <1>3 DEF l
<1>4. CASE n # l + 1
  <2>1. n \in s + 1..l /\ n \in 1..l /\ more[n] = lg[n] /\ n \in Nat
    BY <1>1, <1>4
  <2>2. CASE n \in RangeOf(old)
    BY <2>1, <2>2 DEF l
  <2>3. CASE n \notin RangeOf(old)
    <3> DEFINE few == TurnEvents(k, n, l, lg)
               many == TurnEvents(k, n, l + 1, more)
    <3>1. Cardinality(few) > MaxPendingEvents
      BY <1>2, <2>1, <2>3 DEF Buffers, l
    <3>2. few \subseteq many
      <4>1. \A m \in n..l : m \in n..l + 1 /\ m \in 1..l
        BY <1>1, <2>1
      <4> QED BY <1>1, <4>1 DEF TurnEvents
    <3>3. IsFiniteSet(many) /\ Cardinality(many) \in Nat /\ Cardinality(few) \in Nat
      BY <1>1, <2>1, TurnEventsFinite
    <3> HIDE DEF few, many
    <3>4. Cardinality(few) <= Cardinality(many)
      BY <3>2, <3>3, FS_Subset
    <3>5. Cardinality(many) > MaxPendingEvents
      BY <3>1, <3>3, <3>4
    <3> QED BY <3>5 DEF many
  <2> QED BY <2>2, <2>3
<1> QED BY <1>3, <1>4

\* A new item takes the place of the one with its id, or goes to the end.
LEMMA SetItemKeeps ==
  ASSUME NEW items \in Seq(Nat), NEW n \in Nat, NEW what
  PROVE  /\ n \in RangeOf(SetItem(items, n, what))
         /\ \A m \in RangeOf(items) : m \in RangeOf(SetItem(items, n, what)) \/ log[m].what = what
<1> DEFINE same == \E p \in DOMAIN items : log[items[p]].what = what
           put == [p \in DOMAIN items |-> IF log[items[p]].what = what THEN n ELSE items[p]]
           more == Append(items, n)
<1>1. CASE same
  <2>1. SetItem(items, n, what) = put /\ DOMAIN put = DOMAIN items
    BY <1>1 DEF SetItem
  <2>2. PICK p \in DOMAIN items : log[items[p]].what = what
    BY <1>1
  <2>3. put[p] = n
    BY <2>2
  <2>4. \A q \in DOMAIN items : put[q] = items[q] \/ log[items[q]].what = what
    OBVIOUS
  <2> HIDE DEF put
  <2> QED BY <2>1, <2>3, <2>4 DEF RangeOf
<1>2. CASE ~same
  <2>1. SetItem(items, n, what) = more
    BY <1>2 DEF SetItem
  <2>2. /\ Len(items) \in Nat /\ DOMAIN items = 1..Len(items)
        /\ DOMAIN more = 1..Len(items) + 1
        /\ \A i \in 1..Len(items) : more[i] = items[i]
        /\ more[Len(items) + 1] = n
    BY AppendProperties, LenProperties
  <2>3. Len(items) + 1 \in 1..Len(items) + 1 /\ \A i \in 1..Len(items) : i \in 1..Len(items) + 1
    BY <2>2
  <2> HIDE DEF more
  <2> QED BY <2>1, <2>2, <2>3 DEF RangeOf
<1> QED BY <1>1, <1>2

\* What leaves a bounded buffer is followed by more than it holds.
LEMMA LastOfKeeps ==
  ASSUME NEW s \in Seq(Nat), Increasing(s), NEW max \in Nat \ {0}
  PROVE  /\ Increasing(LastOf(s, max))
         /\ \A n \in RangeOf(s) : n \in RangeOf(LastOf(s, max))
              \/ \E p \in 1..Len(s) : s[p] = n /\ Len(s) - p + 1 > max
         /\ s # <<>> => s[Len(s)] \in RangeOf(LastOf(s, max))
<1> DEFINE l == Len(s)
           t == LastOf(s, max)
<1>1. l \in Nat /\ DOMAIN s = 1..l /\ (s # <<>> => l \in 1..l)
  BY LenProperties, EmptySeq
<1>2. CASE l <= max
  <2>1. t = s
    BY <1>2 DEF LastOf
  <2> QED BY <1>1, <2>1 DEF RangeOf
<1>3. CASE ~(l <= max)
  <2> DEFINE d == l - max
  <2>1. d \in Nat \ {0} /\ d + 1 \in Int /\ l = d + max /\ d + 1 = l - max + 1
    <3> HIDE DEF l
    <3> QED BY <1>1, <1>3
  <2>2. t = SubSeq(s, d + 1, l)
    BY <1>1, <1>3 DEF LastOf
  <2>3. \A i \in d + 1..l : s[i] \in Nat
    <3>1. \A i \in d + 1..l : i \in 1..l
      <4> HIDE DEF d, l
      <4> QED BY <1>1, <2>1
    <3> QED BY <3>1, ElementOfSeq
  <2> HIDE DEF d
  <2>4. /\ SubSeq(s, d + 1, l) \in Seq(Nat)
        /\ Len(SubSeq(s, d + 1, l)) = IF d + 1 <= l THEN l - (d + 1) + 1 ELSE 0
        /\ \A i \in 1..l - (d + 1) + 1 : SubSeq(s, d + 1, l)[i] = s[d + 1 + i - 1]
    <3> DEFINE m == d + 1
    <3>1. l \in Int /\ m \in Int /\ \A i \in m..l : s[i] \in Nat
      BY <1>1, <2>1, <2>3
    <3> HIDE DEF l, m
    <3>2. /\ SubSeq(s, m, l) \in Seq(Nat)
          /\ Len(SubSeq(s, m, l)) = IF m <= l THEN l - m + 1 ELSE 0
          /\ \A i \in 1..l - m + 1 : SubSeq(s, m, l)[i] = s[m + i - 1]
      BY <3>1, SubSeqProperties
    <3> QED BY <3>2 DEF m
  <2> HIDE DEF t, l
  <2>5. /\ t \in Seq(Nat) /\ Len(t) = max /\ DOMAIN t = 1..max
        /\ \A i \in 1..max : t[i] = s[d + i]
    <3>1. l - (d + 1) + 1 = max /\ d + 1 <= l /\ \A i \in 1..max : d + 1 + i - 1 = d + i
      BY <1>1, <2>1
    <3> QED BY <2>2, <2>4, <3>1, LenProperties
  <2>6. \A i \in 1..max : d + i \in 1..l
    BY <1>1, <2>1
  <2>7. Increasing(t)
    <3>1. SUFFICES ASSUME NEW i \in 1..max, NEW j \in 1..max, i < j
                   PROVE  s[d + i] < s[d + j]
      BY <2>5 DEF Increasing
    <3>2. d + i < d + j
      BY <2>1, <3>1
    <3> QED BY <2>6, <3>2 DEF Increasing, l
  <2>8. ASSUME NEW p \in 1..l, s[p] \notin RangeOf(t)
        PROVE  l - p + 1 > max
    <3>1. p - d \in 1..max => t[p - d] = s[p]
      BY <1>1, <2>1, <2>5
    <3>2. p - d \notin 1..max
      BY <2>5, <2>8, <3>1 DEF RangeOf
    <3> QED BY <1>1, <2>1, <3>2
  <2>9. s[l] \in RangeOf(t)
    <3>1. max \in 1..max /\ t[max] = s[l]
      BY <2>1, <2>5
    <3> QED BY <2>5, <3>1 DEF RangeOf
  <2> QED BY <1>1, <2>7, <2>8, <2>9 DEF RangeOf, t, l
<1> QED BY <1>2, <1>3

\* An increasing list has as many elements as places.
LEMMA ManyFollow ==
  ASSUME NEW s \in Seq(Nat), Increasing(s), NEW p \in 1..Len(s), NEW T, IsFiniteSet(T),
         \A i \in p..Len(s) : s[i] \in T
  PROVE  Len(s) - p + 1 <= Cardinality(T)
<1> DEFINE l == Len(s)
           f == [i \in p..l |-> s[i]]
<1>1. l \in Nat
  BY LenProperties
<1>2. f \in [p..l -> T] /\ \A i \in p..l : f[i] = s[i]
  OBVIOUS
<1>3. \A i \in p..l : i \in 1..l /\ s[i] \in Nat
  <2>1. \A i \in p..l : i \in 1..l
    BY <1>1
  <2> QED BY <2>1, ElementOfSeq
<1> HIDE DEF f
<1>4. ASSUME NEW i \in p..l, NEW j \in p..l, f[i] = f[j]
      PROVE  i = j
  <2>1. s[i] = s[j] /\ s[i] \in Nat /\ ~(s[i] < s[j]) /\ ~(s[j] < s[i])
    BY <1>2, <1>3, <1>4
  <2>2. i \in 1..l /\ j \in 1..l /\ i \in Int /\ j \in Int
    BY <1>3
  <2>3. ~(i < j) /\ ~(j < i)
    BY <2>1, <2>2 DEF Increasing, l
  <2> QED BY <2>2, <2>3
<1>5. f \in Injection(p..l, T)
  BY <1>2, <1>4, Fun_IsInj
<1>6. Cardinality(p..l) <= Cardinality(T)
  BY <1>5, FS_Injection
<1>7. Cardinality(p..l) = l - p + 1
  <2>1. p \in Int /\ l \in Int /\ ~(p > l)
    BY <1>1
  <2> QED BY <2>1, FS_Interval
<1> QED BY <1>6, <1>7

\* What a routed event adds to the log.
LEMMA RoutedNext ==
  ASSUME TypeOK, NEW k \in Keys, NEW what \in What,
         log' = Append(log, [key |-> k, what |-> what])
  PROVE  /\ Longer(log, log') /\ Len(log) \in Nat
         /\ log'[Len(log) + 1] = [key |-> k, what |-> what]
<1>1. [key |-> k, what |-> what] \in Event /\ log \in Seq(Event)
  BY DEF Event, TypeOK
<1> DEFINE e == [key |-> k, what |-> what]
<1> HIDE DEF e
<1>2. e \in Event
  BY <1>1 DEF e
<1>3. /\ Len(Append(log, e)) = Len(log) + 1 /\ Len(log) \in Nat
      /\ \A i \in 1..Len(log) : Append(log, e)[i] = log[i]
      /\ Append(log, e)[Len(log) + 1] = e
  BY <1>1, <1>2, AppendProperties, LenProperties
<1>4. Append(log, e) = log'
  BY DEF e
<1>5. Len(log) <= Len(log')
  BY <1>3, <1>4
<1> QED BY <1>3, <1>4, <1>5 DEF Longer, Extends, e

\* The snapshot of a turn loses no result but to the same one, come again.
LEMMA RecordedKeeps ==
  ASSUME RouterAssumption, TypeOK, HeldOfTurn, TerminalRouted, UsageRouted,
         NEW k \in Keys, NEW what \in What, NEW s \in Nat,
         log' = Append(log, [key |-> k, what |-> what]),
         Keeps(Results(states[k]), k, s, log)
  PROVE  Keeps(Results(Recorded(k, Len(log) + 1, what)), k, s, log')
<1> DEFINE n == Len(log) + 1
           st == states[k]
           now == Recorded(k, n, what)
           e == [key |-> k, what |-> what]
<1>1. Longer(log, log') /\ n \in Nat /\ n # 0 /\ log'[n] = e
  BY RoutedNext
<1>2. st \in TurnState /\ st.items \in Seq(Nat) /\ log \in Seq(Event)
  BY DEF TypeOK, TurnState
<1>3. /\ now.items = IF what \in Items THEN SetItem(st.items, n, what) ELSE st.items
      /\ now.usage = IF what = "usage" THEN n ELSE st.usage
      /\ now.terminal = IF what = "completed" THEN n ELSE st.terminal
  BY DEF Recorded
<1>4. /\ n \in RangeOf(SetItem(st.items, n, what))
      /\ \A m \in RangeOf(st.items) :
           m \in RangeOf(SetItem(st.items, n, what)) \/ log[m].what = what
  BY <1>1, <1>2, SetItemKeeps
<1>5. ASSUME NEW m \in Results(st)
      PROVE  /\ m \in 1..Len(log) /\ log[m].key = k
             /\ m = st.usage /\ m # 0 => log[m].what = "usage"
             /\ m = st.terminal /\ m # 0 => log[m].what = "completed"
  BY DEF Results, HeldOfTurn, Held, UsageRouted, TerminalRouted, IsCompletion
<1>6. ASSUME NEW m \in 1..Len(log), log[m].key = k, log[m].what = what
      PROVE  log[m] = e
  <2>1. log[m] \in Event
    BY <1>2, ElementOfSeq
  <2> QED BY <1>6, <2>1 DEF Event
<1>7. log'[n].key = k /\ log'[n].what = what
  BY <1>1
<1> HIDE DEF e, st, now, n
<1>8. ASSUME NEW m \in Results(st)
      PROVE  m \in Results(now) \/ log[m] = e
  <2>1. CASE m \in RangeOf(st.items)
    <3>1. m \in RangeOf(now.items) \/ log[m].what = what
      BY <1>3, <1>4, <2>1
    <3> QED BY <1>5, <1>6, <3>1 DEF Results
  <2>2. CASE m = st.usage /\ m # 0
    <3>1. m = now.usage \/ log[m].what = what
      BY <1>3, <1>5, <2>2
    <3> QED BY <1>5, <1>6, <2>2, <3>1 DEF Results
  <2>3. CASE m = st.terminal /\ m # 0
    <3>1. m = now.terminal \/ log[m].what = what
      BY <1>3, <1>5, <2>3
    <3> QED BY <1>5, <1>6, <2>3, <3>1 DEF Results
  <2> QED BY <2>1, <2>2, <2>3 DEF Results
<1>9. what # "delta" => n \in Results(now)
  <2>1. what \in Items => n \in RangeOf(now.items)
    BY <1>3, <1>4
  <2>2. what = "usage" => n = now.usage
    BY <1>3
  <2>3. what = "completed" => n = now.terminal
    BY <1>3
  <2> QED BY <1>1, <2>1, <2>2, <2>3 DEF Results, What
<1>10. Keeps(Results(st), k, s, log)
  BY DEF st
<1>11. Keeps(Results(now), k, s, log')
  <2>1. \A m \in Results(st) : m \in 1..Len(log) => m \in Results(now) \/ log[m] = log'[Len(log) + 1]
    BY <1>1, <1>8 DEF n
  <2>2. log'[Len(log) + 1].key = k /\ log'[Len(log) + 1].what # "delta"
          => Len(log) + 1 \in Results(now)
    BY <1>9, <1>7 DEF n
  <2> DEFINE old == Results(st)
             new == Results(now)
             more == log'
  <2>3. Keeps(old, k, s, log) /\ Longer(log, more)
    BY <1>1, <1>10
  <2> HIDE DEF old, new, more
  <2>4. \A m \in old : m \in 1..Len(log) => m \in new \/ log[m] = more[Len(log) + 1]
    BY <2>1 DEF old, new, more
  <2>5. more[Len(log) + 1].key = k /\ more[Len(log) + 1].what # "delta"
          => Len(log) + 1 \in new
    BY <2>2 DEF new, more
  <2>6. Keeps(new, k, s, more)
    BY <2>3, <2>4, <2>5, KeepsNext
  <2> QED BY <2>6 DEF new, more
<1> QED BY <1>11 DEF now, n

\* The early buffer takes the event at its end, and loses only what is followed
\* by more events than it holds.
LEMMA RecordedBuffers ==
  ASSUME RouterAssumption, TypeOK, HeldOfTurn, EarlyInOrder,
         NEW k \in Keys, NEW what \in What, ~states[k].subscribed \/ PendingStart(k),
         log' = Append(log, [key |-> k, what |-> what])
  PROVE  /\ Increasing(Recorded(k, Len(log) + 1, what).early)
         /\ \A s \in Nat : Buffers(states[k].early, k, s, log)
              => Buffers(Recorded(k, Len(log) + 1, what).early, k, s, log')
<1> DEFINE n == Len(log) + 1
           early == states[k].early
           all == Append(early, n)
           now == Recorded(k, n, what).early
           l == Len(early)
<1>1. /\ Longer(log, log') /\ n \in Nat /\ log'[n].key = k /\ Len(log) \in Nat
      /\ MaxPendingEvents \in Nat \ {0}
  BY RoutedNext DEF RouterAssumption
<1>2. early \in Seq(Nat) /\ Increasing(early)
  BY DEF TypeOK, TurnState, EarlyInOrder
<1>3. now = LastOf(all, MaxPendingEvents)
  BY DEF Recorded
<1>4. /\ all \in Seq(Nat) /\ Len(all) = l + 1 /\ l \in Nat /\ all # <<>>
      /\ \A i \in 1..l : all[i] = early[i]
      /\ all[l + 1] = n
  <2> HIDE DEF n, early
  <2> QED BY <1>1, <1>2, AppendProperties, LenProperties
<1>5. \A i \in 1..l : early[i] \in 1..Len(log) /\ log[early[i]].key = k
  <2>1. \A i \in 1..l : early[i] \in RangeOf(early)
    BY <1>2, LenProperties DEF RangeOf
  <2> HIDE DEF l
  <2> QED BY <2>1 DEF HeldOfTurn, Held
<1> HIDE DEF n, early, all, now, l
<1>6. \A i \in 1..Len(all) : i \in 1..l \/ i = l + 1
  BY <1>4
<1>7. \A i \in 1..Len(all) : all[i] \in 1..n /\ log'[all[i]].key = k
  <2>1. \A m \in 1..Len(log) : m \in 1..n /\ log'[m] = log[m]
    BY <1>1 DEF Longer, Extends, n
  <2>2. n \in 1..n
    BY <1>1 DEF n
  <2> QED BY <1>1, <1>4, <1>5, <1>6, <2>1, <2>2
<1>8. Increasing(all)
  <2>1. SUFFICES ASSUME NEW i \in 1..l + 1, NEW j \in 1..l + 1, i < j
                 PROVE  all[i] < all[j]
    BY <1>4 DEF Increasing
  <2>2. i \in 1..l /\ (j \in 1..l \/ j = l + 1)
    BY <1>4, <2>1
  <2>3. CASE j \in 1..l
    BY <1>2, <1>4, <2>1, <2>2, <2>3 DEF Increasing, l
  <2>4. CASE j = l + 1
    <3>1. all[i] \in 1..Len(log) /\ all[j] = n
      BY <1>4, <1>5, <2>2, <2>4
    <3> QED BY <1>1, <3>1 DEF n
  <2> QED BY <2>2, <2>3, <2>4
<1>9. /\ Increasing(now)
      /\ \A m \in RangeOf(all) : m \in RangeOf(now)
           \/ \E p \in 1..Len(all) : all[p] = m /\ Len(all) - p + 1 > MaxPendingEvents
      /\ all[Len(all)] \in RangeOf(now)
  BY <1>1, <1>3, <1>4, <1>8, LastOfKeeps
<1>10. ASSUME NEW m \in RangeOf(early), m \notin RangeOf(now)
       PROVE  Cardinality(TurnEvents(k, m, n, log')) > MaxPendingEvents
  <2>1. m \in RangeOf(all)
    <3>1. PICK i \in 1..l : early[i] = m
      BY <1>2, LenProperties DEF RangeOf, l
    <3>2. i \in 1..l + 1 /\ DOMAIN all = 1..l + 1
      BY <1>4, LenProperties
    <3> QED BY <1>4, <3>1, <3>2 DEF RangeOf
  <2>2. PICK p \in 1..Len(all) : all[p] = m /\ Len(all) - p + 1 > MaxPendingEvents
    BY <1>9, <1>10, <2>1
  <2> DEFINE T == TurnEvents(k, m, n, log')
  <2>3. m \in Int /\ IsFiniteSet(T) /\ Cardinality(T) \in Nat
    <3>1. m \in Int /\ n \in Int
      BY <1>1, <1>7, <2>2
    <3> QED BY <3>1, TurnEventsFinite
  <2>4. \A i \in p..Len(all) : all[i] \in T
    <3>1. SUFFICES ASSUME NEW i \in p..Len(all)
                   PROVE  all[i] \in m..n /\ log'[all[i]].key = k
      BY DEF TurnEvents
    <3>2. i \in 1..Len(all) /\ (i = p \/ p < i)
      BY <1>4
    <3>3. all[i] = m \/ m < all[i]
      BY <1>8, <2>2, <3>2 DEF Increasing
    <3>4. all[i] \in 1..n /\ log'[all[i]].key = k
      BY <1>7, <3>2
    <3>5. all[i] \in m..n
      BY <1>1, <2>3, <3>3, <3>4
    <3> QED BY <3>4, <3>5
  <2> HIDE DEF T
  <2>5. Len(all) - p + 1 <= Cardinality(T)
    BY <1>4, <1>8, <2>3, <2>4, ManyFollow
  <2>6. Cardinality(T) > MaxPendingEvents
    <3>1. Len(all) - p + 1 \in Int
      BY <1>4
    <3> QED BY <1>1, <2>2, <2>3, <2>5, <3>1
  <2> QED BY <2>6 DEF T
<1>11. ASSUME NEW s \in Nat, Buffers(early, k, s, log)
       PROVE  Buffers(now, k, s, log')
  <2>1. \A m \in RangeOf(early) : m \in 1..Len(log) =>
          \/ m \in RangeOf(now)
          \/ Cardinality(TurnEvents(k, m, Len(log) + 1, log')) > MaxPendingEvents
    BY <1>10 DEF n
  <2>2. Len(log) + 1 \in RangeOf(now)
    BY <1>4, <1>9 DEF n
  <2> QED BY <1>1, <1>11, <2>1, <2>2, BuffersNext
<1> QED BY <1>9, <1>11 DEF n, now, early

-----------------------------------------------------------------------------
(* Between two events.                                                     *)

\* Turn k keeps what it kept, but early events no start can be answered with, or
\* is let go.
Quiet(k) ==
  \/ /\ Results(states'[k]) = Results(states[k]) /\ states'[k].usage = states[k].usage
     /\ states[k].subscribed => states'[k].subscribed
     /\ states'[k].early = states[k].early \/ (states'[k].early = <<>> /\ ~PendingStart(k)')
  \/ /\ states'[k] = NewState /\ ~PendingStart(k)'
     /\ states[k].terminal # 0 \/ ~states[k].subscribed

\* No start is in flight that was not, but since the last event.
StartsStay ==
  \A th \in Threads : \A t \in starts'[th] :
    ops'[t].since = Len(log) \/ (t \in starts[th] /\ ops'[t].since = ops[t].since)

\* Between two events, whoever was owed something is.
LEMMA QuietKeeps ==
  ASSUME OwedInv, log' = log, \A k \in Keys : Quiet(k), StartsStay
  PROVE  /\ UsageRouted' /\ EarlyInOrder' /\ KeptForStarts'
         /\ \A k \in Keys, s \in Nat : KeptSince(k, s) => KeptSince(k, s)'
<1>1. /\ NewState.early = <<>> /\ NewState.usage = 0 /\ Len(log) \in Nat
      /\ \A k \in Keys : ThreadOf(k) \in Threads
  BY LenProperties DEF NewState, OwedInv, ViewInv, IInv, TypeOK, Keys, ThreadOf
<1>2. UsageRouted'
  BY <1>1 DEF OwedInv, UsageRouted, Quiet
<1>3. EarlyInOrder'
  <2>1. Increasing(<<>>)
    BY DEF Increasing
  <2>2. \A k \in Keys : states'[k].early \in {states[k].early, <<>>}
    BY <1>1 DEF Quiet
  <2>3. \A k \in Keys : Increasing(states'[k].early)
    BY <2>1, <2>2 DEF OwedInv, EarlyInOrder
  <2> QED BY <2>3 DEF EarlyInOrder
<1>4. ASSUME NEW k \in Keys, NEW t \in starts'[ThreadOf(k)]
      PROVE  /\ PendingStart(k)' /\ Results(states'[k]) = Results(states[k])
             /\ states'[k].early = states[k].early
             /\ ops'[t].since = Len(log)
                  \/ (t \in starts[ThreadOf(k)] /\ ops'[t].since = ops[t].since)
  <2>1. PendingStart(k)'
    BY <1>4 DEF PendingStart, ThreadOf
  <2> QED BY <1>1, <2>1 DEF Quiet, StartsStay
<1>5. KeptForStarts'
  <2>1. ASSUME NEW k \in Keys, NEW t \in starts'[ThreadOf(k)]
        PROVE  /\ Keeps(Results(states'[k]), k, ops'[t].since, log')
               /\ Buffers(states'[k].early, k, ops'[t].since, log')
    <3>1. CASE ops'[t].since = Len(log)
      <4>1. Len(log) + 1..Len(log) = {}
        BY <1>1
      <4> QED BY <3>1, <4>1 DEF Keeps, Buffers
    <3>2. CASE t \in starts[ThreadOf(k)] /\ ops'[t].since = ops[t].since
      <4>1. /\ Keeps(Results(states[k]), k, ops[t].since, log)
            /\ Buffers(states[k].early, k, ops[t].since, log)
        BY <3>2 DEF OwedInv, KeptForStarts
      <4> QED BY <1>4, <2>1, <3>2, <4>1
    <3> QED BY <1>4, <2>1, <3>1, <3>2
  <2> QED BY <2>1 DEF KeptForStarts, ThreadOf
<1>6. ASSUME NEW k \in Keys, NEW s \in Nat, KeptSince(k, s)
      PROVE  KeptSince(k, s)'
  <2>1. states[k].terminal # 0 => Over(k, Len(log), log)
    BY DEF OwedInv, ViewInv, IInv, TerminalRouted, IsCompletion, HeldOfTurn, Held, Over
  <2>2. MayJoin(k)' => PendingStart(k)' /\ (~Over(k, Len(log), log) \/ MayJoin(k))
    <3>1. SUFFICES ASSUME NEW t \in starts'[ThreadOf(k)], ~Over(k, ops'[t].since, log)
                   PROVE  PendingStart(k)' /\ (~Over(k, Len(log), log) \/ MayJoin(k))
      BY DEF MayJoin, ThreadOf
    <3> QED BY <1>4, <3>1 DEF MayJoin
  <2>3. ~Over(k, Len(log), log) => states[k].subscribed /\ states[k].terminal = 0
    BY <1>6, <2>1 DEF KeptSince
  <2>4. ~Over(k, Len(log), log) => states'[k].subscribed
    BY <2>3 DEF Quiet
  <2>5. ~Over(k, Len(log), log) \/ MayJoin(k)' => Keeps(Results(states'[k]), k, s, log)
    <3>1. SUFFICES ASSUME ~Over(k, Len(log), log) \/ MayJoin(k)'
                   PROVE  Keeps(Results(states'[k]), k, s, log)
      OBVIOUS
    <3>2. Results(states'[k]) = Results(states[k])
      BY <2>2, <2>3, <3>1 DEF Quiet
    <3>3. Keeps(Results(states[k]), k, s, log)
      BY <1>6, <2>2, <3>1 DEF KeptSince
    <3> QED BY <3>2, <3>3
  <2>6. /\ ~Over(k, Len(log'), log') => states'[k].subscribed
        /\ ~Over(k, Len(log'), log') \/ MayJoin(k)' => Keeps(Results(states'[k]), k, s, log')
    BY <2>4, <2>5
  <2> QED BY <2>6 DEF KeptSince
<1> QED BY <1>2, <1>3, <1>5, <1>6

\* What leaves the results of a turn alone.
LEMMA ResultsSame ==
  ASSUME NEW st \in TurnState
  PROVE  /\ \A T : LET now == [st EXCEPT !.streams = T]
                   IN  /\ Results(now) = Results(st) /\ now.usage = st.usage
                       /\ now.early = st.early /\ now.subscribed = st.subscribed
                       /\ now.terminal = st.terminal
         /\ LET now == [st EXCEPT !.early = <<>>]
            IN  /\ Results(now) = Results(st) /\ now.usage = st.usage
                /\ now.early = <<>> /\ now.subscribed = st.subscribed
                /\ now.terminal = st.terminal
BY DEF Results, TurnState

\* A turn that lost a reader.
LEMMA QuietDisposed ==
  ASSUME TypeOK, NEW k \in Keys, NEW h, UNCHANGED starts,
         states'[k] = Disposed(states[k], h, k)
  PROVE  Quiet(k)
<1> DEFINE rest == [states[k] EXCEPT !.streams = @ \ {h}]
<1>1. /\ Results(rest) = Results(states[k]) /\ rest.usage = states[k].usage
      /\ rest.early = states[k].early /\ rest.subscribed = states[k].subscribed
      /\ rest.terminal = states[k].terminal
  BY ResultsSame DEF TypeOK
<1>2. PendingStart(k)' <=> PendingStart(k)
  BY DEF PendingStart
<1>3. Disposed(states[k], h, k) = IF rest.terminal # 0 /\ rest.streams = {} /\ ~PendingStart(k)
                                  THEN NewState ELSE rest
  BY DEF Disposed
<1> HIDE DEF rest
<1> QED BY <1>1, <1>2, <1>3 DEF Quiet

LEMMA QuietUnchanged ==
  ASSUME NEW k \in Keys, states'[k] = states[k]
  PROVE  Quiet(k)
BY DEF Quiet

LEMMA QuietSettled ==
  ASSUME TypeOK, NEW k \in Keys, ~PendingStart(k)', states'[k] = Settled(states[k])
  PROVE  Quiet(k)
<1> DEFINE rest == [states[k] EXCEPT !.early = <<>>]
<1>1. /\ Results(rest) = Results(states[k]) /\ rest.usage = states[k].usage
      /\ rest.early = <<>> /\ rest.subscribed = states[k].subscribed
  BY ResultsSame DEF TypeOK
<1>2. Settled(states[k]) = IF ~states[k].subscribed \/ (states[k].terminal # 0 /\ states[k].streams = {})
                           THEN NewState ELSE rest
  BY DEF Settled
<1> HIDE DEF rest
<1> QED BY <1>1, <1>2 DEF Quiet

\* A turn that has a new reader.
LEMMA QuietOpened ==
  ASSUME TypeOK, NEW k \in Keys, NEW h, NEW completes, UNCHANGED starts,
         states'[k] = Opened(k, h, completes)
  PROVE  /\ Quiet(k)
         /\ PendingStart(k) => /\ states'[k].subscribed
                               /\ Results(states'[k]) = Results(states[k])
<1> DEFINE old == states[k]
           st == [old EXCEPT !.subscribed = TRUE, !.streams = @ \cup {h}]
           rest == [st EXCEPT !.streams = @ \ {h}]
           kept == IF completes THEN Disposed(st, h, k) ELSE st
           later == [kept EXCEPT !.early = <<>>]
<1>1. /\ Results(st) = Results(old) /\ st.usage = old.usage /\ st.early = old.early
      /\ st.subscribed /\ st.terminal = old.terminal
      /\ Results(rest) = Results(old) /\ rest.usage = old.usage /\ rest.early = old.early
      /\ rest.subscribed /\ rest.terminal = old.terminal
  BY DEF Results, TypeOK, TurnState
<1>2. PendingStart(k)' <=> PendingStart(k)
  BY DEF PendingStart
<1>3. /\ kept = NewState \/ kept = rest \/ kept = st
      /\ kept = NewState => (~PendingStart(k) /\ old.terminal # 0) \/ kept = rest \/ kept = st
  BY <1>1 DEF Disposed
<1>4. states'[k] = IF PendingStart(k) THEN kept ELSE later
  BY DEF Opened
<1>5. kept # NewState => Results(later) = Results(kept) /\ later.usage = kept.usage
                         /\ later.early = <<>> /\ later.subscribed = kept.subscribed
  BY <1>3 DEF Results, TypeOK, TurnState
<1>6. kept = NewState => later = NewState
  <2>1. [NewState EXCEPT !.early = <<>>] = NewState
    BY DEF NewState
  <2> HIDE DEF kept
  <2> QED BY <2>1
<1> HIDE DEF old, st, rest, kept, later
<1>7. CASE kept = rest \/ kept = st
  <2>1. kept # NewState
    BY <1>1, <1>7 DEF NewState
  <2> QED BY <1>1, <1>2, <1>4, <1>5, <1>7, <2>1 DEF Quiet, old
<1>8. CASE ~(kept = rest \/ kept = st)
  BY <1>2, <1>3, <1>4, <1>6, <1>8 DEF Quiet, old
<1> QED BY <1>7, <1>8

\* The history a reader carries from its opening on.
SameReader(s, t) ==
  /\ t.key = s.key /\ t.since = s.since /\ t.reserved = s.reserved
  /\ t.opened = s.opened /\ t.conn = s.conn

\* Reader s has become t, which goes on in the same phase or came to its end.
GoesOn(s, t) ==
  /\ SameReader(s, t)
  /\ t.phase \in {s.phase, "returned", "failed"} \/ (s.phase = "open" /\ t.phase = "done")

LEMMA SameReaders ==
  ASSUME NEW s \in Stream, NEW n \in Nat
  PROVE  /\ SameReader(s, Push(s, n)) /\ SameReader(s, Complete(s)) /\ SameReader(s, Fail(s))
         /\ Push(s, n).phase = s.phase
         /\ Complete(s).phase = IF s.phase = "open" THEN "done" ELSE s.phase
         /\ Fail(s).phase = IF s.phase = "open" THEN "failed" ELSE s.phase
BY DEF SameReader, Push, Complete, Fail, Stream

\* Only open writes the history of a reader; only a reader in the same phase, or
\* one whose turn ended, goes on.
LEMMA ReadersStay ==
  ASSUME IInv, [Next]_vars, NEW g \in Streams
  PROVE  \/ GoesOn(streams[g], streams'[g])
         \/ \E t \in Starts, turn \in Turns : Open(t, turn, g)
<1> DEFINE s == streams[g]
<1>1. s \in Stream /\ Len(log) + 1 \in Nat
  BY LenProperties DEF IInv, TypeOK
<1>2. GoesOn(s, s)
  BY DEF GoesOn, SameReader
<1>3. ASSUME NEW h \in Streams, Take(h) \/ Wait(h) \/ Return(h)
      PROVE  GoesOn(s, streams'[g])
  <2>1. CASE Take(h)
    BY <1>1, <2>1 DEF Take, GoesOn, SameReader, IInv, TypeOK, Stream
  <2>2. CASE Wait(h)
    BY <1>1, <2>2 DEF Wait, GoesOn, SameReader, IInv, TypeOK, Stream
  <2>3. CASE Return(h)
    <3>1. streams'[g] = s \/ streams'[g] = [Complete(s) EXCEPT !.phase = "returned", !.values = <<>>]
      BY <2>3 DEF Return, IInv, TypeOK
    <3>2. SameReader(s, Complete(s)) /\ Complete(s) \in Stream
      BY <1>1, SameReaders, StreamOperationTypes
    <3>3. LET t == [Complete(s) EXCEPT !.phase = "returned", !.values = <<>>]
          IN  SameReader(s, t) /\ t.phase = "returned"
      BY <3>2 DEF SameReader, Stream
    <3> QED BY <1>2, <3>1, <3>3 DEF GoesOn
  <2> QED BY <1>3, <2>1, <2>2, <2>3
<1>4. ASSUME NEW t \in Starts, NEW turn \in Turns, NEW h \in Streams, Open(t, turn, h), h # g
      PROVE  GoesOn(s, streams'[g])
  <2>1. streams'[g] = s
    BY <1>4 DEF Open, IInv, TypeOK
  <2> QED BY <1>2, <2>1
<1>5. ASSUME NEW th \in Threads, NEW turn \in Turns, NEW what \in What, Route(th, turn, what)
      PROVE  GoesOn(s, streams'[g])
  <2> DEFINE n == Len(log) + 1
  <2>1. \/ streams'[g] = s
        \/ streams'[g] = Push(s, n)
        \/ streams'[g] = Complete(Push(s, n))
    BY <1>5 DEF Route
  <2> HIDE DEF n
  <2>2. n \in Nat
    BY <1>1 DEF n
  <2>3. Push(s, n) \in Stream /\ SameReader(s, Push(s, n)) /\ Push(s, n).phase = s.phase
    BY <1>1, <2>2, SameReaders, StreamOperationTypes
  <2>4. /\ SameReader(Push(s, n), Complete(Push(s, n)))
        /\ Complete(Push(s, n)).phase = IF s.phase = "open" THEN "done" ELSE s.phase
    BY <2>2, <2>3, SameReaders
  <2>5. SameReader(s, Complete(Push(s, n)))
    BY <2>3, <2>4 DEF SameReader
  <2> QED BY <1>2, <2>1, <2>3, <2>4, <2>5 DEF GoesOn
<1>6. ASSUME FailAll
      PROVE  GoesOn(s, streams'[g])
  <2>1. streams'[g] \in {s, Fail(s)}
    BY <1>6 DEF FailAll
  <2>2. SameReader(s, Fail(s)) /\ Fail(s).phase \in {s.phase, "failed"}
    BY <1>1, SameReaders
  <2> QED BY <1>2, <2>1, <2>2 DEF GoesOn
<1>7. ASSUME streams' = streams
      PROVE  GoesOn(s, streams'[g])
  BY <1>2, <1>7
<1>8. ASSUME NEW t \in Starts, (\E th \in Threads : ReserveStart(t, th)) \/ Release(t)
      PROVE  streams' = streams
  BY <1>8 DEF ReserveStart, Release
<1> HIDE DEF s
<1>9. GoesOn(s, streams'[g]) \/ \E t \in Starts, turn \in Turns : Open(t, turn, g)
  <2>1. CASE UNCHANGED vars
    BY <1>7, <2>1 DEF vars
  <2>2. CASE \E t \in Starts, turn \in Turns, h \in Streams : Open(t, turn, h)
    <3>1. PICK t \in Starts, turn \in Turns, h \in Streams : Open(t, turn, h)
      BY <2>2
    <3>2. CASE h = g
      BY <3>1, <3>2
    <3>3. CASE h # g
      BY <1>4, <3>1, <3>3
    <3> QED BY <3>2, <3>3
  <2>3. CASE \E h \in Streams : Take(h) \/ Wait(h) \/ Return(h)
    BY <1>3, <2>3
  <2>4. CASE \E th \in Threads, turn \in Turns, what \in What : Route(th, turn, what)
    BY <1>5, <2>4
  <2>5. CASE \/ \E t \in Starts, th \in Threads : ReserveStart(t, th)
             \/ \E t \in Starts : Release(t)
    <3>1. streams' = streams
      BY <1>8, <2>5
    <3> QED BY <1>7, <3>1
  <2> QED BY <1>6, <2>1, <2>2, <2>3, <2>4, <2>5 DEF Next
<1> QED BY <1>9 DEF s

\* What the router keeps for those it owes something.
KeptInv == InThePast /\ UsageRouted /\ EarlyInOrder /\ KeptForStarts /\ KeptForReaders

\* Reader g is new, and what it is owed is kept for whoever joins it.
Joins(g) ==
  /\ streams'[g].opened <= Len(log) /\ streams'[g].conn <= conn
  /\ \A k \in Keys, s \in Nat :
       streams'[g].key = k /\ streams'[g].conn = conn /\ streams'[g].since = s
         => KeptSince(k, s)'

LEMMA QuietStep ==
  ASSUME OwedInv, TypeOK', log' = log, conn' = conn, \A k \in Keys : Quiet(k), StartsStay,
         \A th \in Threads : \A t \in starts'[th] : ops'[t].phase # "idle",
         \A g \in Streams : SameReader(streams[g], streams'[g]) \/ Joins(g)
  PROVE  KeptInv'
<1>1. /\ UsageRouted' /\ EarlyInOrder' /\ KeptForStarts'
      /\ \A k \in Keys, s \in Nat : KeptSince(k, s) => KeptSince(k, s)'
  BY QuietKeeps
<1>2. InThePast'
  <2>1. Len(log) \in Nat
    BY LenProperties DEF OwedInv, ViewInv, IInv, TypeOK
  <2>2. \A th \in Threads : \A t \in starts'[th] :
          ops'[t].phase # "idle" /\ ops'[t].since <= Len(log')
    BY <2>1 DEF StartsStay, OwedInv, InThePast
  <2>3. \A g \in Streams : streams'[g].opened <= Len(log') /\ streams'[g].conn <= conn'
    BY DEF SameReader, Joins, OwedInv, InThePast
  <2> QED BY <2>2, <2>3 DEF InThePast
<1>3. KeptForReaders'
  <2>1. ASSUME NEW k \in Keys, NEW h \in Streams, NEW s \in Nat,
               streams'[h].key = k, streams'[h].conn = conn, streams'[h].since = s
        PROVE  KeptSince(k, s)'
    <3>1. CASE Joins(h)
      BY <2>1, <3>1 DEF Joins
    <3>2. CASE SameReader(streams[h], streams'[h])
      <4>1. KeptSince(k, s)
        <5>1. streams[h].key = k /\ streams[h].conn = conn /\ streams[h].since = s
          BY <2>1, <3>2 DEF SameReader
        <5>2. KeptSince(k, streams[h].since)
          BY <5>1 DEF OwedInv, KeptForReaders
        <5> QED BY <5>1, <5>2
      <4> QED BY <1>1, <4>1
    <3> QED BY <3>1, <3>2
  <2>2. \A h \in Streams : streams'[h].since \in Nat
    BY DEF TypeOK, Stream
  <2>3. ASSUME NEW k \in Keys, NEW h \in Streams, streams'[h].key = k, streams'[h].conn = conn
        PROVE  KeptSince(k, streams[h].since)'
    <3>1. PICK s \in Nat : streams'[h].since = s
      BY <2>2
    <3>2. KeptSince(k, s)'
      BY <2>1, <2>3, <3>1
    <3> QED BY <3>1, <3>2 DEF KeptSince
  <2> QED BY <2>3 DEF KeptForReaders
<1> QED BY <1>1, <1>2, <1>3 DEF KeptInv

LEMMA KeptByReader ==
  ASSUME OwedInv, TypeOK', UNCHANGED vars \/ \E h \in Streams : Take(h) \/ Wait(h) \/ Return(h)
  PROVE  KeptInv'
<1>1. UNCHANGED <<starts, ops, log, conn>>
  BY DEF vars, Take, Wait, Return
<1>2. ASSUME NEW k \in Keys
      PROVE  Quiet(k)
  <2>1. states'[k] = states[k] \/ \E h \in Streams : states'[k] = Disposed(states[k], h, k)
    <3>1. CASE UNCHANGED states
      BY <3>1
    <3>2. ASSUME NEW h \in Streams, Return(h)
          PROVE  states'[k] = states[k] \/ states'[k] = Disposed(states[k], h, k)
      BY <3>2 DEF Return, OwedInv, ViewInv, IInv, TypeOK
    <3> QED BY <3>1, <3>2 DEF vars, Take, Wait
  <2>2. TypeOK
    BY DEF OwedInv, ViewInv, IInv
  <2> QED BY <1>1, <2>1, <2>2, QuietUnchanged, QuietDisposed
<1>3. \A g \in Streams : SameReader(streams[g], streams'[g])
  <2>1. CASE UNCHANGED vars
    BY <2>1 DEF vars, SameReader
  <2>2. CASE \E h \in Streams : Take(h) \/ Wait(h) \/ Return(h)
    <3>1. TAKE g \in Streams
    <3>2. ~\E t \in Starts, turn \in Turns : Open(t, turn, g)
      <4>1. \A h \in Streams : Take(h) => streams[h].phase # "new" /\ ops' = ops
        BY DEF Take
      <4>2. ASSUME NEW t \in Starts, NEW turn \in Turns, Open(t, turn, g)
            PROVE  FALSE
        <5>1. ops[t].phase = "reserved" /\ ops'[t].phase = "opened"
          BY <4>2 DEF Open, OwedInv, ViewInv, IInv, TypeOK, Op
        <5> QED BY <1>1, <5>1
      <4> QED BY <4>2
    <3>3. GoesOn(streams[g], streams'[g])
      BY <2>2, <3>2, ReadersStay DEF Next, OwedInv, ViewInv
    <3> QED BY <3>3 DEF GoesOn
  <2> QED BY <2>1, <2>2
<1>4. StartsStay /\ \A th \in Threads : \A t \in starts'[th] : ops'[t].phase # "idle"
  BY <1>1 DEF StartsStay, OwedInv, InThePast
<1> QED BY <1>1, <1>2, <1>3, <1>4, QuietStep

LEMMA KeptByStart ==
  ASSUME OwedInv, TypeOK',
         \/ \E t \in Starts, th \in Threads : ReserveStart(t, th)
         \/ \E t \in Starts : Release(t)
  PROVE  KeptInv'
<1>1. UNCHANGED <<streams, log, conn>>
  BY DEF ReserveStart, Release
<1>2. \A g \in Streams : SameReader(streams[g], streams'[g])
  BY <1>1 DEF SameReader
<1>3. TypeOK /\ Placed /\ InThePast
  BY DEF OwedInv, ViewInv, IInv
<1>4. ASSUME NEW t \in Starts, NEW th \in Threads, ReserveStart(t, th)
      PROVE  /\ \A k \in Keys : Quiet(k)
             /\ StartsStay /\ \A r \in Threads : \A u \in starts'[r] : ops'[u].phase # "idle"
  <2>1. \A k \in Keys : Quiet(k)
    BY <1>4, QuietUnchanged DEF ReserveStart
  <2>2. /\ ops'[t].phase # "idle" /\ ops'[t].since = Len(log)
        /\ \A u \in Starts \ {t} : ops'[u] = ops[u]
        /\ \A r \in Threads : starts'[r] \subseteq starts[r] \cup {t}
        /\ \A r \in Threads : starts'[r] \subseteq Starts
    BY <1>3, <1>4 DEF ReserveStart, TypeOK
  <2>3. \A r \in Threads : t \notin starts[r]
    BY <1>3, <1>4 DEF ReserveStart, InThePast
  <2> QED BY <1>3, <2>1, <2>2, <2>3 DEF StartsStay, InThePast
<1>5. ASSUME NEW t \in Starts, Release(t)
      PROVE  /\ \A k \in Keys : Quiet(k)
             /\ StartsStay /\ \A r \in Threads : \A u \in starts'[r] : ops'[u].phase # "idle"
  <2> DEFINE th == ops[t].thread
  <2>1. /\ th \in Threads
        /\ \A r \in Threads : starts'[r] \subseteq starts[r]
        /\ \A u \in Starts : ops'[u].since = ops[u].since
                             /\ (ops[u].phase # "idle" => ops'[u].phase # "idle")
    <3>1. th \in Threads
      BY <1>3, <1>5 DEF Release, Placed
    <3>2. ASSUME NEW r \in Threads
          PROVE  starts'[r] \subseteq starts[r]
      BY <1>3, <1>5 DEF Release, TypeOK
    <3>3. ASSUME NEW u \in Starts
          PROVE  ops'[u].since = ops[u].since /\ (ops[u].phase # "idle" => ops'[u].phase # "idle")
      BY <1>3, <1>5 DEF Release, TypeOK, Op
    <3> HIDE DEF th
    <3> QED BY <3>1, <3>2, <3>3
  <2>2. ASSUME NEW k \in Keys
        PROVE  Quiet(k)
    <3>1. CASE t \in starts[th] /\ starts[th] = {t} /\ ThreadOf(k) = th
      <4>1. states'[k] = Settled(states[k])
        BY <1>5, <3>1 DEF Release
      <4>2. ~PendingStart(k)'
        <5>1. starts'[th] = {}
          BY <1>3, <1>5, <2>1, <3>1 DEF Release, TypeOK
        <5>2. starts'[ThreadOf(k)] = {}
          BY <3>1, <5>1
        <5> QED BY <5>2 DEF PendingStart, ThreadOf
      <4> QED BY <1>3, <4>1, <4>2, QuietSettled
    <3>2. CASE ~(t \in starts[th] /\ starts[th] = {t} /\ ThreadOf(k) = th)
      <4>1. states'[k] = states[k]
        BY <1>3, <1>5, <3>2 DEF Release, TypeOK
      <4> QED BY <4>1, QuietUnchanged
    <3> QED BY <3>1, <3>2
  <2>3. \A r \in Threads : starts[r] \subseteq Starts
    BY <1>3 DEF TypeOK
  <2> HIDE DEF th
  <2> QED BY <1>3, <2>1, <2>2, <2>3 DEF StartsStay, InThePast
<1>6. /\ \A k \in Keys : Quiet(k)
      /\ StartsStay /\ \A r \in Threads : \A u \in starts'[r] : ops'[u].phase # "idle"
  BY <1>4, <1>5
<1> QED BY <1>1, <1>2, <1>6, QuietStep

\* What a start that joins turn k is owed is kept.
LEMMA ClaimKept ==
  ASSUME OwedInv, NEW t \in Starts, NEW k \in Keys, t \in starts[ThreadOf(k)],
         ServerMayName(t, k)
  PROVE  /\ OwedSince(t, k) \in Nat
         /\ Keeps(Results(states[k]), k, OwedSince(t, k), log)
<1> DEFINE readers == {h \in Streams : streams[h].key = k /\ streams[h].conn = conn}
           claims == {streams[h].since : h \in readers} \cup {ops[t].since}
<1>1. TypeOK
  BY DEF OwedInv, ViewInv, IInv
<1>2. ~Over(k, ops[t].since, log)
  BY DEF ServerMayName, Over, IsCompletion
<1>3. MayJoin(k)
  BY <1>2 DEF MayJoin
<1>4. ASSUME NEW s \in claims
      PROVE  s \in Nat /\ Keeps(Results(states[k]), k, s, log)
  <2>1. CASE s = ops[t].since
    <3>1. Keeps(Results(states[k]), k, ops[t].since, log)
      BY DEF OwedInv, KeptForStarts
    <3> QED BY <1>1, <2>1, <3>1 DEF TypeOK, Op
  <2>2. CASE s # ops[t].since
    <3>1. PICK h \in Streams : streams[h].key = k /\ streams[h].conn = conn /\ s = streams[h].since
      BY <2>2
    <3>2. KeptSince(k, streams[h].since)
      BY <3>1 DEF OwedInv, KeptForReaders
    <3> QED BY <1>1, <1>3, <3>1, <3>2 DEF KeptSince, TypeOK, Stream
  <2> QED BY <2>1, <2>2
<1>5. OwedSince(t, k) = CHOOSE n \in claims : \A m \in claims : n <= m
  BY DEF OwedSince
<1>6. claims \subseteq Nat /\ claims # {}
  BY <1>4
<1> HIDE DEF claims
<1>7. \E n \in claims : \A m \in claims : n <= m
  BY <1>6, LeastNatural
<1>8. OwedSince(t, k) \in claims
  BY <1>5, <1>7
<1> QED BY <1>4, <1>8

LEMMA KeptByOpen ==
  ASSUME OwedInv, TypeOK', NEW t \in Starts, NEW turn \in Turns, NEW h \in Streams,
         Open(t, turn, h)
  PROVE  KeptInv'
<1>1. /\ TypeOK /\ Placed /\ InThePast /\ ReservationHeld
      /\ ops[t].phase = "reserved" /\ ops[t].conn <= conn
  BY DEF OwedInv, ViewInv, IInv, Open
<1>2. PICK k \in Keys : k = <<ops[t].thread, turn>>
  BY <1>1 DEF Placed, Keys
<1>3. PICK completes \in BOOLEAN : completes <=> \E n \in Replay(k) : IsCompletion(n)
  OBVIOUS
<1>4. UNCHANGED <<starts, log, conn>>
  BY DEF Open
<1>5. /\ states'[k] = Opened(k, h, completes)
      /\ \A j \in Keys \ {k} : states'[j] = states[j]
  BY <1>1, <1>2, <1>3 DEF Open, KeyOf, TypeOK
<1>6. /\ Quiet(k)
      /\ PendingStart(k) => states'[k].subscribed /\ Results(states'[k]) = Results(states[k])
  BY <1>1, <1>4, <1>5, QuietOpened
<1>7. \A j \in Keys : Quiet(j)
  BY <1>5, <1>6, QuietUnchanged
<1>8. /\ \A u \in Starts : ops'[u].since = ops[u].since
      /\ \A u \in Starts : ops[u].phase # "idle" => ops'[u].phase # "idle"
  BY <1>1 DEF Open, TypeOK, Op
<1>9. StartsStay /\ \A th \in Threads : \A u \in starts'[th] : ops'[u].phase # "idle"
  <2>1. \A th \in Threads : starts[th] \subseteq Starts
    BY <1>1 DEF TypeOK
  <2> QED BY <1>1, <1>4, <1>8, <2>1 DEF StartsStay, InThePast
<1>10. /\ streams'[h].key = k /\ streams'[h].since = OwedSince(t, k)
       /\ streams'[h].opened = Len(log) /\ streams'[h].conn = ops[t].conn
       /\ \A g \in Streams \ {h} : streams'[g] = streams[g]
  BY <1>1, <1>2 DEF Open, KeyOf, TypeOK
<1>11. Joins(h)
  <2>1. streams'[h].opened <= Len(log) /\ streams'[h].conn <= conn
    <3>1. Len(log) \in Nat
      BY <1>1, LenProperties DEF TypeOK
    <3> QED BY <1>1, <1>10, <3>1
  <2>2. ASSUME NEW s \in Nat, ops[t].conn = conn, OwedSince(t, k) = s
        PROVE  KeptSince(k, s)'
    <3>1. t \in starts[ThreadOf(k)]
      BY <1>1, <1>2, <2>2 DEF ReservationHeld, ThreadOf
    <3>2. ServerMayName(t, k)
      BY <1>2 DEF Open
    <3>3. Keeps(Results(states[k]), k, s, log)
      BY <2>2, <3>1, <3>2, ClaimKept
    <3>4. states'[k].subscribed /\ Results(states'[k]) = Results(states[k])
      BY <1>6, <3>1 DEF PendingStart
    <3>5. Keeps(Results(states'[k]), k, s, log')
      BY <1>4, <3>3, <3>4
    <3> QED BY <3>4, <3>5 DEF KeptSince
  <2>3. \A j \in Keys, s \in Nat :
          streams'[h].key = j /\ streams'[h].conn = conn /\ streams'[h].since = s
            => KeptSince(j, s)'
    <3>1. SUFFICES ASSUME NEW s \in Nat, streams'[h].conn = conn, streams'[h].since = s
                   PROVE  KeptSince(k, s)'
      BY <1>10
    <3> QED BY <1>10, <2>2, <3>1
  <2> QED BY <2>1, <2>3 DEF Joins
<1>12. \A g \in Streams : SameReader(streams[g], streams'[g]) \/ Joins(g)
  BY <1>10, <1>11 DEF SameReader
<1> QED BY <1>4, <1>7, <1>9, <1>12, QuietStep

LEMMA KeptByFailAll ==
  ASSUME OwedInv, TypeOK', FailAll
  PROVE  KeptInv'
<1>1. /\ TypeOK /\ InThePast /\ IInv
      /\ log' = log /\ conn' = conn + 1
      /\ \A th \in Threads : starts'[th] = {}
      /\ \A k \in Keys : states'[k] = NewState
  BY DEF OwedInv, ViewInv, IInv, FailAll
<1>2. \A g \in Streams : streams'[g].opened = streams[g].opened /\ streams'[g].conn = streams[g].conn
  <2>1. TAKE g \in Streams
  <2>2. streams'[g] \in {streams[g], Fail(streams[g])}
    BY DEF FailAll
  <2>3. streams[g] \in Stream
    BY <1>1 DEF TypeOK
  <2>4. SameReader(streams[g], Fail(streams[g]))
    <3>1. 0 \in Nat
      OBVIOUS
    <3> QED BY <2>3, <3>1, SameReaders
  <2> QED BY <2>2, <2>4 DEF SameReader
<1>3. InThePast'
  <2>1. \A g \in Streams : streams[g].conn \in Nat /\ conn \in Nat
    BY <1>1 DEF TypeOK, Stream
  <2>2. \A g \in Streams : streams'[g].opened <= Len(log') /\ streams'[g].conn <= conn'
    BY <1>1, <1>2, <2>1 DEF InThePast
  <2> QED BY <1>1, <2>2 DEF InThePast
<1>4. UsageRouted' /\ EarlyInOrder'
  <2>1. NewState.usage = 0 /\ NewState.early = <<>> /\ Increasing(<<>>)
    BY DEF NewState, Increasing
  <2> QED BY <1>1, <2>1 DEF UsageRouted, EarlyInOrder
<1>5. \A k \in Keys : ThreadOf(k) \in Threads
  BY DEF Keys, ThreadOf
<1>6. KeptForStarts'
  BY <1>1, <1>5 DEF KeptForStarts, ThreadOf
<1>7. KeptForReaders'
  <2>1. \A g \in Streams : streams'[g].conn # conn'
    <3>1. \A g \in Streams : streams[g].conn \in Nat /\ conn \in Nat
      BY <1>1 DEF TypeOK, Stream
    <3> QED BY <1>1, <1>2, <3>1 DEF InThePast
  <2> QED BY <2>1 DEF KeptForReaders
<1> QED BY <1>3, <1>4, <1>6, <1>7 DEF KeptInv

-----------------------------------------------------------------------------
(* What an event does to what turns keep.                                  *)

\* What route leaves of the turns: those somebody owns or is starting stay.
LEMMA RouteStates ==
  ASSUME RouterAssumption, TypeOK, NEW th \in Threads, NEW turn \in Turns, NEW what \in What,
         Route(th, turn, what), NEW k \in Keys, k = <<th, turn>>
  PROVE  LET st == Recorded(k, Len(log) + 1, what)
         IN  /\ \A j \in Keys \ {k} :
                  /\ states[j].subscribed \/ PendingStart(j) => states'[j] = states[j]
                  /\ states'[j].early \in {states[j].early, <<>>}
                  /\ states'[j].usage \in {states[j].usage, 0}
             /\ PendingStart(k) => states'[k] = st
             /\ states[k].subscribed /\ states[k].terminal = 0 /\ what # "completed"
                  => states'[k] = st
             /\ states'[k].early \in {st.early, <<>>}
             /\ states'[k].usage \in {st.usage, 0}
<1> DEFINE n == Len(log) + 1
           st == Recorded(k, n, what)
           finished == st.subscribed /\ st.terminal # 0 /\ st.streams = {} /\ ~PendingStart(k)
           sts == [states EXCEPT ![k] = IF finished THEN NewState ELSE st]
<1>1. states' = Trimmed(sts)
  BY DEF Route, KeyOf
<1>2. Len(log) \in Nat /\ n \in Nat
  BY LenProperties DEF TypeOK
<1>3. st \in TurnState /\ st.subscribed = states[k].subscribed
      /\ (states[k].terminal = 0 /\ what # "completed" => st.terminal = 0)
  <2>1. st \in TurnState
    BY <1>2, RecordedType
  <2> QED BY <2>1 DEF Recorded
<1>4. NewState \in TurnState /\ NewState.early = <<>> /\ NewState.usage = 0
  BY NewTypes DEF NewState
<1> HIDE DEF n, st
<1>5. /\ sts \in [Keys -> TurnState]
      /\ \A j \in Keys \ {k} : sts[j] = states[j]
      /\ sts[k] \in {NewState, st}
      /\ PendingStart(k) => sts[k] = st
      /\ states[k].subscribed /\ states[k].terminal = 0 /\ what # "completed" => sts[k] = st
  BY <1>3, <1>4 DEF TypeOK
<1> HIDE DEF sts
<1>6. ASSUME NEW j \in Keys
      PROVE  /\ sts[j].subscribed \/ PendingStart(j) => states'[j] = sts[j]
             /\ states'[j].early \in {sts[j].early, <<>>}
             /\ states'[j].usage \in {sts[j].usage, 0}
  <2> DEFINE cut == [sts[j] EXCEPT !.items = LastOf(@, MaxPendingEvents)]
  <2>1. sts[j].subscribed \/ PendingStart(j) => states'[j] = sts[j]
    BY <1>1 DEF Trimmed, Unclaimed
  <2>2. states'[j] \in {sts[j], NewState, cut}
    BY <1>1 DEF Trimmed
  <2>3. cut.early = sts[j].early /\ cut.usage = sts[j].usage
    BY <1>5 DEF TurnState
  <2> HIDE DEF cut
  <2> QED BY <1>4, <2>1, <2>2, <2>3
<1>7. \A j \in Keys \ {k} :
        /\ states[j].subscribed \/ PendingStart(j) => states'[j] = states[j]
        /\ states'[j].early \in {states[j].early, <<>>}
        /\ states'[j].usage \in {states[j].usage, 0}
  BY <1>5, <1>6
<1>8. /\ PendingStart(k) => states'[k] = st
      /\ states[k].subscribed /\ states[k].terminal = 0 /\ what # "completed" => states'[k] = st
      /\ states'[k].early \in {st.early, <<>>}
      /\ states'[k].usage \in {st.usage, 0}
  BY <1>3, <1>4, <1>5, <1>6
<1> QED BY <1>7, <1>8 DEF st, n

\* An event of one turn is none of another's.
LEMMA OthersKeep ==
  ASSUME RouterAssumption, NEW lg, NEW more, Longer(lg, more), NEW j, NEW s \in Nat,
         more[Len(lg) + 1].key # j, NEW kept, NEW early
  PROVE  /\ Keeps(kept, j, s, lg) => Keeps(kept, j, s, more)
         /\ Buffers(early, j, s, lg) => Buffers(early, j, s, more)
<1>1. Keeps(kept, j, s, lg) => Keeps(kept, j, s, more)
  <2> SUFFICES ASSUME Keeps(kept, j, s, lg) PROVE Keeps(kept, j, s, more)
    OBVIOUS
  <2>1. \A n \in kept : n \in 1..Len(lg) => n \in kept \/ lg[n] = more[Len(lg) + 1]
    OBVIOUS
  <2>2. more[Len(lg) + 1].key = j /\ more[Len(lg) + 1].what # "delta" => Len(lg) + 1 \in kept
    OBVIOUS
  <2> QED BY <2>1, <2>2, KeepsNext
<1>2. Buffers(early, j, s, lg) => Buffers(early, j, s, more)
  <2> SUFFICES ASSUME Buffers(early, j, s, lg) PROVE Buffers(early, j, s, more)
    OBVIOUS
  <2>1. MaxPendingEvents \in Nat
    BY DEF RouterAssumption
  <2>2. \A n \in RangeOf(early) : n \in 1..Len(lg) =>
          \/ n \in RangeOf(early)
          \/ Cardinality(TurnEvents(j, n, Len(lg) + 1, more)) > MaxPendingEvents
    OBVIOUS
  <2>3. more[Len(lg) + 1].key = j => Len(lg) + 1 \in RangeOf(early)
    OBVIOUS
  <2> QED BY <2>1, <2>2, <2>3, BuffersNext
<1> QED BY <1>1, <1>2

\* The completion of a turn stays in the past.
LEMMA OverNext ==
  ASSUME NEW lg, NEW more, Longer(lg, more), NEW k
  PROVE  /\ \A s \in 0..Len(lg) : Over(k, s, more) <=> Over(k, s, lg)
         /\ Over(k, Len(lg), lg) => Over(k, Len(more), more)
<1>1. Len(lg) \in Nat /\ Len(more) = Len(lg) + 1 /\ \A i \in 1..Len(lg) : more[i] = lg[i]
  BY DEF Longer, Extends
<1> DEFINE l == Len(lg)
<1> HIDE DEF l
<1>2. \A s \in 0..l : \A n \in 1..s : n \in 1..l
  BY <1>1 DEF l
<1>3. \A n \in 1..l : n \in 1..l + 1
  BY <1>1 DEF l
<1>4. \A s \in 0..l : Over(k, s, more) <=> Over(k, s, lg)
  BY <1>1, <1>2 DEF Over, l
<1>5. Over(k, l, lg) => Over(k, l + 1, more)
  BY <1>1, <1>3 DEF Over, l
<1> QED BY <1>1, <1>4, <1>5 DEF l

LEMMA KeptByRoute ==
  ASSUME OwedInv, TypeOK', NEW th \in Threads, NEW turn \in Turns, NEW what \in What,
         Route(th, turn, what)
  PROVE  KeptInv'
<1>1. /\ RouterAssumption /\ IInv /\ TypeOK /\ HeldOfTurn /\ TerminalRouted /\ UsageRouted
      /\ EarlyInOrder /\ InThePast
  BY RouterAssumption DEF OwedInv, ViewInv, IInv
<1>2. PICK k \in Keys : k = <<th, turn>>
  BY DEF Keys
<1> DEFINE n == Len(log) + 1
           st == Recorded(k, n, what)
<1>3. /\ log' = Append(log, [key |-> k, what |-> what])
      /\ UNCHANGED <<starts, ops, conn>>
  BY <1>2 DEF Route
<1>4. /\ Longer(log, log') /\ Len(log) \in Nat
      /\ log'[n] = [key |-> k, what |-> what]
  BY <1>1, <1>3, RoutedNext
<1>5. /\ \A j \in Keys \ {k} :
           /\ states[j].subscribed \/ PendingStart(j) => states'[j] = states[j]
           /\ states'[j].early \in {states[j].early, <<>>}
           /\ states'[j].usage \in {states[j].usage, 0}
      /\ PendingStart(k) => states'[k] = st
      /\ states[k].subscribed /\ states[k].terminal = 0 /\ what # "completed"
           => states'[k] = st
      /\ states'[k].early \in {st.early, <<>>}
      /\ states'[k].usage \in {st.usage, 0}
  BY <1>1, <1>2, RouteStates
<1>6. /\ n \in Nat /\ n # 0 /\ Len(log') = n /\ log'[n].key = k /\ log'[n].what = what
      /\ \A i \in 1..Len(log) : log'[i] = log[i]
  BY <1>4 DEF Longer, Extends
<1>7. /\ st.usage = IF what = "usage" THEN n ELSE states[k].usage
      /\ ~(~states[k].subscribed \/ PendingStart(k)) => st.early = states[k].early
  BY DEF Recorded
<1>8. ~states[k].subscribed \/ PendingStart(k) =>
        /\ Increasing(st.early)
        /\ \A s \in Nat : Buffers(states[k].early, k, s, log) => Buffers(st.early, k, s, log')
  BY <1>1, <1>3, RecordedBuffers
<1>9. \A s \in Nat : Keeps(Results(states[k]), k, s, log) => Keeps(Results(st), k, s, log')
  BY <1>1, <1>3, RecordedKeeps
<1>10. ASSUME NEW j \in Keys \ {k}, NEW s \in Nat
       PROVE  /\ Keeps(Results(states[j]), j, s, log) => Keeps(Results(states[j]), j, s, log')
              /\ Buffers(states[j].early, j, s, log) => Buffers(states[j].early, j, s, log')
  <2>1. log'[Len(log) + 1].key # j
    BY <1>6
  <2> QED BY <1>1, <1>4, <2>1, OthersKeep
<1> HIDE DEF n, st
<1>11. ASSUME NEW j \in Keys
       PROVE  /\ \A s \in 0..Len(log) : Over(j, s, log') <=> Over(j, s, log)
              /\ Over(j, Len(log), log) => Over(j, Len(log'), log')
  BY <1>4, OverNext
<1>12. ASSUME NEW g \in Streams
       PROVE  SameReader(streams[g], streams'[g])
  <2>1. ASSUME NEW t \in Starts, NEW u \in Turns, Open(t, u, g)
        PROVE  FALSE
    BY <1>4, <1>6, <2>1 DEF Open, n
  <2>2. [Next]_vars
    BY DEF Next
  <2> QED BY <1>1, <2>1, <2>2, ReadersStay DEF GoesOn
<1>13. InThePast'
  <2>1. \A t \in Starts : ops[t].since \in Nat
    BY <1>1 DEF TypeOK, Op
  <2>2. \A g \in Streams : streams[g].opened \in Nat
    BY <1>1 DEF TypeOK, Stream
  <2>3. \A m \in Nat : m <= Len(log) => m <= Len(log')
    BY <1>4, <1>6 DEF n
  <2>4. \A r \in Threads : \A t \in starts[r] : t \in Starts
    BY <1>1 DEF TypeOK
  <2> QED BY <1>1, <1>3, <1>12, <2>1, <2>2, <2>3, <2>4 DEF InThePast, SameReader
<1>14. UsageRouted'
  <2>1. \A j \in Keys : states[j].usage # 0 =>
          states[j].usage \in 1..Len(log) /\ log[states[j].usage].what = "usage"
    BY <1>1 DEF UsageRouted, HeldOfTurn, Held
  <2>2. \A j \in Keys : states'[j].usage \in {states[j].usage, 0}
                          \/ (states'[j].usage = n /\ what = "usage")
    BY <1>5, <1>7
  <2>3. \A j \in Keys : states'[j].usage # 0 => log'[states'[j].usage].what = "usage"
    BY <1>6, <2>1, <2>2
  <2> QED BY <2>3 DEF UsageRouted
<1>15. EarlyInOrder'
  <2>1. Increasing(<<>>) /\ \A j \in Keys : Increasing(states[j].early)
    BY <1>1 DEF Increasing, EarlyInOrder
  <2>2. Increasing(st.early)
    BY <1>7, <1>8, <2>1
  <2>3. \A j \in Keys : Increasing(states'[j].early)
    BY <1>5, <2>1, <2>2
  <2> QED BY <2>3 DEF EarlyInOrder
<1>16. KeptForStarts'
  <2>1. ASSUME NEW j \in Keys, NEW t \in starts[ThreadOf(j)], NEW s \in Nat, s = ops[t].since
        PROVE  /\ Keeps(Results(states'[j]), j, s, log')
               /\ Buffers(states'[j].early, j, s, log')
    <3>1. /\ Keeps(Results(states[j]), j, s, log)
          /\ Buffers(states[j].early, j, s, log)
      BY <2>1 DEF OwedInv, KeptForStarts
    <3>2. PendingStart(j)
      BY DEF PendingStart
    <3>3. CASE j = k
      BY <1>5, <1>8, <1>9, <3>1, <3>2, <3>3
    <3>4. CASE j # k
      <4>1. states'[j] = states[j]
        BY <1>5, <3>2, <3>4
      <4> QED BY <1>10, <3>1, <3>4, <4>1
    <3> QED BY <3>3, <3>4
  <2>2. ASSUME NEW j \in Keys, NEW t \in starts[ThreadOf(j)]
        PROVE  /\ Keeps(Results(states'[j]), j, ops[t].since, log')
               /\ Buffers(states'[j].early, j, ops[t].since, log')
    <3>1. ops[t].since \in Nat
      BY <1>1 DEF TypeOK, Op, Keys, ThreadOf
    <3> QED BY <2>1, <3>1
  <2> QED BY <1>3, <2>2 DEF KeptForStarts, ThreadOf
<1>17. ASSUME NEW j \in Keys, NEW s \in Nat, KeptSince(j, s)
       PROVE  KeptSince(j, s)'
  <2>1. MayJoin(j)' => MayJoin(j) /\ PendingStart(j)
    <3>1. SUFFICES ASSUME NEW t \in starts[ThreadOf(j)], ~Over(j, ops[t].since, log')
                   PROVE  MayJoin(j) /\ PendingStart(j)
      BY <1>3 DEF MayJoin, ThreadOf
    <3>2. ops[t].since \in 0..Len(log)
      <4>1. ops[t].since \in Nat /\ ops[t].since <= Len(log)
        BY <1>1 DEF TypeOK, Op, Keys, ThreadOf, InThePast
      <4> QED BY <1>4, <4>1
    <3>3. ~Over(j, ops[t].since, log)
      BY <1>11, <3>1, <3>2
    <3> QED BY <3>3 DEF MayJoin, PendingStart
  <2>2. ~Over(j, Len(log'), log') =>
          /\ ~Over(j, Len(log), log) /\ states[j].subscribed
          /\ states[j].terminal = 0
          /\ j = k => what # "completed"
    <3>1. states[j].terminal # 0 => Over(j, Len(log), log)
      BY <1>1 DEF TerminalRouted, IsCompletion, HeldOfTurn, Held, Over
    <3>2. j = k /\ what = "completed" => Over(j, Len(log'), log')
      <4>1. n \in 1..n
        BY <1>6
      <4> QED BY <1>6, <4>1 DEF Over
    <3> QED BY <1>11, <1>17, <3>1, <3>2 DEF KeptSince
  <2>3. CASE ~Over(j, Len(log'), log') \/ MayJoin(j)'
    <3>1. Keeps(Results(states[j]), j, s, log)
      BY <1>17, <2>1, <2>2, <2>3 DEF KeptSince
    <3>2. states'[j] = IF j = k THEN st ELSE states[j]
      BY <1>5, <2>1, <2>2, <2>3
    <3>3. Keeps(Results(states'[j]), j, s, log')
      <4>1. CASE j = k
        BY <1>9, <3>1, <3>2, <4>1
      <4>2. CASE j # k
        BY <1>10, <3>1, <3>2, <4>2
      <4> QED BY <4>1, <4>2
    <3>4. ~Over(j, Len(log'), log') => states'[j].subscribed
      <4>1. st.subscribed = states[k].subscribed
        BY DEF st, Recorded
      <4> QED BY <2>2, <3>2, <4>1
    <3> QED BY <3>3, <3>4 DEF KeptSince
  <2>4. CASE Over(j, Len(log'), log') /\ ~MayJoin(j)'
    BY <2>4 DEF KeptSince
  <2> QED BY <2>3, <2>4
<1>18. KeptForReaders'
  <2>1. ASSUME NEW j \in Keys, NEW h \in Streams, streams'[h].key = j, streams'[h].conn = conn
        PROVE  KeptSince(j, streams[h].since)'
    <3>1. PICK s \in Nat : s = streams[h].since
      BY <1>1 DEF TypeOK, Stream
    <3>2. streams[h].key = j /\ streams[h].conn = conn /\ streams'[h].since = s
      BY <1>12, <2>1, <3>1 DEF SameReader
    <3>3. KeptSince(j, s)
      BY <3>1, <3>2 DEF OwedInv, KeptForReaders
    <3>4. KeptSince(j, s)'
      BY <1>17, <3>3
    <3> QED BY <3>2, <3>4 DEF KeptSince
  <2> QED BY <1>3, <2>1 DEF KeptForReaders
<1> QED BY <1>13, <1>14, <1>15, <1>16, <1>18 DEF KeptInv

-----------------------------------------------------------------------------
(* What readers are given.                                                 *)

LEMMA GivenComplete ==
  ResultsComplete <=>
    \A h \in Streams : streams[h].phase \in {"open", "done"} => AllGiven(streams[h], log)
<1>1. ASSUME NEW h \in Streams, NEW n
      PROVE  /\ \/ ~OfTurn(n, streams[h].key)
                \/ n \in RangeOf(View(h))
                \/ n <= streams[h].opened /\ (Superseded(n, h) \/ TransientLost(n, h))
                \/ streams[h].phase = "done"
                     /\ \E c \in RangeOf(View(h)) : c < n /\ IsCompletion(c)
             <=> Given(streams[h], n, log)
  <2>1. {m \in n..streams[h].opened : OfTurn(m, streams[h].key)}
          = TurnEvents(streams[h].key, n, streams[h].opened, log)
    BY DEF OfTurn, TurnEvents
  <2>2. Superseded(n, h) \/ TransientLost(n, h) <=> Missed(streams[h], n, log)
    BY <2>1 DEF Superseded, TransientLost, Missed
  <2> QED BY <2>2 DEF Given, View, OfTurn, IsCompletion
<1> QED BY <1>1 DEF ResultsComplete, AllGiven

LEMMA GrownRange ==
  ASSUME NEW v \in Seq(Nat), NEW w \in Seq(Nat), Grown(v, w)
  PROVE  RangeOf(v) \subseteq RangeOf(w)
<1> DEFINE l == Len(v)
<1>1. /\ l \in Nat /\ Len(w) \in Nat /\ l <= Len(w)
      /\ DOMAIN v = 1..l /\ DOMAIN w = 1..Len(w)
  BY LenProperties DEF Grown
<1>2. ASSUME NEW i \in 1..l
      PROVE  i \in 1..Len(w) /\ v[i] = w[i]
  <2>1. i \in 1..Len(w)
    BY <1>1
  <2>2. 1 \in Int /\ l \in Int /\ \A j \in 1..l : w[j] \in Nat
    <3>1. \A j \in 1..l : j \in 1..Len(w)
      BY <1>1
    <3> QED BY <1>1, <3>1, ElementOfSeq
  <2>3. \A j \in 1..l - 1 + 1 : SubSeq(w, 1, l)[j] = w[1 + j - 1]
    BY <2>2, SubSeqProperties
  <2>4. i \in 1..l - 1 + 1 /\ 1 + i - 1 = i
    BY <1>1
  <2>5. SubSeq(w, 1, l)[i] = w[i]
    BY <2>3, <2>4
  <2>6. SubSeq(w, 1, l) = v
    BY DEF Grown
  <2> QED BY <2>1, <2>5, <2>6
<1> HIDE DEF l
<1> QED BY <1>1, <1>2 DEF RangeOf

\* What a reader was given it has been given as the log grows.
LEMMA GivenMore ==
  ASSUME NEW s \in Stream, NEW t, NEW lg, NEW more, Extends(lg, more), SameReader(s, t),
         AllGiven(s, lg), s.opened <= Len(lg),
         RangeOf(s.got \o s.values) \subseteq RangeOf(t.got \o t.values),
         RangeOf(s.got \o s.values) \subseteq 1..Len(lg),
         s.phase = "done" => t.phase = "done",
         \A n \in Len(lg) + 1..Len(more) : Given(t, n, more)
  PROVE  AllGiven(t, more)
<1> DEFINE v == RangeOf(s.got \o s.values)
           w == RangeOf(t.got \o t.values)
           l == Len(lg)
<1>1. /\ l \in Nat /\ Len(more) \in Nat /\ l <= Len(more)
      /\ \A i \in 1..l : more[i] = lg[i]
      /\ s.since \in Nat /\ s.opened \in Nat /\ s.opened <= l
  BY DEF Extends, Stream
<1>2. v \subseteq w /\ v \subseteq 1..l
  OBVIOUS
<1> HIDE DEF v, w, l
<1>3. SUFFICES ASSUME NEW n \in s.since + 1..Len(more)
               PROVE  Given(t, n, more)
  BY DEF AllGiven, SameReader
<1>4. CASE ~(n <= l)
  <2>1. n \in l + 1..Len(more)
    BY <1>1, <1>4
  <2> QED BY <2>1 DEF l
<1>5. CASE n <= l
  <2>1. n \in s.since + 1..l /\ n \in 1..l /\ more[n] = lg[n] /\ n \in Nat
    BY <1>1, <1>5
  <2>2. Given(s, n, lg)
    BY <2>1 DEF AllGiven, l
  <2>3. \A m \in n..s.opened : m \in 1..l /\ more[m] = lg[m]
    <3>1. \A m \in n..s.opened : m \in 1..l
      BY <1>1, <2>1
    <3> QED BY <1>1, <3>1
  <2>4. Missed(s, n, lg) => Missed(t, n, more)
    <3>1. \A m \in n + 1..s.opened : m \in n..s.opened
      BY <1>1, <2>1
    <3>2. TurnEvents(s.key, n, s.opened, lg) = TurnEvents(s.key, n, s.opened, more)
      BY <2>3 DEF TurnEvents
    <3>3. t.key = s.key /\ t.opened = s.opened /\ t.reserved = s.reserved
      BY DEF SameReader
    <3> QED BY <2>1, <2>3, <3>1, <3>2, <3>3 DEF Missed
  <2>5. t.key = s.key /\ t.opened = s.opened
    BY DEF SameReader
  <2>6. \A c \in v : c \in w /\ more[c] = lg[c]
    BY <1>1, <1>2
  <2> QED BY <2>1, <2>2, <2>4, <2>5, <2>6 DEF Given, v, w
<1> QED BY <1>4, <1>5

\* A reader registered with the turn is given the event.
LEMMA RouteDelivers ==
  ASSUME ViewInv, NEW th \in Threads, NEW turn \in Turns, NEW what \in What,
         Route(th, turn, what), NEW g \in Streams, g \in states[<<th, turn>>].streams
  PROVE  Len(log) + 1 \in RangeOf(streams'[g].got \o streams'[g].values)
<1> DEFINE n == Len(log) + 1
           s == streams[g]
           v == s.got \o s.values
           t == streams'[g]
<1>1. s \in Stream /\ n \in Nat /\ v \in Seq(Nat)
  BY LenProperties, SeenType DEF ViewInv, IInv, TypeOK
<1>2. s.phase = "open" /\ (s.waiters > 0 => s.values = <<>>)
  BY DEF ViewInv, IInv, LiveReadersRegistered, NoForgottenWaiter, Keys
<1>3. t = Push(s, n) \/ t = Complete(Push(s, n))
  BY DEF Route, KeyOf
<1> HIDE DEF n, s, v, t
<1>4. Push(s, n) \in Stream /\ Push(s, n).got \o Push(s, n).values = Append(v, n)
  BY <1>1, <1>2, PushedNext, StreamOperationTypes DEF v
<1>5. t.got \o t.values = Append(v, n)
  BY <1>3, <1>4, CompletedSame
<1>6. /\ Append(v, n) \in Seq(Nat) /\ Len(v) \in Nat
      /\ Len(Append(v, n)) = Len(v) + 1 /\ Append(v, n)[Len(v) + 1] = n
  BY <1>1, AppendProperties, LenProperties
<1>7. DOMAIN Append(v, n) = 1..Len(v) + 1 /\ Len(v) + 1 \in 1..Len(v) + 1
  BY <1>6, LenProperties
<1>8. n \in RangeOf(Append(v, n))
  BY <1>6, <1>7 DEF RangeOf
<1> QED BY <1>5, <1>8 DEF n, t

\* A reader that goes on is given what is routed.
LEMMA GivenToReader ==
  ASSUME OwedInv, TypeOK', [Next]_vars, NEW g \in Streams, GoesOn(streams[g], streams'[g]),
         streams'[g].phase \in {"open", "done"}
  PROVE  AllGiven(streams'[g], log')
<1> DEFINE s == streams[g]
           t == streams'[g]
           v == s.got \o s.values
           w == t.got \o t.values
<1>1. /\ TypeOK /\ ViewInv /\ s \in Stream /\ t \in Stream
      /\ v \in Seq(Nat) /\ w \in Seq(Nat) /\ Len(log) \in Nat
  BY SeenType, LenProperties DEF OwedInv, ViewInv, IInv, TypeOK
<1>2. /\ SameReader(s, t) /\ s.phase \in {"open", "done"}
      /\ s.phase = "done" => t.phase = "done"
  BY DEF GoesOn
<1>3. AllGiven(s, log)
  BY <1>2 DEF OwedInv, ReadersGiven
<1>4. Follows(s, t, log')
  BY <1>1, NextFollows
<1>5. RangeOf(v) \subseteq RangeOf(w)
  <2>1. Grown(v, w)
    BY <1>4 DEF Follows
  <2> HIDE DEF v, w
  <2> QED BY <1>1, <2>1, GrownRange
<1>6. Sees(v, s.key, s.phase, log)
  BY <1>1 DEF ViewInv, ReaderSees
<1>7. DOMAIN v = 1..Len(v)
  BY <1>1, LenProperties
<1>8. RangeOf(v) \subseteq 1..Len(log)
  <2> HIDE DEF v
  <2> QED BY <1>6, <1>7 DEF Sees, RangeOf
<1>9. s.opened <= Len(log)
  BY DEF OwedInv, InThePast
<1>10. CASE log' = log
  <2>1. Extends(log, log) /\ Len(log) + 1..Len(log) = {}
    BY <1>1, SameLog
  <2>2. AllGiven(t, log)
    <3> HIDE DEF s, t
    <3> QED BY <1>1, <1>2, <1>3, <1>5, <1>8, <1>9, <2>1, GivenMore DEF v, w
  <2> QED BY <1>10, <2>2
<1>11. ASSUME NEW th \in Threads, NEW turn \in Turns, NEW what \in What, Route(th, turn, what)
       PROVE  AllGiven(t, log')
  <2>1. PICK k \in Keys : k = <<th, turn>>
    BY DEF Keys
  <2> DEFINE n == Len(log) + 1
  <2>2. /\ Extends(log, log') /\ Len(log') = n /\ log'[n] = [key |-> k, what |-> what]
    <3>1. log' = Append(log, [key |-> k, what |-> what])
      BY <1>11, <2>1 DEF Route
    <3> QED BY <1>1, <3>1, RoutedNext DEF Longer
  <2>3. Given(t, n, log')
    <3>1. CASE g \in states[k].streams
      <4>1. n \in RangeOf(w)
        BY <1>1, <1>11, <2>1, <3>1, RouteDelivers
      <4> QED BY <4>1 DEF Given
    <3>2. CASE g \notin states[k].streams /\ s.key = k
      <4>1. s.phase = "done"
        BY <1>1, <1>2, <3>2 DEF ViewInv, IInv, LiveReadersRegistered
      <4>2. PICK i \in 1..Len(v) : log[v[i]].what = "completed"
        BY <1>6, <4>1 DEF Sees
      <4>3. v[i] \in RangeOf(v) /\ v[i] \in 1..Len(log)
        BY <1>7, <1>8 DEF RangeOf
      <4>4. /\ v[i] \in RangeOf(w) /\ v[i] < n
            /\ log'[v[i]].what = "completed" /\ t.phase = "done"
        <5>1. v[i] < n
          <6>1. \A c \in 1..Len(log) : c < n
            BY <1>1
          <6> QED BY <4>3, <6>1
        <5>2. log'[v[i]] = log[v[i]]
          BY <2>2, <4>3 DEF Extends
        <5> QED BY <1>2, <1>5, <4>1, <4>2, <4>3, <5>1, <5>2
      <4> QED BY <4>4 DEF Given
    <3>3. CASE s.key # k
      BY <1>2, <2>2, <3>3 DEF Given, SameReader
    <3> QED BY <3>1, <3>2, <3>3
  <2>4. \A m \in Len(log) + 1..Len(log') : Given(t, m, log')
    <3>1. \A m \in Len(log) + 1..n : m = n
      BY <1>1
    <3> HIDE DEF n
    <3> QED BY <2>2, <2>3, <3>1
  <2> HIDE DEF s, t
  <2> QED BY <1>1, <1>2, <1>3, <1>5, <1>8, <1>9, <2>2, <2>4, GivenMore DEF v, w
<1>12. \/ log' = log
       \/ \E th \in Threads, turn \in Turns, what \in What : Route(th, turn, what)
  <2>1. CASE UNCHANGED vars
    BY <2>1 DEF vars
  <2>2. CASE Next
    BY <2>2 DEF Next, Take, Wait, Return, ReserveStart, Open, Release, FailAll
  <2> QED BY <2>1, <2>2
<1> QED BY <1>10, <1>11, <1>12

\* A new reader is replayed what it is owed.
LEMMA GivenByOpen ==
  ASSUME OwedInv, TypeOK', NEW t \in Starts, NEW turn \in Turns, NEW h \in Streams,
         Open(t, turn, h)
  PROVE  AllGiven(streams'[h], log')
<1>1. TypeOK /\ ViewInv /\ Placed /\ RouterAssumption /\ Len(log) \in Nat
  BY RouterAssumption, LenProperties DEF OwedInv, ViewInv, IInv, TypeOK
<1>2. PICK k \in Keys : k = <<ops[t].thread, turn>>
  BY <1>1 DEF Placed, Keys, Open
<1> DEFINE now == streams'[h]
           all == Replay(k)
           kept == {n \in all : \A c \in all : IsCompletion(c) => n <= c}
           v == ReplaySeq(k)
           l == Len(log)
<1>3. /\ now.key = k /\ now.values = v /\ now.got = <<>>
      /\ now.phase = IF \E n \in all : IsCompletion(n) THEN "done" ELSE "open"
      /\ now.since = OwedSince(t, k) /\ now.opened = l
      /\ now.reserved = IF t \in starts[ThreadOf(k)] THEN ops[t].since ELSE l
      /\ log' = log
  BY <1>1, <1>2 DEF Open, KeyOf, TypeOK
<1>4. now.got \o now.values = v
  BY <1>1, <1>3, ReplaySeqType, ConcatEmptySeq
<1>5. \A n \in all : n \in 1..l /\ log[n].key = k
  BY <1>1, ReplayOfTurn
<1>6. RangeOf(v) = kept
  <2>1. RangeOf(v) = kept \cap (1..l)
    BY <1>1, InOrderLists DEF ReplaySeq, Lists
  <2> QED BY <1>5, <2>1
<1>7. ASSUME NEW n \in all
      PROVE  Given(now, n, log)
  <2>1. CASE n \in kept
    BY <1>4, <1>6, <2>1 DEF Given
  <2>2. CASE n \notin kept
    <3> DEFINE ends == {c \in all : IsCompletion(c)}
    <3>1. PICK d \in ends : ~(n <= d)
      BY <2>2
    <3>2. ends \subseteq Nat /\ ends # {}
      BY <1>5, <3>1
    <3>3. PICK c \in ends : \A e \in ends : c <= e
      <4> HIDE DEF ends
      <4> QED BY <3>2, LeastNatural
    <3>4. c \in kept /\ log[c].what = "completed"
      BY <3>3 DEF IsCompletion
    <3>5. c < n
      <4>1. c \in Nat /\ d \in Nat /\ n \in Nat /\ c <= d
        BY <1>5, <3>1, <3>2, <3>3
      <4> QED BY <3>1, <4>1
    <3>6. now.phase = "done"
      BY <1>3, <3>3
    <3> HIDE DEF kept, v, now
    <3> QED BY <1>4, <1>6, <3>4, <3>5, <3>6 DEF Given
  <2> QED BY <2>1, <2>2
<1> HIDE DEF now, kept, v, l
<1>8. CASE t \notin starts[ThreadOf(k)]
  <2>1. now.since = l
    BY <1>3, <1>8 DEF OwedSince, l
  <2>2. l + 1..l = {}
    BY <1>1 DEF l
  <2> QED BY <1>3, <2>1, <2>2 DEF AllGiven, l, now
<1>9. CASE t \in starts[ThreadOf(k)]
  <2>1. /\ now.since \in Nat /\ Keeps(Results(states[k]), k, now.since, log)
        /\ Buffers(states[k].early, k, ops[t].since, log)
        /\ now.reserved = ops[t].since /\ ops[t].since \in Nat
    <3>1. ServerMayName(t, k)
      BY <1>2 DEF Open
    <3>2. OwedSince(t, k) \in Nat /\ Keeps(Results(states[k]), k, OwedSince(t, k), log)
      BY <1>9, <3>1, ClaimKept
    <3>3. Buffers(states[k].early, k, ops[t].since, log)
      BY <1>9 DEF OwedInv, KeptForStarts
    <3> QED BY <1>1, <1>3, <1>9, <3>2, <3>3 DEF TypeOK, Op
  <2>2. Results(states[k]) \subseteq all /\ RangeOf(states[k].early) \subseteq all
    BY DEF Results, Replay
  <2> HIDE DEF all
  <2>3. SUFFICES ASSUME NEW n \in now.since + 1..l, log[n].key = k, n \notin all
                 PROVE  n <= now.opened /\ Missed(now, n, log)
    BY <1>3, <1>7 DEF AllGiven, Given, l, now
  <2>4. n <= l /\ n \in Nat /\ n \in now.since + 1..Len(log)
    BY <1>1, <2>1 DEF l
  <2>5. CASE log[n].what # "delta"
    <3>1. \E m \in n + 1..Len(log) : log[m] = log[n]
      BY <2>1, <2>2, <2>3, <2>4, <2>5 DEF Keeps
    <3> QED BY <1>3, <2>4, <2>5, <3>1 DEF Missed, l
  <2>6. CASE log[n].what = "delta"
    <3>1. CASE n <= now.reserved
      BY <1>3, <2>4, <2>6, <3>1 DEF Missed
    <3>2. CASE ~(n <= now.reserved)
      <4>1. n \in ops[t].since + 1..Len(log)
        BY <1>1, <2>1, <2>4, <3>2 DEF l
      <4>2. Cardinality(TurnEvents(k, n, Len(log), log)) > MaxPendingEvents
        BY <2>1, <2>2, <2>3, <4>1 DEF Buffers
      <4> QED BY <1>3, <2>4, <2>6, <4>2 DEF Missed, l
    <3> QED BY <3>1, <3>2
  <2> QED BY <2>5, <2>6
<1> QED BY <1>8, <1>9 DEF now

LEMMA OwedInit == Init => OwedInv
<1> SUFFICES ASSUME Init PROVE OwedInv
  OBVIOUS
<1>1. ViewInv
  BY ViewInit
<1>2. /\ \A th \in Threads : starts[th] = {}
      /\ \A k \in Keys : states[k] = NewState /\ ThreadOf(k) \in Threads
      /\ \A h \in Streams : streams[h] = NewStream
      /\ log = <<>> /\ conn = 0 /\ Len(log) = 0
  BY DEF Init, Keys, ThreadOf
<1>3. InThePast /\ UsageRouted /\ EarlyInOrder /\ KeptForStarts
  BY <1>2 DEF InThePast, UsageRouted, EarlyInOrder, KeptForStarts, NewStream, NewState, Increasing
<1>4. KeptForReaders
  <2>1. \A k \in Keys : k # <<>>
    BY DEF Keys
  <2> QED BY <1>2, <2>1 DEF KeptForReaders, NewStream
<1>5. ReadersGiven
  BY <1>2 DEF ReadersGiven, NewStream
<1> QED BY <1>1, <1>3, <1>4, <1>5 DEF OwedInv

LEMMA OwedNext == OwedInv /\ [Next]_vars => OwedInv'
<1> SUFFICES ASSUME OwedInv, [Next]_vars PROVE OwedInv'
  OBVIOUS
<1>1. ViewInv' /\ TypeOK' /\ IInv
  BY ViewNext DEF OwedInv, ViewInv, IInv
<1>2. KeptInv'
  <2>1. CASE UNCHANGED vars
    BY <1>1, <2>1, KeptByReader
  <2>2. CASE Next
    BY <1>1, <2>2, KeptByReader, KeptByStart, KeptByOpen, KeptByRoute, KeptByFailAll DEF Next
  <2> QED BY <2>1, <2>2
<1>3. ASSUME NEW g \in Streams, streams'[g].phase \in {"open", "done"}
      PROVE  AllGiven(streams'[g], log')
  <2>1. CASE GoesOn(streams[g], streams'[g])
    BY <1>1, <1>3, <2>1, GivenToReader
  <2>2. ASSUME NEW t \in Starts, NEW turn \in Turns, Open(t, turn, g)
        PROVE  AllGiven(streams'[g], log')
    BY <1>1, <2>2, GivenByOpen
  <2> QED BY <1>1, <2>1, <2>2, ReadersStay
<1>4. ReadersGiven'
  BY <1>3 DEF ReadersGiven, AllGiven, Given, Missed
<1> QED BY <1>1, <1>2, <1>4 DEF OwedInv, KeptInv

\* A reader that was not abandoned sees every event of its turn from the
\* reservation of its start on, up to the completion: all but the results that
\* were superseded and the transient events that did not fit the buffer.
THEOREM ReadersGetResults == Spec => []ResultsComplete
<1>1. OwedInv => ResultsComplete
  BY GivenComplete DEF OwedInv, ReadersGiven
<1> QED BY <1>1, OwedInit, OwedNext, PTL DEF Spec
=============================================================================
