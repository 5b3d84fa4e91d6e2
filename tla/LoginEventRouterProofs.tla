----------------------- MODULE LoginEventRouterProofs -----------------------
(***************************************************************************)
(* Proofs about LoginEventRouter.  What completed is a map in the order of *)
(* insertion; KeptInOrder says that it lists the last logins of the log by *)
(* their last completion, which makes RecentKept inductive.                *)
(***************************************************************************)
EXTENDS LoginEventRouter, SequenceTheorems, FunctionTheorems, FiniteSetTheorems, TLAPS

Completions == [login : Logins, era : 1..MaxEras]

\* The logins of a sequence of completions, and of a log, from a position on.
LoginsFrom(C, k) == {C[m].login : m \in k..Len(C)}

LogFrom(g, q) == {g[j] : j \in q..Len(g)}

\* No login has two entries.
OneEntryEach(C) ==
  \A i, j \in 1..Len(C) : C[i].login = C[j].login => i = j

\* Each entry stands where its login completed last: what follows it in the
\* log is what follows it in the map.
KeptInOrder(C, g) ==
  \A k \in 1..Len(C) : \E q \in 1..Len(g) :
    g[q] = C[k].login /\ LogFrom(g, q) = LoginsFrom(C, k)

\* Only a full map lets go of a login.
GoneWhenFull(C, g) ==
  Len(C) = MaxCompleted \/ \A j \in 1..Len(g) : g[j] \in LoginsFrom(C, 1)

KeptInv ==
  /\ Len(completed) <= MaxCompleted
  /\ OneEntryEach(completed)
  /\ KeptInOrder(completed, log)
  /\ GoneWhenFull(completed, log)

\* What is kept is of the connection of the moment, and a router that failed
\* has none.
ConnectionInv ==
  /\ up => ~failure /\ era # 0
  /\ ~up => completed = << >> /\ log = << >>
  /\ \A i \in 1..Len(completed) : completed[i].era = era

IInv == TypeOK /\ NoWaiterForgotten /\ ResolvedInItsConnection /\ KeptInv /\ ConnectionInv

-----------------------------------------------------------------------------
(* Sequences.                                                              *)

\* Removing position k moves those behind it forward by one.
LEMMA RemoveAtProperties ==
  ASSUME NEW S, NEW s \in Seq(S), NEW k \in DOMAIN s
  PROVE  /\ RemoveAt(s, k) \in Seq(S)
         /\ Len(RemoveAt(s, k)) = Len(s) - 1
         /\ \A i \in 1..Len(s) - 1 : RemoveAt(s, k)[i] = s[IF i < k THEN i ELSE i + 1]
<1> DEFINE n == Len(s)
           front == SubSeq(s, 1, k - 1)
           back == SubSeq(s, k + 1, n)
<1>1. n \in Nat /\ k \in 1..n /\ k \in Int
  BY LenProperties
<1>2. \A i \in 1..n : s[i] \in S
  BY ElementOfSeq
<1>3. RemoveAt(s, k) = front \o back
  BY DEF RemoveAt
<1> HIDE DEF n
<1>4. front \in Seq(S) /\ Len(front) = k - 1 /\ \A i \in 1..k - 1 : front[i] = s[i]
  <2>1. \A i \in 1..k - 1 : s[i] \in S
    BY <1>1, <1>2
  <2>2. /\ SubSeq(s, 1, k - 1) \in Seq(S)
        /\ Len(SubSeq(s, 1, k - 1)) = IF 1 <= k - 1 THEN k - 1 - 1 + 1 ELSE 0
        /\ \A i \in 1..k - 1 - 1 + 1 : SubSeq(s, 1, k - 1)[i] = s[1 + i - 1]
    BY <1>1, <2>1, SubSeqProperties
  <2> QED BY <1>1, <2>2
<1>5. back \in Seq(S) /\ Len(back) = n - k /\ \A i \in 1..n - k : back[i] = s[k + i]
  <2>1. \A i \in k + 1..n : s[i] \in S
    BY <1>1, <1>2
  <2>2. /\ SubSeq(s, k + 1, n) \in Seq(S)
        /\ Len(SubSeq(s, k + 1, n)) = IF k + 1 <= n THEN n - (k + 1) + 1 ELSE 0
        /\ \A i \in 1..n - (k + 1) + 1 : SubSeq(s, k + 1, n)[i] = s[k + 1 + i - 1]
    BY <1>1, <2>1, SubSeqProperties
  <2> DEFINE b == SubSeq(s, k + 1, n)
  <2>3. back = b
    OBVIOUS
  <2>4. b \in Seq(S) /\ Len(b) = (IF k + 1 <= n THEN n - (k + 1) + 1 ELSE 0)
        /\ \A i \in 1..n - (k + 1) + 1 : b[i] = s[k + 1 + i - 1]
    BY <2>2
  <2> HIDE DEF b, back
  <2>5. /\ (IF k + 1 <= n THEN n - (k + 1) + 1 ELSE 0) = n - k
        /\ n - (k + 1) + 1 = n - k
        /\ \A i \in 1..n - k : k + 1 + i - 1 = k + i
    BY <1>1
  <2> QED BY <2>3, <2>4, <2>5
<1> HIDE DEF front, back
<1>6. /\ front \o back \in Seq(S)
      /\ Len(front \o back) = k - 1 + (n - k)
      /\ \A i \in 1..k - 1 + (n - k) :
           (front \o back)[i] = IF i <= k - 1 THEN front[i] ELSE back[i - (k - 1)]
  <2>1. /\ front \o back \in Seq(S)
        /\ Len(front \o back) = Len(front) + Len(back)
        /\ \A i \in 1..Len(front) + Len(back) :
             (front \o back)[i] = IF i <= Len(front) THEN front[i] ELSE back[i - Len(front)]
    BY <1>4, <1>5, ConcatProperties
  <2> QED BY <1>4, <1>5, <2>1
<1>7. ASSUME NEW i \in 1..n - 1
      PROVE  (front \o back)[i] = s[IF i < k THEN i ELSE i + 1]
  <2>1. i \in Int /\ (i < k => i \in 1..k - 1) /\ (~(i < k) => i - (k - 1) \in 1..n - k)
    BY <1>1
  <2>2. (front \o back)[i] = IF i <= k - 1 THEN front[i] ELSE back[i - (k - 1)]
    BY <1>1, <1>6
  <2> QED BY <1>1, <1>4, <1>5, <2>1, <2>2
<1>8. Len(front \o back) = n - 1
  BY <1>1, <1>6
<1> QED BY <1>3, <1>6, <1>7, <1>8 DEF n

\* What an append adds to the rest of a log.
LEMMA LogFromAppend ==
  ASSUME NEW S, NEW g \in Seq(S), NEW e \in S
  PROVE  /\ Append(g, e) \in Seq(S) /\ Len(Append(g, e)) = Len(g) + 1
         /\ \A q \in 1..Len(g) : Append(g, e)[q] = g[q]
         /\ Append(g, e)[Len(g) + 1] = e
         /\ \A q \in 1..Len(g) : LogFrom(Append(g, e), q) = LogFrom(g, q) \cup {e}
         /\ LogFrom(Append(g, e), Len(g) + 1) = {e}
<1> DEFINE n == Len(g)
           h == Append(g, e)
<1>1. /\ n \in Nat /\ h \in Seq(S) /\ Len(h) = n + 1
      /\ \A i \in 1..n : h[i] = g[i]
      /\ h[n + 1] = e
  BY AppendProperties, LenProperties
<1> HIDE DEF h, n
<1>2. LogFrom(h, n + 1) = {e}
  BY <1>1 DEF LogFrom
<1>3. ASSUME NEW q \in 1..n
      PROVE  LogFrom(h, q) = LogFrom(g, q) \cup {e}
  <2>1. \A j : j \in q..n + 1 <=> j \in q..n \/ j = n + 1
    BY <1>1
  <2>2. \A j \in q..n : h[j] = g[j]
    BY <1>1
  <2>3. LogFrom(h, q) = {h[j] : j \in q..n + 1} /\ LogFrom(g, q) = {g[j] : j \in q..n}
    BY <1>1 DEF LogFrom, n
  <2> QED BY <1>1, <2>1, <2>2, <2>3
<1> QED BY <1>1, <1>2, <1>3 DEF h, n

\* The same of the completions.
LEMMA LoginsFromAppend ==
  ASSUME NEW C \in Seq(Completions), NEW c \in Completions
  PROVE  /\ Append(C, c) \in Seq(Completions) /\ Len(Append(C, c)) = Len(C) + 1
         /\ \A k \in 1..Len(C) : Append(C, c)[k] = C[k]
         /\ Append(C, c)[Len(C) + 1] = c
         /\ \A k \in 1..Len(C) : LoginsFrom(Append(C, c), k) = LoginsFrom(C, k) \cup {c.login}
         /\ LoginsFrom(Append(C, c), Len(C) + 1) = {c.login}
<1> DEFINE n == Len(C)
           A == Append(C, c)
<1>1. /\ n \in Nat /\ A \in Seq(Completions) /\ Len(A) = n + 1
      /\ \A i \in 1..n : A[i] = C[i]
      /\ A[n + 1] = c
  BY AppendProperties, LenProperties
<1> HIDE DEF A, n
<1>2. LoginsFrom(A, n + 1) = {c.login}
  BY <1>1 DEF LoginsFrom
<1>3. ASSUME NEW k \in 1..n
      PROVE  LoginsFrom(A, k) = LoginsFrom(C, k) \cup {c.login}
  <2>1. \A j : j \in k..n + 1 <=> j \in k..n \/ j = n + 1
    BY <1>1
  <2>2. \A j \in k..n : A[j] = C[j]
    BY <1>1
  <2>3. /\ LoginsFrom(A, k) = {A[j].login : j \in k..n + 1}
        /\ LoginsFrom(C, k) = {C[j].login : j \in k..n}
    BY <1>1 DEF LoginsFrom, n
  <2> QED BY <1>1, <2>1, <2>2, <2>3
<1> QED BY <1>1, <1>2, <1>3 DEF A, n

-----------------------------------------------------------------------------
(* Map.delete and Map.set.                                                 *)

\* Deleting a login leaves the others in their order.
LEMMA DeletedKeepsOrder ==
  ASSUME completed \in Seq(Completions), OneEntryEach(completed), NEW l \in Logins
  PROVE  /\ Deleted(l) \in Seq(Completions)
         /\ OneEntryEach(Deleted(l))
         /\ l \notin LoginsFrom(Deleted(l), 1)
         /\ \A i \in 1..Len(Deleted(l)) : \E k \in 1..Len(completed) :
              /\ Deleted(l)[i] = completed[k]
              /\ LoginsFrom(Deleted(l), i) \cup {l} = LoginsFrom(completed, k) \cup {l}
         /\ LoginsFrom(Deleted(l), 1) \cup {l} = LoginsFrom(completed, 1) \cup {l}
         /\ \/ Deleted(l) = completed
            \/ Len(Deleted(l)) = Len(completed) - 1 /\ l \in LoginsFrom(completed, 1)
<1> DEFINE at == {i \in DOMAIN completed : completed[i].login = l}
           n == Len(completed)
<1>1. n \in Nat /\ DOMAIN completed = 1..n
  BY LenProperties
<1>2. \A i \in 1..n : completed[i] \in Completions
  BY ElementOfSeq
<1>3. CASE at = {}
  <2>1. Deleted(l) = completed
    BY <1>3 DEF Deleted
  <2>2. l \notin LoginsFrom(completed, 1)
    BY <1>1, <1>3 DEF LoginsFrom
  <2> QED BY <2>1, <2>2
<1>4. CASE at # {}
  <2> DEFINE r == CHOOSE i \in at : TRUE
             D == RemoveAt(completed, r)
             past(i) == IF i < r THEN i ELSE i + 1
  <2>1. r \in at
    BY <1>4
  <2>2. r \in 1..n /\ completed[r].login = l /\ r \in DOMAIN completed
    BY <1>1, <2>1
  <2>3. Deleted(l) = D
    BY <1>4 DEF Deleted
  <2> HIDE DEF r, at
  <2>4. /\ D \in Seq(Completions) /\ Len(D) = n - 1
        /\ \A i \in 1..n - 1 : D[i] = completed[past(i)]
    BY <2>2, RemoveAtProperties
  <2> HIDE DEF D, n
  <2>5. /\ \A i \in 1..n - 1 : past(i) \in 1..n /\ past(i) # r
        /\ \A i, j \in 1..n - 1 : past(i) = past(j) => i = j
        /\ \A i, j \in 1..n - 1 : i <= j <=> past(i) <= past(j)
        /\ \A k \in 1..n : k = r \/ \E i \in 1..n - 1 : past(i) = k
    <3>1. ASSUME NEW k \in 1..n, k # r
          PROVE  \E i \in 1..n - 1 : past(i) = k
      <4>1. k < r => k \in 1..n - 1 /\ past(k) = k
        BY <1>1, <2>2
      <4>2. k > r => k - 1 \in 1..n - 1 /\ past(k - 1) = k
        BY <1>1, <2>2
      <4>3. k < r \/ k > r
        BY <1>1, <2>2, <3>1
      <4> HIDE DEF past
      <4> QED BY <4>1, <4>2, <4>3
    <3> QED BY <1>1, <2>2, <3>1
  <2>6. \A k \in 1..n : k # r => completed[k].login # l
    BY <2>2 DEF OneEntryEach, n
  <2>7. ASSUME NEW i \in 1..n - 1
        PROVE  LoginsFrom(D, i) \cup {l} = LoginsFrom(completed, past(i)) \cup {l}
    <3>1. ASSUME NEW m \in i..n - 1
          PROVE  D[m].login \in LoginsFrom(completed, past(i))
      <4>1. m \in 1..n - 1 /\ past(m) \in past(i)..n
        BY <1>1, <2>2
      <4> QED BY <2>4, <4>1 DEF LoginsFrom, n
    <3>2. ASSUME NEW m \in past(i)..n
          PROVE  completed[m].login \in LoginsFrom(D, i) \cup {l}
      <4>1. m \in 1..n
        BY <1>1, <2>2
      <4>2. CASE m = r
        BY <2>2, <4>2
      <4>3. CASE m # r
        <5>1. PICK j \in 1..n - 1 : past(j) = m
          BY <2>5, <4>1, <4>3
        <5>2. j \in i..n - 1
          BY <1>1, <2>2, <5>1
        <5> QED BY <2>4, <5>1, <5>2 DEF LoginsFrom
      <4> QED BY <4>2, <4>3
    <3> QED BY <2>4, <3>1, <3>2 DEF LoginsFrom, n
  <2>8. l \notin LoginsFrom(D, 1)
    BY <2>4, <2>5, <2>6 DEF LoginsFrom
  <2>9. LoginsFrom(D, 1) \cup {l} = LoginsFrom(completed, 1) \cup {l}
    <3>1. \A m \in 1..n - 1 : D[m].login \in LoginsFrom(completed, 1)
      BY <2>4, <2>5 DEF LoginsFrom, n
    <3>2. \A m \in 1..n : completed[m].login \in LoginsFrom(D, 1) \cup {l}
      <4>1. ASSUME NEW m \in 1..n, m # r
            PROVE  completed[m].login \in LoginsFrom(D, 1)
        <5>1. PICK j \in 1..n - 1 : past(j) = m
          BY <2>5, <4>1
        <5> QED BY <2>4, <5>1 DEF LoginsFrom
      <4> QED BY <2>2, <4>1
    <3> QED BY <2>4, <3>1, <3>2 DEF LoginsFrom, n
  <2>10. OneEntryEach(D)
    <3>1. ASSUME NEW i \in 1..n - 1, NEW j \in 1..n - 1, D[i].login = D[j].login
          PROVE  i = j
      <4>1. past(i) = past(j)
        <5>1. /\ past(i) \in 1..n /\ past(j) \in 1..n
              /\ D[i] = completed[past(i)] /\ D[j] = completed[past(j)]
          BY <2>4, <2>5
        <5> HIDE DEF past
        <5> QED BY <3>1, <5>1 DEF OneEntryEach, n
      <4> QED BY <2>5, <4>1
    <3> QED BY <2>4, <3>1 DEF OneEntryEach
  <2>11. Len(D) = n - 1 /\ l \in LoginsFrom(completed, 1)
    BY <2>2, <2>4 DEF LoginsFrom, n
  <2> QED
    BY <2>3, <2>4, <2>5, <2>7, <2>8, <2>9, <2>10, <2>11 DEF n
<1> QED BY <1>3, <1>4

\* What is set after the deletion goes to the end.
LEMMA AppendedKeepsOrder ==
  ASSUME NEW D \in Seq(Completions), OneEntryEach(D), NEW g \in Seq(Logins), NEW c \in Completions,
         c.login \notin LoginsFrom(D, 1),
         NEW C \in Seq(Completions), KeptInOrder(C, g),
         \A i \in 1..Len(D) : \E k \in 1..Len(C) :
           /\ D[i] = C[k]
           /\ LoginsFrom(D, i) \cup {c.login} = LoginsFrom(C, k) \cup {c.login}
  PROVE  OneEntryEach(Append(D, c)) /\ KeptInOrder(Append(D, c), Append(g, c.login))
<1> DEFINE A == Append(D, c)
           h == Append(g, c.login)
           n == Len(D)
           t == Len(g)
<1>1. n \in Nat /\ t \in Nat /\ c.login \in Logins
  BY LenProperties DEF Completions
<1>2. /\ Len(A) = n + 1 /\ A[n + 1] = c /\ \A k \in 1..n : A[k] = D[k]
      /\ \A k \in 1..n : LoginsFrom(A, k) = LoginsFrom(D, k) \cup {c.login}
      /\ LoginsFrom(A, n + 1) = {c.login}
  BY LoginsFromAppend
<1>3. /\ Len(h) = t + 1 /\ h[t + 1] = c.login /\ \A q \in 1..t : h[q] = g[q]
      /\ \A q \in 1..t : LogFrom(h, q) = LogFrom(g, q) \cup {c.login}
      /\ LogFrom(h, t + 1) = {c.login}
  BY <1>1, LogFromAppend
<1>4. \A k : k \in 1..n + 1 <=> k \in 1..n \/ k = n + 1
  BY <1>1
<1>5. \A q \in 1..t + 1 : q \in 1..t \/ q = t + 1
  BY <1>1
<1>6. \A i \in 1..n : D[i].login # c.login
  BY DEF LoginsFrom
<1> HIDE DEF A, h
<1>7. OneEntryEach(A)
  <2>1. ASSUME NEW i \in 1..n + 1, NEW j \in 1..n + 1, A[i].login = A[j].login
        PROVE  i = j
    <3>1. CASE i \in 1..n /\ j \in 1..n
      BY <1>2, <2>1, <3>1 DEF OneEntryEach
    <3>2. CASE i = n + 1 /\ j \in 1..n
      BY <1>2, <1>6, <2>1, <3>2
    <3>3. CASE j = n + 1 /\ i \in 1..n
      BY <1>2, <1>6, <2>1, <3>3
    <3> QED BY <1>4, <3>1, <3>2, <3>3
  <2> QED BY <1>2, <2>1 DEF OneEntryEach
<1>8. KeptInOrder(A, h)
  <2>1. ASSUME NEW i \in 1..n
        PROVE  \E q \in 1..t + 1 : h[q] = A[i].login /\ LogFrom(h, q) = LoginsFrom(A, i)
    <3>1. PICK k \in 1..Len(C) :
            /\ D[i] = C[k]
            /\ LoginsFrom(D, i) \cup {c.login} = LoginsFrom(C, k) \cup {c.login}
      OBVIOUS
    <3>2. PICK q \in 1..t : g[q] = C[k].login /\ LogFrom(g, q) = LoginsFrom(C, k)
      BY DEF KeptInOrder
    <3>3. q \in 1..t + 1
      BY <1>1
    <3>4. h[q] = A[i].login
      BY <1>2, <1>3, <3>1, <3>2
    <3>5. LogFrom(h, q) = LoginsFrom(A, i)
      <4>1. LogFrom(h, q) = LogFrom(g, q) \cup {c.login}
        BY <1>3
      <4>2. LoginsFrom(A, i) = LoginsFrom(D, i) \cup {c.login}
        BY <1>2
      <4> QED BY <3>1, <3>2, <4>1, <4>2
    <3> QED BY <3>3, <3>4, <3>5
  <2>2. t + 1 \in 1..t + 1
    BY <1>1
  <2>3. \E q \in 1..t + 1 : h[q] = A[n + 1].login /\ LogFrom(h, q) = LoginsFrom(A, n + 1)
    BY <1>2, <1>3, <2>2
  <2> QED BY <1>2, <1>3, <1>4, <2>1, <2>3 DEF KeptInOrder
<1> QED BY <1>7, <1>8 DEF A, h

\* Letting go of the oldest keeps the order of the others.
LEMMA TailKeepsOrder ==
  ASSUME NEW A \in Seq(Completions), A # << >>, OneEntryEach(A), NEW g \in Seq(Logins), KeptInOrder(A, g)
  PROVE  /\ Tail(A) \in Seq(Completions) /\ Len(Tail(A)) = Len(A) - 1
         /\ OneEntryEach(Tail(A)) /\ KeptInOrder(Tail(A), g)
<1> DEFINE T == Tail(A)
           n == Len(A)
<1>1. /\ n \in Nat \ {0} /\ T \in Seq(Completions) /\ Len(T) = n - 1
      /\ \A i \in 1..Len(T) : T[i] = A[i + 1]
  BY EmptySeq, LenProperties, HeadTailProperties
<1> HIDE DEF T, n
<1>2. OneEntryEach(T)
  <2>1. ASSUME NEW i \in 1..n - 1, NEW j \in 1..n - 1, T[i].login = T[j].login
        PROVE  i = j
    <3>1. i + 1 \in 1..n /\ j + 1 \in 1..n
      BY <1>1
    <3>2. A[i + 1].login = A[j + 1].login
      BY <1>1, <2>1
    <3>3. i + 1 = j + 1
      BY <3>1, <3>2 DEF OneEntryEach, n
    <3> QED BY <1>1, <3>3
  <2> QED BY <1>1, <2>1 DEF OneEntryEach
<1>3. ASSUME NEW k \in 1..n - 1
      PROVE  LoginsFrom(T, k) = LoginsFrom(A, k + 1)
  <2>1. ASSUME NEW m \in k..n - 1
        PROVE  T[m].login \in LoginsFrom(A, k + 1)
    <3>1. m + 1 \in k + 1..n /\ m \in 1..n - 1
      BY <1>1
    <3> QED BY <1>1, <3>1 DEF LoginsFrom, n
  <2>2. ASSUME NEW m \in k + 1..n
        PROVE  A[m].login \in LoginsFrom(T, k)
    <3>1. m - 1 \in k..n - 1 /\ m - 1 \in 1..n - 1 /\ m = (m - 1) + 1
      BY <1>1
    <3>2. T[m - 1] = A[m]
      BY <1>1, <3>1
    <3> QED BY <1>1, <3>1, <3>2 DEF LoginsFrom
  <2>3. LoginsFrom(T, k) = {T[m].login : m \in k..n - 1} /\ LoginsFrom(A, k + 1) = {A[m].login : m \in k + 1..n}
    BY <1>1 DEF LoginsFrom, n
  <2> QED BY <2>1, <2>2, <2>3
<1>4. KeptInOrder(T, g)
  <2>1. ASSUME NEW k \in 1..n - 1
        PROVE  \E q \in 1..Len(g) : g[q] = T[k].login /\ LogFrom(g, q) = LoginsFrom(T, k)
    <3>1. k + 1 \in 1..n
      BY <1>1
    <3>2. PICK q \in 1..Len(g) : g[q] = A[k + 1].login /\ LogFrom(g, q) = LoginsFrom(A, k + 1)
      BY <3>1 DEF KeptInOrder, n
    <3> QED BY <1>1, <1>3, <3>2
  <2> QED BY <1>1, <2>1 DEF KeptInOrder
<1> QED BY <1>1, <1>2, <1>4 DEF T, n

\* A completion that is routed keeps the map in the order of the log.
LEMMA KeptPreserves ==
  ASSUME completed \in Seq(Completions), log \in Seq(Logins), KeptInv, NEW c \in Completions
  PROVE  /\ Kept(c) \in Seq(Completions) /\ Len(Kept(c)) <= MaxCompleted
         /\ OneEntryEach(Kept(c)) /\ KeptInOrder(Kept(c), Append(log, c.login))
         /\ GoneWhenFull(Kept(c), Append(log, c.login))
<1> DEFINE l == c.login
           D == Deleted(l)
           A == Append(D, c)
           h == Append(log, l)
           n == Len(completed)
           d == Len(D)
           M == MaxCompleted
<1>1. l \in Logins /\ M \in Nat \ {0}
  BY LoginAssumption DEF Completions
<1>2. /\ D \in Seq(Completions) /\ OneEntryEach(D) /\ l \notin LoginsFrom(D, 1)
      /\ \A i \in 1..Len(D) : \E k \in 1..Len(completed) :
           D[i] = completed[k] /\ LoginsFrom(D, i) \cup {l} = LoginsFrom(completed, k) \cup {l}
      /\ LoginsFrom(D, 1) \cup {l} = LoginsFrom(completed, 1) \cup {l}
      /\ \/ D = completed
         \/ d = n - 1 /\ l \in LoginsFrom(completed, 1)
  BY <1>1, DeletedKeepsOrder DEF KeptInv
<1>3. Kept(c) = IF Len(A) > M THEN Tail(A) ELSE A
  BY DEF Kept
<1> HIDE DEF D
<1>4. n \in Nat /\ d \in Nat /\ n <= M /\ (D = completed => d = n)
  BY <1>2, LenProperties DEF KeptInv
<1>5. A \in Seq(Completions) /\ Len(A) = d + 1
  BY <1>2, LoginsFromAppend
<1>6. OneEntryEach(A) /\ KeptInOrder(A, h)
  <2> HIDE DEF l
  <2>1. c.login = l
    BY DEF l
  <2>2. /\ OneEntryEach(D) /\ KeptInOrder(completed, log) /\ c.login \notin LoginsFrom(D, 1)
        /\ \A i \in 1..Len(D) : \E k \in 1..Len(completed) :
             D[i] = completed[k] /\ LoginsFrom(D, i) \cup {c.login} = LoginsFrom(completed, k) \cup {c.login}
    BY <1>2, <2>1 DEF KeptInv
  <2> QED BY <1>2, <2>1, <2>2, AppendedKeepsOrder
<1>7. LoginsFrom(A, 1) = LoginsFrom(completed, 1) \cup {l}
  <2>1. d = 0 \/ 1 \in 1..d
    BY <1>4
  <2>2. CASE d = 0
    <3>1. LoginsFrom(D, 1) = {}
      BY <2>2 DEF LoginsFrom
    <3>2. LoginsFrom(A, d + 1) = {l}
      BY <1>2, LoginsFromAppend
    <3> QED BY <1>2, <2>2, <3>1, <3>2
  <2>3. CASE 1 \in 1..d
    <3>1. LoginsFrom(A, 1) = LoginsFrom(D, 1) \cup {l}
      BY <1>2, <2>3, LoginsFromAppend
    <3> QED BY <1>2, <3>1
  <2> QED BY <2>1, <2>2, <2>3
<1>8. h \in Seq(Logins) /\ Len(h) = Len(log) + 1 /\ h[Len(log) + 1] = l /\ \A j \in 1..Len(log) : h[j] = log[j]
  BY <1>1, LogFromAppend
<1>9. CASE d + 1 <= M
  <2>1. Kept(c) = A
    BY <1>1, <1>3, <1>4, <1>5, <1>9
  <2>2. GoneWhenFull(A, h)
    <3>1. CASE Len(A) = M
      BY <3>1 DEF GoneWhenFull
    <3>2. CASE Len(A) # M
      <4>1. n # M
        BY <1>1, <1>2, <1>4, <1>5, <1>9, <3>2
      <4>2. \A j \in 1..Len(log) : log[j] \in LoginsFrom(completed, 1)
        BY <4>1 DEF KeptInv, GoneWhenFull
      <4>3. \A j \in 1..Len(log) + 1 : j \in 1..Len(log) \/ j = Len(log) + 1
        BY LenProperties
      <4>4. \A j \in 1..Len(log) + 1 : h[j] \in LoginsFrom(A, 1)
        <5> HIDE DEF A, h
        <5> QED BY <1>7, <1>8, <4>2, <4>3
      <4> QED BY <1>8, <4>4 DEF GoneWhenFull
    <3> QED BY <3>1, <3>2
  <2> QED BY <1>5, <1>6, <1>9, <2>1, <2>2
<1>10. CASE ~(d + 1 <= M)
  <2>1. d = M /\ Len(A) > M /\ A # << >>
    BY <1>1, <1>2, <1>4, <1>5, <1>10, EmptySeq
  <2>2. Kept(c) = Tail(A)
    BY <1>3, <2>1
  <2>3. /\ Tail(A) \in Seq(Completions) /\ Len(Tail(A)) = Len(A) - 1
        /\ OneEntryEach(Tail(A)) /\ KeptInOrder(Tail(A), h)
    <3> HIDE DEF A, h
    <3> QED BY <1>5, <1>6, <1>8, <2>1, TailKeepsOrder
  <2>4. Len(Tail(A)) = M
    BY <1>1, <1>5, <2>1, <2>3
  <2> QED BY <1>1, <2>2, <2>3, <2>4 DEF GoneWhenFull
<1> QED BY <1>9, <1>10

\* What is kept was kept before, or has just come.
LEMMA KeptFromBefore ==
  ASSUME completed \in Seq(Completions), log \in Seq(Logins), KeptInv, NEW c \in Completions
  PROVE  \A i \in 1..Len(Kept(c)) : Kept(c)[i] = c \/ \E k \in 1..Len(completed) : Kept(c)[i] = completed[k]
<1> DEFINE D == Deleted(c.login)
           A == Append(D, c)
           here(e) == e = c \/ \E k \in 1..Len(completed) : e = completed[k]
<1>1. D \in Seq(Completions) /\ \A i \in 1..Len(D) : here(D[i])
  BY DeletedKeepsOrder DEF KeptInv, Completions
<1>2. Kept(c) = IF Len(A) > MaxCompleted THEN Tail(A) ELSE A
  BY DEF Kept
<1> HIDE DEF D
<1>3. /\ A \in Seq(Completions) /\ Len(A) = Len(D) + 1 /\ Len(D) \in Nat
      /\ \A i \in 1..Len(D) : A[i] = D[i]
      /\ A[Len(D) + 1] = c
  BY <1>1, LoginsFromAppend, LenProperties
<1>4. \A i \in 1..Len(D) + 1 : i \in 1..Len(D) \/ i = Len(D) + 1
  BY <1>3
<1>5. here(c)
  OBVIOUS
<1> HIDE DEF A, here
<1>6. \A i \in 1..Len(A) : here(A[i])
  BY <1>1, <1>3, <1>4, <1>5
<1>7. A # << >> /\ Len(Tail(A)) = Len(A) - 1 /\ \A i \in 1..Len(Tail(A)) : Tail(A)[i] = A[i + 1]
  BY <1>3, EmptySeq, HeadTailProperties
<1>8. \A i \in 1..Len(Tail(A)) : i + 1 \in 1..Len(A)
  BY <1>3, <1>7
<1>9. \A i \in 1..Len(Kept(c)) : here(Kept(c)[i])
  BY <1>2, <1>6, <1>7, <1>8
<1> QED BY <1>9 DEF here

-----------------------------------------------------------------------------
(* Invariance.                                                             *)

LEMMA InitInv ==
  ASSUME Init
  PROVE  IInv
<1>1. completed = << >> /\ log = << >> /\ Len(completed) = 0 /\ Len(log) = 0
  BY EmptySeq DEF Init
<1>2. MaxEras \in Nat /\ MaxCompleted \in Nat
  BY LoginAssumption
<1>3. TypeOK
  <2>1. completed \in Seq([login : Logins, era : 1..MaxEras]) /\ log \in Seq(Logins)
    BY <1>1, EmptySeq
  <2>2. waiters \subseteq Waits /\ failure \in BOOLEAN /\ up \in BOOLEAN
    BY Zenon DEF Init
  <2>4. era \in 0..MaxEras
    BY <1>2 DEF Init
  <2>3. Promise(NoLogin, "none", NoCompletion, 0) \in
          [login : Logins \cup {NoLogin}, state : {"none", "pending", "resolved", "rejected"},
           got : [login : Logins, era : 1..MaxEras] \cup {NoCompletion}, at : 0..MaxEras]
    BY <1>2 DEF Promise
  <2> QED BY <2>1, <2>2, <2>3, <2>4 DEF Init, TypeOK
<1>4. NoWaiterForgotten /\ ResolvedInItsConnection
  BY DEF Init, NoWaiterForgotten, ResolvedInItsConnection, Promise
<1>5. KeptInv
  BY <1>1, <1>2 DEF KeptInv, OneEntryEach, KeptInOrder, GoneWhenFull
<1>6. ConnectionInv
  BY <1>1 DEF Init, ConnectionInv
<1> QED BY <1>3, <1>4, <1>5, <1>6 DEF IInv

\* Without completions, and without a log, there is nothing to keep.
LEMMA EmptyKept ==
  ASSUME completed' = << >>, log' = << >>
  PROVE  KeptInv'
<1>1. Len(completed') = 0 /\ Len(log') = 0 /\ MaxCompleted \in Nat
  BY EmptySeq, LoginAssumption
<1>2. \A i : i \notin 1..0
  OBVIOUS
<1>3. OneEntryEach(completed') /\ KeptInOrder(completed', log')
  BY <1>1, <1>2 DEF OneEntryEach, KeptInOrder
<1>4. GoneWhenFull(completed', log')
  BY <1>1, <1>2 DEF GoneWhenFull
<1>5. Len(completed') <= MaxCompleted
  BY <1>1
<1> QED BY <1>3, <1>4, <1>5 DEF KeptInv

LEMMA KeptUnchanged ==
  ASSUME KeptInv, UNCHANGED <<completed, log>>
  PROVE  KeptInv'
BY DEF KeptInv

\* The promises after some of them are settled.
LEMMA Settled ==
  ASSUME TypeOK, NEW which, NEW state \in {"resolved", "rejected"},
         NEW got \in Completions \cup {NoCompletion}, Settle(which, state, got)
  PROVE  /\ waits' \in [Waits -> [login : Logins \cup {NoLogin},
                                  state : {"none", "pending", "resolved", "rejected"},
                                  got : Completions \cup {NoCompletion}, at : 0..MaxEras]]
         /\ \A w \in Waits : w \notin which => waits'[w] = waits[w]
         /\ \A w \in Waits : w \in which =>
              /\ waits'[w].login = waits[w].login /\ waits'[w].state = state
              /\ waits'[w].got = got /\ waits'[w].at = Now
<1>1. MaxEras \in Nat /\ Now \in 0..MaxEras
  BY LoginAssumption DEF TypeOK, Now
<1>2. \A w \in Waits : Promise(waits[w].login, state, got, Now) \in
        [login : Logins \cup {NoLogin}, state : {"none", "pending", "resolved", "rejected"},
         got : Completions \cup {NoCompletion}, at : 0..MaxEras]
  BY <1>1 DEF TypeOK, Promise, Completions
<1> QED BY <1>2 DEF Settle, TypeOK, Promise, Completions

LEMMA RouteInv ==
  ASSUME IInv, NEW l \in Logins, Route(l)
  PROVE  IInv'
<1> DEFINE c == Completion(l, era)
           which == {w \in waiters : waits[w].login = l}
           K == Kept(c)
<1>1. c \in Completions /\ c.login = l /\ c.era = era /\ up /\ ~failure
  BY LoginAssumption DEF IInv, TypeOK, ConnectionInv, Route, Completion, Completions
<1>2. /\ completed \in Seq(Completions) /\ log \in Seq(Logins) /\ KeptInv
  BY DEF IInv, TypeOK, Completions
<1>3. /\ completed' = K /\ log' = Append(log, l) /\ waiters' = waiters \ which
      /\ UNCHANGED <<failure, era, up>> /\ Settle(which, "resolved", c)
  BY DEF Route
<1>4. /\ K \in Seq(Completions) /\ Len(K) <= MaxCompleted
      /\ OneEntryEach(K) /\ KeptInOrder(K, Append(log, l)) /\ GoneWhenFull(K, Append(log, l))
  BY <1>1, <1>2, KeptPreserves
<1>5. /\ waits' \in [Waits -> [login : Logins \cup {NoLogin},
                               state : {"none", "pending", "resolved", "rejected"},
                               got : Completions \cup {NoCompletion}, at : 0..MaxEras]]
      /\ \A w \in Waits : w \notin which => waits'[w] = waits[w]
      /\ \A w \in Waits : w \in which =>
           /\ waits'[w].login = waits[w].login /\ waits'[w].state = "resolved"
           /\ waits'[w].got = c /\ waits'[w].at = Now
  <2> HIDE DEF c, which
  <2> QED BY <1>1, <1>3, Settled DEF IInv
\* What is kept was kept before, or is the completion.
<1>6. \A i \in 1..Len(K) : K[i] = c \/ \E k \in 1..Len(completed) : K[i] = completed[k]
  BY <1>1, <1>2, KeptFromBefore
<1> HIDE DEF K, c, which
<1>7. TypeOK'
  <2>1. log' \in Seq(Logins)
    BY <1>2, <1>3, AppendProperties
  <2> QED BY <1>3, <1>4, <1>5, <2>1 DEF IInv, TypeOK, Completions
<1>8. NoWaiterForgotten'
  <2>1. \A w \in Waits : (waits[w].state = "pending" <=> w \in waiters)
    BY DEF IInv, NoWaiterForgotten
  <2>2. \A w \in Waits : (waits'[w].state = "pending" <=> w \in waiters')
    BY <1>3, <1>5, <2>1
  <2>3. \A w \in waiters' : w \in Waits /\ w \in waiters /\ waits[w].login # l /\ waits'[w] = waits[w]
    BY <1>3, <1>5 DEF IInv, TypeOK, which
  <2>4. \A w \in waiters' : \A i \in 1..Len(K) : K[i].login # waits'[w].login
    <3>1. \A w \in waiters : \A i \in 1..Len(completed) : completed[i].login # waits[w].login
      BY <1>2, LenProperties DEF IInv, NoWaiterForgotten
    <3> QED BY <1>1, <1>6, <2>3, <3>1
  <2>5. DOMAIN K = 1..Len(K)
    BY <1>4, LenProperties
  <2> QED BY <1>1, <1>3, <2>2, <2>4, <2>5 DEF NoWaiterForgotten
<1>9. ResolvedInItsConnection'
  <2>1. Now = era
    BY <1>1 DEF Now
  <2>2. ASSUME NEW w \in Waits, waits'[w].state = "resolved"
        PROVE  waits'[w].got = Completion(waits'[w].login, waits'[w].at)
    <3>1. CASE w \in which
      BY <1>5, <2>1, <3>1 DEF c, which
    <3>2. CASE w \notin which
      BY <1>5, <2>2, <3>2 DEF IInv, ResolvedInItsConnection
    <3> QED BY <3>1, <3>2
  <2> QED BY <2>2 DEF ResolvedInItsConnection
<1>10. KeptInv'
  BY <1>3, <1>4 DEF KeptInv
<1>11. ConnectionInv'
  <2>1. \A i \in 1..Len(K) : K[i].era = era
    BY <1>1, <1>6 DEF IInv, ConnectionInv
  <2> QED BY <1>1, <1>3, <2>1 DEF IInv, ConnectionInv
<1> QED BY <1>7, <1>8, <1>9, <1>10, <1>11 DEF IInv

LEMMA WaitInv ==
  ASSUME IInv, NEW w \in Waits, NEW l \in Logins, Wait(w, l)
  PROVE  IInv'
<1> DEFINE known == {d \in ToSet(completed) : d.login = l}
           d == CHOOSE e \in known : TRUE
<1>1. UNCHANGED <<completed, failure, era, up, log>> /\ waits[w].state = "none"
  BY DEF Wait
<1>2. /\ completed \in Seq(Completions) /\ DOMAIN completed = 1..Len(completed)
      /\ \A i \in 1..Len(completed) : completed[i] \in Completions
  BY LenProperties, ElementOfSeq DEF IInv, TypeOK, Completions
<1>3. /\ waits' = [waits EXCEPT ![w] =
           IF known # {} THEN Promise(l, "resolved", d, Now)
           ELSE IF failure THEN Promise(l, "rejected", NoCompletion, Now)
           ELSE Promise(l, "pending", NoCompletion, 0)]
      /\ waiters' = IF known = {} /\ ~failure THEN waiters \cup {w} ELSE waiters
  BY DEF Wait
<1>4. known # {} => /\ d \in Completions /\ d.login = l /\ d.era = era /\ up
  <2>1. \A e \in known : e.login = l /\ \E i \in 1..Len(completed) : e = completed[i]
    BY <1>2 DEF ToSet
  <2>2. ~up => Len(completed) = 0
    BY EmptySeq DEF IInv, ConnectionInv
  <2> QED BY <1>2, <2>1, <2>2 DEF IInv, ConnectionInv
<1>5. known = {} => \A i \in 1..Len(completed) : completed[i].login # l
  BY <1>2 DEF ToSet
<1> HIDE DEF known, d
<1>6. Now \in 0..MaxEras /\ MaxEras \in Nat
  BY LoginAssumption DEF IInv, TypeOK, Now
<1>7. w \notin waiters
  BY <1>1 DEF IInv, NoWaiterForgotten
<1>8. TypeOK'
  <2> DEFINE P == [login : Logins \cup {NoLogin}, state : {"none", "pending", "resolved", "rejected"},
                   got : Completions \cup {NoCompletion}, at : 0..MaxEras]
             p == IF known # {} THEN Promise(l, "resolved", d, Now)
                  ELSE IF failure THEN Promise(l, "rejected", NoCompletion, Now)
                  ELSE Promise(l, "pending", NoCompletion, 0)
  <2>1. p \in P
    BY <1>4, <1>6 DEF Promise
  <2>2. waits \in [Waits -> P] /\ waits' = [waits EXCEPT ![w] = p]
    BY <1>3 DEF IInv, TypeOK, Completions
  <2>3. waits' \in [Waits -> P]
    <3> HIDE DEF P, p
    <3> QED BY <2>1, <2>2
  <2> QED BY <1>1, <1>3, <2>3 DEF IInv, TypeOK, Completions
<1>9. NoWaiterForgotten'
  <2>1. /\ \A v \in Waits : waits[v].state = "pending" <=> v \in waiters
        /\ waiters # {} => ~failure
        /\ \A v \in waiters : \A i \in DOMAIN completed : completed[i].login # waits[v].login
        /\ waiters \subseteq Waits /\ DOMAIN waits = Waits
    BY DEF IInv, TypeOK, NoWaiterForgotten
  <2>2. \A v \in Waits : v # w => waits'[v] = waits[v]
    BY <1>3, <2>1
  <2>3. CASE known = {} /\ ~failure
    <3>1. waits'[w].state = "pending" /\ waits'[w].login = l /\ waiters' = waiters \cup {w}
      BY <1>3, <2>1, <2>3 DEF Promise
    <3> QED BY <1>1, <1>2, <1>5, <2>1, <2>2, <2>3, <3>1 DEF NoWaiterForgotten
  <2>4. CASE ~(known = {} /\ ~failure)
    <3>1. waits'[w].state # "pending" /\ waiters' = waiters
      BY <1>3, <2>1, <2>4 DEF Promise
    <3> QED BY <1>1, <1>7, <2>1, <2>2, <2>4, <3>1 DEF NoWaiterForgotten
  <2> QED BY <2>3, <2>4
<1>10. ResolvedInItsConnection'
  <2>1. DOMAIN waits = Waits
    BY DEF IInv, TypeOK
  <2>2. \A v \in Waits : v # w => waits'[v] = waits[v]
    BY <1>3, <2>1
  <2>3. ASSUME waits'[w].state = "resolved"
        PROVE  waits'[w].got = Completion(waits'[w].login, waits'[w].at)
    <3>1. known # {} /\ waits'[w] = Promise(l, "resolved", d, Now)
      BY <1>3, <2>1, <2>3 DEF Promise
    <3>2. d = Completion(l, Now)
      BY <1>4, <3>1 DEF Completions, Completion, Now
    <3> QED BY <3>1, <3>2 DEF Promise
  <2> QED BY <2>2, <2>3 DEF IInv, ResolvedInItsConnection
<1>11. KeptInv' /\ ConnectionInv'
  BY <1>1, KeptUnchanged DEF IInv, ConnectionInv
<1> QED BY <1>8, <1>9, <1>10, <1>11 DEF IInv

LEMMA GiveUpInv ==
  ASSUME IInv, NEW w \in Waits, GiveUp(w)
  PROVE  IInv'
<1>1. /\ w \in waiters /\ waiters' = waiters \ {w} /\ UNCHANGED <<completed, failure, era, up, log>>
      /\ Settle({w}, "rejected", NoCompletion)
  BY DEF GiveUp
<1>2. /\ waits' \in [Waits -> [login : Logins \cup {NoLogin},
                               state : {"none", "pending", "resolved", "rejected"},
                               got : Completions \cup {NoCompletion}, at : 0..MaxEras]]
      /\ \A v \in Waits : v # w => waits'[v] = waits[v]
      /\ waits'[w].state = "rejected"
  <2> DEFINE P == [login : Logins \cup {NoLogin}, state : {"none", "pending", "resolved", "rejected"},
                   got : Completions \cup {NoCompletion}, at : 0..MaxEras]
  <2>1. /\ waits' \in [Waits -> P]
        /\ \A v \in Waits : v \notin {w} => waits'[v] = waits[v]
        /\ \A v \in Waits : v \in {w} => waits'[v].state = "rejected"
    BY <1>1, Settled DEF IInv
  <2> HIDE DEF P
  <2>2. /\ \A v \in Waits : v # w => waits'[v] = waits[v]
        /\ waits'[w].state = "rejected"
    BY <2>1
  <2> QED BY <2>1, <2>2 DEF P
<1>3. TypeOK'
  BY <1>1, <1>2 DEF IInv, TypeOK, Completions
<1>4. NoWaiterForgotten'
  BY <1>1, <1>2 DEF IInv, TypeOK, NoWaiterForgotten
<1>5. ResolvedInItsConnection'
  BY <1>2 DEF IInv, ResolvedInItsConnection
<1>6. KeptInv' /\ ConnectionInv'
  BY <1>1, KeptUnchanged DEF IInv, ConnectionInv
<1> QED BY <1>3, <1>4, <1>5, <1>6 DEF IInv

LEMMA FailAllInv ==
  ASSUME IInv, FailAll
  PROVE  IInv'
<1>1. /\ failure' = TRUE /\ waiters' = {} /\ completed' = << >>
      /\ up' = FALSE /\ log' = << >> /\ era' = era
      /\ Settle(waiters, "rejected", NoCompletion)
  BY DEF FailAll
<1>2. /\ waits' \in [Waits -> [login : Logins \cup {NoLogin},
                               state : {"none", "pending", "resolved", "rejected"},
                               got : Completions \cup {NoCompletion}, at : 0..MaxEras]]
      /\ \A v \in Waits : v \notin waiters => waits'[v] = waits[v]
      /\ \A v \in Waits : v \in waiters => waits'[v].state = "rejected"
  BY <1>1, Settled DEF IInv
<1>3. TypeOK'
  BY <1>1, <1>2, EmptySeq DEF IInv, TypeOK, Completions
<1>4. NoWaiterForgotten'
  BY <1>1, <1>2 DEF IInv, NoWaiterForgotten
<1>5. ResolvedInItsConnection'
  BY <1>2 DEF IInv, ResolvedInItsConnection
<1>6. KeptInv'
  BY <1>1, EmptyKept
<1>7. ConnectionInv'
  BY <1>1, EmptySeq DEF ConnectionInv
<1> QED BY <1>3, <1>4, <1>5, <1>6, <1>7 DEF IInv

LEMMA ResetInv ==
  ASSUME IInv, Reset
  PROVE  IInv'
<1>1. /\ failure' = FALSE /\ completed' = << >> /\ up' = TRUE /\ era' = era + 1 /\ log' = << >>
      /\ UNCHANGED <<waiters, waits>> /\ era < MaxEras /\ era \in Nat
  BY DEF IInv, TypeOK, Reset
<1>2. DOMAIN completed' = {} /\ Len(completed') = 0
  BY <1>1, EmptySeq, LenProperties
<1>3. TypeOK'
  <2>1. era' \in 0..MaxEras
    BY <1>1, LoginAssumption
  <2> QED BY <1>1, <2>1, EmptySeq DEF IInv, TypeOK
<1>4. NoWaiterForgotten'
  BY <1>1, <1>2 DEF IInv, NoWaiterForgotten
<1>5. ResolvedInItsConnection'
  BY <1>1 DEF IInv, ResolvedInItsConnection
<1>6. KeptInv'
  BY <1>1, EmptyKept
<1>7. ConnectionInv'
  BY <1>1, <1>2 DEF ConnectionInv
<1> QED BY <1>3, <1>4, <1>5, <1>6, <1>7 DEF IInv

\* The invariant holds of every state, for any logins, waits and limits.
THEOREM LoginInvariance == Spec => []IInv
<1>1. Init => IInv
  BY InitInv
<1>2. IInv /\ [Next]_vars => IInv'
  <2> SUFFICES ASSUME IInv, [Next]_vars
               PROVE  IInv'
    OBVIOUS
  <2>1. CASE FailAll
    BY <2>1, FailAllInv
  <2>2. CASE Reset
    BY <2>2, ResetInv
  <2>3. CASE \E l \in Logins : Route(l)
    BY <2>3, RouteInv
  <2>4. CASE \E w \in Waits : GiveUp(w) \/ \E l \in Logins : Wait(w, l)
    BY <2>4, GiveUpInv, WaitInv
  <2>5. CASE UNCHANGED vars
    <3>1. UNCHANGED <<completed, waiters, failure, waits, era, up, log>>
      BY <2>5 DEF vars
    <3>2. TypeOK' /\ NoWaiterForgotten' /\ ResolvedInItsConnection' /\ ConnectionInv'
      BY <3>1 DEF IInv, TypeOK, NoWaiterForgotten, ResolvedInItsConnection, ConnectionInv
    <3> QED BY <3>1, <3>2, KeptUnchanged DEF IInv
  <2> QED BY <2>1, <2>2, <2>3, <2>4, <2>5 DEF Next
<1> QED BY <1>1, <1>2, PTL DEF Spec

\* The map, the waiters and the promises keep their types.
THEOREM TypeCorrect == Spec => []TypeOK
<1>1. IInv => TypeOK
  BY DEF IInv
<1> QED BY <1>1, LoginInvariance, PTL

\* A pending wait is registered with a router that has not failed, for a login
\* that has not completed (login.ts:94-101, 162-172).
THEOREM WaitersAnswered == Spec => []NoWaiterForgotten
<1>1. IInv => NoWaiterForgotten
  BY DEF IInv
<1> QED BY <1>1, LoginInvariance, PTL

\* A wait is resolved by the completion of its own login, on the connection of
\* the moment (login.ts:171, 176).
THEOREM ResolvedByItsOwn == Spec => []ResolvedInItsConnection
<1>1. IInv => ResolvedInItsConnection
  BY DEF IInv
<1> QED BY <1>1, LoginInvariance, PTL

-----------------------------------------------------------------------------
(* What is kept.                                                           *)

\* The map holds as many logins as entries.
LEMMA LoginsCounted ==
  ASSUME NEW C \in Seq(Completions), OneEntryEach(C)
  PROVE  IsFiniteSet(LoginsFrom(C, 1)) /\ Cardinality(LoginsFrom(C, 1)) = Len(C)
<1> DEFINE n == Len(C)
           f == [i \in 1..n |-> C[i].login]
           S == LoginsFrom(C, 1)
<1>1. n \in Nat
  BY LenProperties
<1>2. f \in Bijection(1..n, S)
  <2>1. f \in [1..n -> S] /\ \A e \in S : \E i \in 1..n : f[i] = e
    BY DEF LoginsFrom
  <2>2. \A i, j \in 1..n : f[i] = f[j] => i = j
    BY DEF OneEntryEach
  <2> QED BY <2>1, <2>2, Fun_IsBij
<1>3. IsFiniteSet(1..n) /\ Cardinality(1..n) = n
  BY <1>1, FS_Interval
<1>4. ExistsBijection(1..n, S)
  BY <1>2 DEF ExistsBijection
<1> QED BY <1>3, <1>4, FS_Bijection

\* A login that is kept has completed with at most MaxCompleted logins since,
\* and one that is not has completed with more.
LEMMA KeptExactly ==
  ASSUME TypeOK, KeptInv, NEW l \in Logins
  PROVE  (\E i \in DOMAIN completed : completed[i].login = l)
           <=> \E i \in DOMAIN log :
                 log[i] = l /\ Cardinality({log[j] : j \in i..Len(log)}) <= MaxCompleted
<1> DEFINE S == LoginsFrom(completed, 1)
           n == Len(completed)
           t == Len(log)
           M == MaxCompleted
<1>1. /\ completed \in Seq(Completions) /\ n \in Nat /\ DOMAIN completed = 1..n
      /\ t \in Nat /\ DOMAIN log = 1..t /\ M \in Nat \ {0} /\ n <= M
  BY LenProperties, LoginAssumption DEF TypeOK, KeptInv, Completions
<1>2. IsFiniteSet(S) /\ Cardinality(S) = n
  BY <1>1, LoginsCounted DEF KeptInv
<1>3. l \in S <=> \E i \in DOMAIN completed : completed[i].login = l
  BY <1>1 DEF LoginsFrom
<1>4. \A q \in 1..t : {log[j] : j \in q..Len(log)} = LogFrom(log, q)
  BY DEF LogFrom
<1>5. ASSUME NEW k \in 1..n
      PROVE  LoginsFrom(completed, k) \subseteq S
  <2>1. \A m \in k..n : m \in 1..n
    BY <1>1
  <2> QED BY <2>1 DEF LoginsFrom
<1> HIDE DEF S, n, t
<1>6. ASSUME l \in S
      PROVE  \E i \in 1..t : log[i] = l /\ Cardinality(LogFrom(log, i)) <= M
  <2>1. PICK k \in 1..n : completed[k].login = l
    BY <1>1, <1>3, <1>6
  <2>2. PICK q \in 1..t : log[q] = l /\ LogFrom(log, q) = LoginsFrom(completed, k)
    BY <2>1 DEF KeptInv, KeptInOrder, n, t
  <2>3. Cardinality(LogFrom(log, q)) <= n /\ Cardinality(LogFrom(log, q)) \in Nat
    BY <1>2, <1>5, <2>2, FS_Subset, FS_CardinalityType
  <2>4. Cardinality(LogFrom(log, q)) <= M
    BY <1>1, <2>3
  <2> QED BY <2>2, <2>4
<1>7. ASSUME NEW i \in 1..t, log[i] = l, l \notin S
      PROVE  ~(Cardinality(LogFrom(log, i)) <= M)
  <2> DEFINE later == LogFrom(log, i)
  <2>1. n = M
    BY <1>7 DEF KeptInv, GoneWhenFull, S, n, t
  <2>2. ASSUME NEW k \in 1..n
        PROVE  completed[k].login \in later
    <3>1. PICK q \in 1..t : log[q] = completed[k].login /\ LogFrom(log, q) = LoginsFrom(completed, k)
      BY DEF KeptInv, KeptInOrder, n, t
    <3>2. i \in q..t => l \in LogFrom(log, q)
      BY <1>7 DEF LogFrom, t
    <3>3. i \notin q..t
      BY <1>5, <1>7, <3>1, <3>2
    <3>4. q \in i..t
      BY <1>1, <3>3
    <3> QED BY <3>1, <3>4 DEF LogFrom, t
  <2>3. l \in later
    <3>1. i \in i..t
      BY <1>1
    <3> QED BY <1>7, <3>1 DEF LogFrom, t
  <2>4. S \cup {l} \subseteq later
    BY <2>2, <2>3 DEF S, LoginsFrom, n
  <2>5. IsFiniteSet(later) /\ Cardinality(later) \in Nat
    <3> DEFINE f == [j \in i..t |-> log[j]]
    <3>1. IsFiniteSet(i..t)
      BY <1>1, FS_Interval
    <3>2. f \in Surjection(i..t, later)
      <4>1. f \in [i..t -> later] /\ \A e \in later : \E j \in i..t : f[j] = e
        BY DEF LogFrom, t
      <4> QED BY <4>1, Fun_IsSurj
    <3> QED BY <3>1, <3>2, FS_Surjection, FS_CardinalityType
  <2>6. IsFiniteSet(S \cup {l}) /\ Cardinality(S \cup {l}) = n + 1
    BY <1>2, <1>7, FS_AddElement
  <2>7. n + 1 <= Cardinality(later)
    <3> HIDE DEF later
    <3> QED BY <2>4, <2>5, <2>6, FS_Subset
  <2> QED BY <1>1, <2>1, <2>5, <2>7
<1>8. l \in S <=> \E i \in 1..t : log[i] = l /\ Cardinality(LogFrom(log, i)) <= M
  BY <1>6, <1>7
<1> QED BY <1>1, <1>3, <1>4, <1>8

\* A login that completed is kept until MaxCompleted others have completed
\* since, and no longer, for any log (login.ts:88-93).
THEOREM RecentAreKept == Spec => []RecentKept
<1>1. IInv => RecentKept
  BY KeptExactly DEF IInv, RecentKept
<1> QED BY <1>1, LoginInvariance, PTL
=============================================================================
