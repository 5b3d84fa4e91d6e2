---------------------------- MODULE EventOrder ----------------------------
(***************************************************************************)
(* Sequences of events, each event being the number under which it arrived *)
(* at the router: the pure part of src/turn-event-router.ts.               *)
(***************************************************************************)
EXTENDS Integers, Sequences

RangeOf(s) == {s[i] : i \in DOMAIN s}

\* The events of S among the first max, in order of arrival: the replay set
\* sorted by sequence number.
InOrder(S, max) ==
  LET upTo[n \in 0..max] ==
        IF n = 0 THEN <<>>
        ELSE IF n \in S THEN Append(upTo[n - 1], n) ELSE upTo[n - 1]
  IN  upTo[max]

\* The longest suffix of s of at most max elements: a bounded buffer that lets
\* go of its oldest elements.
LastOf(s, max) == IF Len(s) <= max THEN s ELSE SubSeq(s, Len(s) - max + 1, Len(s))
=============================================================================
