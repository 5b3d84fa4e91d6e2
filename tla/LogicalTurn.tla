---------------------------- MODULE LogicalTurn ----------------------------
(***************************************************************************)
(* What the streams of goals promise their readers (docs/api.md, Goals):   *)
(* however many physical turns a goal takes, one turn that starts, goes on *)
(* and completes, once, or a stream that fails.                            *)
(***************************************************************************)
EXTENDS Sequences

CONSTANT Goals

VARIABLES
  events,   (* What was pushed to each stream, by kind.                    *)
  end       (* "open", "done" or "failed".                                 *)

vars == <<events, end>>

Init ==
  /\ events = [g \in Goals |-> << >>]
  /\ end = [g \in Goals |-> "open"]

Push(g, what) == events' = [events EXCEPT ![g] = Append(@, what)]

Start(g) ==
  /\ end[g] = "open" /\ events[g] = << >>
  /\ Push(g, "started")
  /\ UNCHANGED end

Continue(g) ==
  /\ end[g] = "open" /\ events[g] # << >>
  /\ Push(g, "item")
  /\ UNCHANGED end

Complete(g) ==
  /\ end[g] = "open" /\ events[g] # << >>
  /\ Push(g, "completed")
  /\ end' = [end EXCEPT ![g] = "done"]

Fail(g) ==
  /\ end[g] = "open"
  /\ end' = [end EXCEPT ![g] = "failed"]
  /\ UNCHANGED events

Next == \E g \in Goals : Start(g) \/ Continue(g) \/ Complete(g) \/ Fail(g)

Spec == Init /\ [][Next]_vars
=============================================================================
