---------------------------- MODULE VisitorQueue ----------------------------
(***************************************************************************)
(* What one client's session promises its visitors: they are served in the *)
(* order in which they were admitted, a bounded number waits and a bounded *)
(* number is served at a time, a visitor is turned away, dropped or served *)
(* but never two of these, and once the session stops nobody is served any *)
(* more and whoever waits is let go.  ProxyPool implements this.           *)
(***************************************************************************)
EXTENDS Naturals, Sequences, FiniteSets

CONSTANTS Visitors,
          Room,      \* visitors that may wait
          MaxServed  \* visitors served at a time

VARIABLES line,    \* Seq(Visitors): who waits, in order
          served,  \* SUBSET Visitors: who is being served
          over,    \* SUBSET Visitors: who was let go
          phase    \* of the session: "open", "closing" (nobody is served), "gone"

vars == <<line, served, over, phase>>

Waiting == {line[i] : i \in 1..Len(line)}
Outside == Visitors \ (Waiting \cup served \cup over)

Init == /\ line = <<>> /\ served = {} /\ over = {}
        /\ phase = "open"

Admit(v) ==
    /\ phase # "gone"
    /\ v \in Outside
    /\ Len(line) < Room
    /\ line' = Append(line, v)
    /\ UNCHANGED <<served, over, phase>>

TurnAway(them) ==
    /\ them \subseteq Outside
    /\ over' = over \cup them
    /\ UNCHANGED <<line, served, phase>>

Serve ==
    /\ phase = "open"
    /\ line # <<>>
    /\ Cardinality(served) < MaxServed
    /\ served' = served \cup {Head(line)}
    /\ line' = Tail(line)
    /\ UNCHANGED <<over, phase>>

Finish(v) ==
    /\ v \in served
    /\ served' = served \ {v}
    /\ over' = over \cup {v}
    /\ UNCHANGED <<line, phase>>

\* The session stops, of itself ...
Stop ==
    /\ phase = "open" /\ phase' = "closing"
    /\ UNCHANGED <<line, served, over>>

\* ... or because it cannot serve the first in the line, who is dropped.
Refuse ==
    /\ phase = "open" /\ phase' = "closing"
    /\ line # <<>>
    /\ over' = over \cup {Head(line)}
    /\ line' = Tail(line)
    /\ UNCHANGED served

Clear ==
    /\ phase = "closing" /\ phase' = "gone"
    /\ over' = over \cup Waiting
    /\ line' = <<>>
    /\ UNCHANGED served

Next == \/ Serve \/ Stop \/ Refuse \/ Clear
        \/ \E them \in SUBSET Visitors : TurnAway(them)
        \/ \E v \in Visitors : Admit(v) \/ Finish(v)

Spec == Init /\ [][Next]_vars

=============================================================================
