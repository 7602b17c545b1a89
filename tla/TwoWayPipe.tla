----------------------------- MODULE TwoWayPipe -----------------------------
(***************************************************************************)
(* What a proxied connection promises its two endpoints: each way is a     *)
(* bounded pipe that neither makes up nor loses a chunk, until the program *)
(* gives one of its two ends up.  A chunk that end has in its hands is     *)
(* gone then, one of each way at the server, one in all at the client; the *)
(* rest stays in the pipe, though it may have nobody to carry it further.  *)
(* The pipe may also break in the middle: from then on chunks in it may be *)
(* written off, and nothing is made up.                                    *)
(* ProxiedStream implements this.                                          *)
(***************************************************************************)
EXTENDS Naturals

CONSTANTS Ways,
          Capacity  \* chunks that fit into one way

VARIABLES flight,  \* [Ways -> Nat]: chunks on their way
          owed,    \* [Ways -> Nat]: chunks put in, and not taken out or written off
          cut,     \* SUBSET {"server", "client"}: the ends given up
          broken   \* has it broken?

vars == <<flight, owed, cut, broken>>

Init == /\ flight = [w \in Ways |-> 0]
        /\ owed = [w \in Ways |-> 0]
        /\ cut = {}
        /\ broken = FALSE

Put(w) ==
    /\ flight[w] < Capacity
    /\ flight' = [flight EXCEPT ![w] = @ + 1]
    /\ owed' = [owed EXCEPT ![w] = @ + 1]
    /\ UNCHANGED <<cut, broken>>

Take(w) ==
    /\ flight[w] > 0
    /\ flight' = [flight EXCEPT ![w] = @ - 1]
    /\ owed' = [owed EXCEPT ![w] = @ - 1]
    /\ UNCHANGED <<cut, broken>>

\* An end is given up, with the chunks it has in its hands.
Cut(side, held) ==
    /\ side \notin cut
    /\ held \subseteq {w \in Ways : flight[w] > 0}
    /\ side = "client" => \A v, w \in held : v = w
    /\ cut' = cut \cup {side}
    /\ flight' = [w \in Ways |-> IF w \in held THEN flight[w] - 1 ELSE flight[w]]
    /\ UNCHANGED <<owed, broken>>

\* It breaks, or has broken, and n chunks are written off.
Break(w, n) ==
    /\ broken' = TRUE
    /\ n <= flight[w]
    /\ flight' = [flight EXCEPT ![w] = @ - n]
    /\ owed' = [owed EXCEPT ![w] = @ - n]
    /\ UNCHANGED cut

Next == \/ \E side \in {"server", "client"}, held \in SUBSET Ways : Cut(side, held)
        \/ \E w \in Ways : Put(w) \/ Take(w)
        \/ \E w \in Ways, n \in 0..Capacity : Break(w, n)

Spec == Init /\ [][Next]_vars

=============================================================================
