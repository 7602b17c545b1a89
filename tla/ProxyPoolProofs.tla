--------------------------- MODULE ProxyPoolProofs ---------------------------
(***************************************************************************)
(* Proofs about ProxyPool, for any number of visitors and ports and any    *)
(* channel capacity, connection limit and stream limits.                   *)
(*                                                                         *)
(* Held says where visitors are and what the channel holds; it is          *)
(* inductive.  On top of it the counter is exact: a step moves a visitor   *)
(* into or out of the counted places only together with the counter, and   *)
(* Receive, which moves the visitor at the head of the channel, moves one  *)
(* that is "queued".  Only then is the counter known to be a number.       *)
(*                                                                         *)
(* That the pool implements VisitorQueue follows from Held, and from the   *)
(* fact that whoever is served has a stream (Streamed).                    *)
(***************************************************************************)
EXTENDS ProxyPool, FiniteSetTheorems, TLAPS

\* TypeOK without the counter.
Shape == /\ visitor \in [Visitors -> Place]
         /\ loop \in [Loops -> {"running", "ended"}]
         /\ queue \in Seq(Visitors)
         /\ Len(queue) <= Capacity
         /\ driver \in {"select", "opening", "closing", "gone"}
         /\ stream \in [Visitors -> {"none", "unacked", "acked"}]

Held == Shape /\ HandedOverOnce

LEMMA HeldInit == Init => Held
BY BoundsAssumption DEF Init, Held, Shape, Place, HandedOverOnce, In

\* A step that leaves the channel and the driver alone and moves no visitor
\* into or out of the places those two keep.
Elsewhere == /\ UNCHANGED <<queue, driver>>
             /\ \A v \in Visitors : visitor'[v] # visitor[v] =>
                   {visitor[v], visitor'[v]} \cap {"queued", "opening"} = {}

LEMMA ElsewhereKeeps == HandedOverOnce /\ Elsewhere => HandedOverOnce'
<1> SUFFICES ASSUME HandedOverOnce, Elsewhere PROVE HandedOverOnce'
  OBVIOUS
<1>1. In({"queued"})' = In({"queued"}) /\ In({"opening"})' = In({"opening"})
  BY DEF Elsewhere, In
<1> QED
  BY <1>1 DEF HandedOverOnce, Elsewhere

LEMMA HeldEnqueue == ASSUME NEW v \in Visitors, Held, Enqueue(v) PROVE Held'
<1>1. Shape'
  BY BoundsAssumption DEF Held, Shape, Enqueue, Move, Place
<1>2. v \notin {queue[i] : i \in 1..Len(queue)}
  BY DEF Held, HandedOverOnce, Enqueue, In
<1>3. /\ queue' = Append(queue, v) /\ queue \in Seq(Visitors) /\ Len(queue) \in Nat
      /\ Len(queue') = Len(queue) + 1 /\ queue'[Len(queue) + 1] = v
      /\ \A i \in 1..Len(queue) : queue'[i] = queue[i]
  BY DEF Held, Shape, Enqueue
<1>4. \A i, j \in 1..Len(queue') : queue'[i] = queue'[j] => i = j
  BY <1>2, <1>3 DEF Held, HandedOverOnce
<1>5. In({"queued"})' = In({"queued"}) \cup {v}
  BY DEF Held, Shape, Enqueue, Move, In
<1>6. {queue'[i] : i \in 1..Len(queue')} = {queue[i] : i \in 1..Len(queue)} \cup {v}
  BY <1>3
<1>7. In({"opening"})' = In({"opening"}) /\ driver' = driver
  BY DEF Held, Shape, Enqueue, Move, In
<1> QED
  BY <1>1, <1>4, <1>5, <1>6, <1>7 DEF Held, HandedOverOnce

LEMMA HeadQueued == ASSUME Held, queue # <<>> PROVE /\ Head(queue) \in Visitors
                                                    /\ Head(queue) = queue[1]
                                                    /\ visitor[Head(queue)] = "queued"
<1>1. Len(queue) \in Nat \ {0} /\ Head(queue) = queue[1] /\ 1 \in 1..Len(queue)
  BY DEF Held, Shape
<1> QED
  BY <1>1 DEF Held, Shape, HandedOverOnce, In

LEMMA HeldReceive == Held /\ Receive => Held'
<1> SUFFICES ASSUME Held, Receive PROVE Held'
  OBVIOUS
<1> DEFINE h == Head(queue)
<1>1. h \in Visitors /\ h = queue[1] /\ visitor[h] = "queued"
  BY HeadQueued DEF Receive
<1>2. /\ queue' \in Seq(Visitors) /\ Len(queue) \in Nat \ {0}
      /\ Len(queue') = Len(queue) - 1
      /\ \A i \in 1..Len(queue') : queue'[i] = queue[i + 1]
  BY DEF Held, Shape, Receive
<1>3. visitor' = [visitor EXCEPT ![h] = "opening"] /\ driver = "select" /\ driver' = "opening"
  BY DEF Receive, Move
<1>4. Shape'
  BY <1>1, <1>2, <1>3, BoundsAssumption DEF Held, Shape, Receive, Place
<1>5. \A i, j \in 1..Len(queue') : queue'[i] = queue'[j] => i = j
  BY <1>2 DEF Held, HandedOverOnce
<1>6. In({"queued"})' = In({"queued"}) \ {h}
  BY <1>1, <1>3 DEF Held, Shape, In
<1>7. {queue'[i] : i \in 1..Len(queue')} = {queue[i] : i \in 1..Len(queue)} \ {h}
  <2>1. \A i \in 1..Len(queue') : i + 1 \in 1..Len(queue) /\ i + 1 # 1
    BY <1>2
  <2>2. \A i \in 1..Len(queue') : queue'[i] # h
    BY <2>1, <1>1, <1>2 DEF Held, HandedOverOnce
  <2>3. \A i \in 1..Len(queue) : i # 1 => i - 1 \in 1..Len(queue') /\ queue'[i - 1] = queue[i]
    BY <1>2
  <2> QED
    BY <2>1, <2>2, <2>3, <1>1, <1>2
<1>8. In({"opening"})' = {h}
  BY <1>1, <1>3 DEF Held, Shape, HandedOverOnce, In
<1> QED
  BY <1>3, <1>4, <1>5, <1>6, <1>7, <1>8 DEF Held, HandedOverOnce

LEMMA HeldOpen == ASSUME NEW v \in Visitors, Held, Open(v) PROVE Held'
<1>1. visitor[v] = "opening" /\ In({"opening"}) = {v}
  BY DEF Held, HandedOverOnce, Open, OpenStream, OpenRefused, In
<1>2. Shape'
  BY DEF Held, Shape, Open, OpenStream, OpenRefused, Move, Place
<1>3. /\ visitor' = [visitor EXCEPT ![v] = visitor'[v]]
      /\ visitor'[v] \in {"spawned", "closed"}
      /\ queue' = queue /\ driver' # "opening"
  BY DEF Held, Shape, Open, OpenStream, OpenRefused, Move
<1>4. In({"queued"})' = In({"queued"}) /\ In({"opening"})' = {}
  BY <1>1, <1>3 DEF Held, Shape, In
<1> QED
  BY <1>2, <1>3, <1>4 DEF Held, HandedOverOnce

LEMMA HeldDropped == Held /\ ReceiverDropped => Held'
<1> SUFFICES ASSUME Held, ReceiverDropped PROVE Held'
  OBVIOUS
<1>1. Shape'
  BY BoundsAssumption DEF Held, Shape, ReceiverDropped, Place
<1>2. In({"queued"})' = {} /\ In({"opening"})' = {}
  BY DEF Held, Shape, HandedOverOnce, ReceiverDropped, In
<1>3. queue' = <<>> /\ driver' = "gone"
  BY DEF ReceiverDropped
<1> QED
  BY <1>1, <1>2, <1>3 DEF Held, HandedOverOnce

LEMMA HeldStep == Held /\ [Next]_vars => Held'
<1> SUFFICES ASSUME Held, [Next]_vars PROVE Held'
  OBVIOUS
<1> USE DEF Held
<1>1. ASSUME NEW v \in Visitors, Accept(v) PROVE Held'
  BY <1>1, ElsewhereKeeps DEF Accept, Move, Shape, Place, Elsewhere
<1>2. ASSUME NEW v \in Visitors, SendTimesOut(v) \/ SendFails(v) PROVE Held'
  BY <1>2, ElsewhereKeeps DEF SendTimesOut, SendFails, Move, Shape, Place, Elsewhere
<1>3. ASSUME NEW l \in Loops, LoopEnds(l) PROVE Held'
  BY <1>3, ElsewhereKeeps DEF LoopEnds, Shape, Place, Elsewhere
<1>4. ASSUME NEW v \in Visitors, Inbound(v) PROVE Held'
  BY <1>4, ElsewhereKeeps DEF Inbound, Shape, Elsewhere
<1>5. ASSUME NEW v \in Visitors, TaskStarts(v) \/ ConnectionDone(v) \/ TaskEnds(v) PROVE Held'
  BY <1>5, ElsewhereKeeps DEF TaskStarts, ConnectionDone, TaskEnds, Move, Shape, Place, Elsewhere
<1>6. CASE ConnectionEnds
  <2>1. In({"queued"})' = In({"queued"}) /\ In({"opening"})' = In({"opening"})
    BY <1>6 DEF ConnectionEnds, In
  <2> QED
    BY <1>6, <2>1 DEF ConnectionEnds, Shape, HandedOverOnce
<1>7. CASE UNCHANGED vars
  BY <1>7, ElsewhereKeeps DEF vars, Shape, Elsewhere
<1> QED
  BY <1>1, <1>2, <1>3, <1>4, <1>5, <1>6, <1>7,
     HeldEnqueue, HeldReceive, HeldOpen, HeldDropped DEF Next, Send

-----------------------------------------------------------------------------
(* The counter.                                                            *)

Served == In({"proxied", "ended"})

LEMMA ServedFinite == IsFiniteSet(Served) /\ Cardinality(Served) \in Nat
<1>1. Served \subseteq Visitors
  BY DEF Served, In
<1>2. IsFiniteSet(Served)
  BY <1>1, VisitorsAssumption, FS_Subset
<1> QED
  BY <1>2, FS_CardinalityType

Exact == active = Cardinality(Served)

LEMMA ExactInit == Init => Exact
<1> SUFFICES ASSUME Init PROVE Exact
  OBVIOUS
<1>1. Served = {}
  BY DEF Init, Served, In
<1> QED
  BY <1>1, FS_EmptySet DEF Init, Exact

LEMMA ExactStarts == ASSUME NEW v \in Visitors, Held, Exact, TaskStarts(v) PROVE Exact'
<1>1. v \notin Served /\ Served' = Served \cup {v}
  BY DEF Held, Shape, TaskStarts, Move, Served, In
<1>2. Cardinality(Served') = Cardinality(Served) + 1
  BY <1>1, ServedFinite, FS_AddElement
<1> QED
  BY <1>2 DEF Exact, TaskStarts

LEMMA ExactEnds == ASSUME NEW v \in Visitors, Held, Exact, TaskEnds(v) PROVE Exact'
<1>1. v \in Served /\ Served' = Served \ {v}
  BY DEF Held, Shape, TaskEnds, Move, Served, In
<1>2. Cardinality(Served') = Cardinality(Served) - 1
  BY <1>1, ServedFinite, FS_RemoveElement
<1> QED
  BY <1>2 DEF Exact, TaskEnds

\* A step that leaves the counter alone and counts nobody in or out.
Uncounted == /\ UNCHANGED active
             /\ \A v \in Visitors : visitor'[v] \in {"proxied", "ended"}
                                        <=> visitor[v] \in {"proxied", "ended"}

LEMMA UncountedKeeps == Exact /\ Uncounted => Exact'
<1> SUFFICES ASSUME Exact, Uncounted PROVE Exact'
  OBVIOUS
<1>1. Served' = Served
  BY DEF Uncounted, Served, In
<1> QED
  BY <1>1 DEF Exact, Uncounted

LEMMA ExactStep == Held /\ Exact /\ [Next]_vars => Exact'
<1> SUFFICES ASSUME Held, Exact, [Next]_vars PROVE Exact'
  OBVIOUS
<1> USE DEF Held, Shape
<1>1. ASSUME NEW v \in Visitors, Accept(v) PROVE Uncounted
  BY <1>1 DEF Accept, Move, Uncounted
<1>2. ASSUME NEW v \in Visitors, Send(v) PROVE Uncounted
  BY <1>2 DEF Send, Enqueue, SendTimesOut, SendFails, Move, Uncounted
<1>3. ASSUME NEW l \in Loops, LoopEnds(l) PROVE Uncounted
  BY <1>3 DEF LoopEnds, Uncounted
<1>4. ASSUME Receive PROVE Uncounted
  BY <1>4, HeadQueued DEF Receive, Move, Uncounted
<1>5. ASSUME NEW v \in Visitors, Open(v) \/ Inbound(v) PROVE Uncounted
  BY <1>5 DEF Open, OpenStream, OpenRefused, Inbound, Move, Uncounted
<1>6. ASSUME ConnectionEnds \/ ReceiverDropped PROVE Uncounted
  BY <1>6 DEF ConnectionEnds, ReceiverDropped, Uncounted
<1>7. ASSUME NEW v \in Visitors, ConnectionDone(v) PROVE Uncounted
  BY <1>7 DEF ConnectionDone, Move, Uncounted
<1>8. ASSUME UNCHANGED vars PROVE Uncounted
  BY <1>8 DEF vars, Uncounted
<1> HIDE DEF Held, Shape
<1> QED
  BY <1>1, <1>2, <1>3, <1>4, <1>5, <1>6, <1>7, <1>8,
     UncountedKeeps, ExactStarts, ExactEnds DEF Next

-----------------------------------------------------------------------------
LEMMA Inductive == Spec => [](Held /\ Exact)
<1>1. Init => Held /\ Exact
  BY HeldInit, ExactInit
<1>2. Held /\ Exact /\ [Next]_vars => (Held /\ Exact)'
  BY HeldStep, ExactStep
<1> QED
  BY <1>1, <1>2, PTL DEF Spec

\* Type correctness; the channel never holds more than its capacity, and the
\* counter never goes below zero (session.rs:57-61).
THEOREM PoolTypeCorrect == Spec => []TypeOK
<1>1. Held /\ Exact => TypeOK
  BY ServedFinite DEF Held, Shape, Exact, TypeOK
<1> QED
  BY <1>1, Inductive, PTL

\* A visitor is dropped or served, never both (listener.rs:263, session.rs:49).
THEOREM HandOverSafe == Spec => []HandedOverOnce
<1>1. Held /\ Exact => HandedOverOnce
  BY DEF Held
<1> QED
  BY <1>1, Inductive, PTL

\* The connection counter is exact: fetch_add and fetch_sub enclose every
\* proxied connection, however sessions and loops end (session.rs:57-61).
THEOREM CounterSafe == Spec => []CountExact
<1>1. Held /\ Exact => CountExact
  BY DEF Exact, CountExact, Served
<1> QED
  BY <1>1, Inductive, PTL

-----------------------------------------------------------------------------
(* The refinement: the pool is a VisitorQueue.                             *)

\* Whoever is served has a stream, until the connection goes.
Streamed == driver # "gone" =>
                In({"spawned", "proxied"}) \subseteq Streams({"unacked", "acked"})

LEMMA StreamedStep == Held /\ Streamed /\ [Next]_vars => Streamed'
<1> SUFFICES ASSUME Held, Streamed, [Next]_vars, driver' # "gone",
                    NEW v \in Visitors, visitor'[v] \in {"spawned", "proxied"}
             PROVE  stream'[v] \in {"unacked", "acked"}
  BY DEF Streamed, In, Streams
<1> USE DEF Held, Shape, Streamed, In, Streams
<1>1. ASSUME NEW w \in Visitors, Accept(w) \/ Send(w)
      PROVE  stream'[v] \in {"unacked", "acked"}
  BY <1>1 DEF Accept, Send, Enqueue, SendTimesOut, SendFails, Move
<1>2. ASSUME NEW l \in Loops, LoopEnds(l) PROVE stream'[v] \in {"unacked", "acked"}
  BY <1>2 DEF LoopEnds
<1>3. CASE Receive
  BY <1>3, HeadQueued DEF Receive, Move
<1>4. ASSUME NEW w \in Visitors, OpenStream(w) PROVE stream'[v] \in {"unacked", "acked"}
  <2>1. driver # "gone"
    BY <1>4 DEF HandedOverOnce, OpenStream
  <2> QED
    BY <1>4, <2>1 DEF OpenStream, Move
<1>5. ASSUME NEW w \in Visitors, OpenRefused(w) PROVE stream'[v] \in {"unacked", "acked"}
  <2>1. driver # "gone"
    BY <1>5 DEF HandedOverOnce, OpenRefused
  <2> QED
    BY <1>5, <2>1 DEF OpenRefused, Move
<1>6. ASSUME NEW w \in Visitors, Inbound(w) PROVE stream'[v] \in {"unacked", "acked"}
  BY <1>6 DEF Inbound
<1>7. CASE ConnectionEnds \/ ReceiverDropped
  BY <1>7 DEF ConnectionEnds, ReceiverDropped
<1>8. ASSUME NEW w \in Visitors, TaskStarts(w) \/ ConnectionDone(w) \/ TaskEnds(w)
      PROVE  stream'[v] \in {"unacked", "acked"}
  BY <1>8 DEF TaskStarts, ConnectionDone, TaskEnds, Move
<1>9. CASE UNCHANGED vars
  BY <1>9 DEF vars
<1> QED
  BY <1>1, <1>2, <1>3, <1>4, <1>5, <1>6, <1>7, <1>8, <1>9 DEF Next, Open

LEMMA SameCardinality == \A S : Service!Cardinality(S) = Cardinality(S)
BY DEF Service!Cardinality, Cardinality

\* The line as a sequence: the channel, behind the visitor being opened for.
LineShape == /\ driver # "opening" => InLine = queue /\ In({"opening"}) = {}
             /\ \A v \in In({"opening"}) : /\ driver = "opening"
                                          /\ In({"opening"}) = {v}
                                          /\ InLine = <<v>> \o queue

LEMMA LineIs == Held => LineShape
<1> SUFFICES ASSUME Held PROVE LineShape
  OBVIOUS
<1>1. driver # "opening" => InLine = queue /\ In({"opening"}) = {}
  <2>1. ASSUME driver # "opening" PROVE InLine = <<>> \o queue /\ In({"opening"}) = {}
    BY <2>1 DEF InLine, Held, HandedOverOnce
  <2>2. <<>> \o queue = queue
    BY DEF Held, Shape
  <2> QED
    BY <2>1, <2>2
<1>2. ASSUME NEW v \in In({"opening"})
      PROVE  driver = "opening" /\ In({"opening"}) = {v} /\ InLine = <<v>> \o queue
  <2>1. driver = "opening" /\ In({"opening"}) = {v}
    BY DEF Held, HandedOverOnce
  <2>2. (CHOOSE w \in Visitors : visitor[w] = "opening") = v
    <3>1. v \in Visitors /\ visitor[v] = "opening"
      BY DEF In
    <3>2. \A w \in Visitors : visitor[w] = "opening" => w = v
      BY <2>1 DEF In
    <3> QED
      BY <3>1, <3>2
  <2> QED
    BY <2>1, <2>2 DEF InLine
<1> QED
  BY <1>1, <1>2 DEF LineShape

LEMMA LineIsNext == Held' => LineShape'
BY LineIs, PTL

\* Those who wait are the ones in the channel and the one the driver has.
LEMMA WhoWaits == Held => Service!Waiting = In({"queued", "opening"})
<1> SUFFICES ASSUME Held PROVE Service!Waiting = In({"queued", "opening"})
  OBVIOUS
<1>1. In({"queued", "opening"}) = In({"queued"}) \cup In({"opening"})
  BY DEF In
<1>2. In({"queued"}) = {queue[i] : i \in 1..Len(queue)} /\ queue \in Seq(Visitors)
      /\ Len(queue) \in Nat
  BY DEF Held, Shape, HandedOverOnce
<1>3. CASE driver = "opening"
  <2>1. PICK v \in In({"opening"}) : TRUE
    BY <1>3 DEF Held, HandedOverOnce
  <2>2. InLine = <<v>> \o queue /\ In({"opening"}) = {v} /\ v \in Visitors
    BY LineIs DEF LineShape, In
  <2>3. /\ Len(InLine) = Len(queue) + 1 /\ InLine[1] = v
        /\ \A i \in 1..Len(queue) : InLine[i + 1] = queue[i]
    BY <1>2, <2>2
  <2>4. {InLine[i] : i \in 1..Len(InLine)} = {v} \cup {queue[i] : i \in 1..Len(queue)}
    <3>1. \A i \in 1..Len(InLine) : i = 1 \/ (i - 1 \in 1..Len(queue) /\ InLine[i] = queue[i - 1])
      BY <1>2, <2>3
    <3>2. 1 \in 1..Len(InLine) /\ \A i \in 1..Len(queue) : i + 1 \in 1..Len(InLine)
      BY <1>2, <2>3
    <3> QED
      BY <2>3, <3>1, <3>2
  <2> QED
    BY <1>1, <1>2, <2>2, <2>4 DEF Service!Waiting
<1>4. CASE driver # "opening"
  <2>1. InLine = queue /\ In({"opening"}) = {}
    BY <1>4, LineIs DEF LineShape
  <2> QED
    BY <1>1, <1>2, <2>1 DEF Service!Waiting
<1> QED
  BY <1>3, <1>4

LEMMA WhoIsOutside == Held => Service!Outside = In({"away", "sending"})
BY WhoWaits DEF Held, Shape, Place, Service!Outside, In

Phase == IF driver \in {"closing", "gone"} THEN driver ELSE "open"

\* A step that leaves line, services and ends alone.
LEMMA Stutters ==
    ASSUME InLine' = InLine, Phase' = Phase,
           In({"spawned", "proxied"})' = In({"spawned", "proxied"}),
           In({"ended", "closed"})' = In({"ended", "closed"})
    PROVE  UNCHANGED Service!vars
BY DEF Service!vars, Phase

LEMMA LineKept ==
    ASSUME Held, Held', UNCHANGED <<queue, driver>>,
           \A v \in Visitors : visitor'[v] = "opening" <=> visitor[v] = "opening"
    PROVE  InLine' = InLine
<1>1. LineShape /\ LineShape' /\ In({"opening"})' = In({"opening"})
  BY LineIs, LineIsNext DEF In
<1>2. CASE driver = "opening"
  <2>1. PICK v \in In({"opening"}) : TRUE
    BY <1>2 DEF Held, HandedOverOnce
  <2>2. InLine = <<v>> \o queue
    BY <1>1 DEF LineShape
  <2>3. InLine' = <<v>> \o queue'
    BY <1>1 DEF LineShape
  <2> QED
    BY <2>2, <2>3
<1>3. CASE driver # "opening"
  BY <1>1, <1>3 DEF LineShape
<1> QED
  BY <1>2, <1>3

\* Visitors who were not admitted are let go, all at once.
LEMMA TurnsAway ==
    ASSUME Held, Held', UNCHANGED <<queue, driver>>, NEW them \in SUBSET In({"away", "sending"}),
           \A v \in Visitors : visitor'[v] = IF v \in them THEN "closed" ELSE visitor[v]
    PROVE  Service!TurnAway(them)
<1>1. them \subseteq Service!Outside
  BY WhoIsOutside
<1>2. InLine' = InLine
  BY LineKept DEF In
<1>3. /\ In({"spawned", "proxied"})' = In({"spawned", "proxied"})
      /\ In({"ended", "closed"})' = In({"ended", "closed"}) \cup them
  BY DEF In
<1> QED
  BY <1>1, <1>2, <1>3 DEF Service!TurnAway

LEMMA ServeStep ==
    ASSUME Held, Held', Streamed, NEW v \in Visitors, OpenStream(v)
    PROVE  Service!Serve
<1>1. driver = "opening" /\ InLine = <<v>> \o queue /\ driver' = "select" /\ queue' = queue
  BY LineIs DEF LineShape, OpenStream, In
<1>2. InLine # <<>> /\ Head(InLine) = v /\ Tail(InLine) = queue
  BY <1>1 DEF Held, Shape
<1>3. InLine' = queue
  BY <1>1, LineIsNext DEF LineShape
<1>4. /\ In({"spawned", "proxied"})' = In({"spawned", "proxied"}) \cup {v}
      /\ In({"ended", "closed"})' = In({"ended", "closed"})
  BY DEF Held, Shape, OpenStream, Move, In
<1>5. Cardinality(In({"spawned", "proxied"})) < MaxStreams
  <2> DEFINE used == In({"spawned", "proxied"})
             streams == Streams({"unacked", "acked"})
  <2>1. used \subseteq streams
    BY <1>1 DEF Streamed
  <2>2. IsFiniteSet(streams)
    BY VisitorsAssumption, FS_Subset DEF Streams
  <2>3. /\ Cardinality(used) \in Nat /\ Cardinality(streams) \in Nat
        /\ Cardinality(used) <= Cardinality(streams)
    BY <2>1, <2>2, FS_Subset, FS_CardinalityType
  <2>4. Cardinality(streams) < MaxStreams
    BY DEF OpenStream
  <2> QED
    BY <2>3, <2>4, BoundsAssumption
<1> QED
  BY <1>1, <1>2, <1>3, <1>4, <1>5, SameCardinality DEF Service!Serve

LEMMA ServiceStep ==
    Held /\ Held' /\ Streamed /\ [Next]_vars => [Service!Next]_(Service!vars)
<1> SUFFICES ASSUME Held, Held', Streamed, [Next]_vars
             PROVE  Service!Next \/ UNCHANGED Service!vars
  OBVIOUS
<1> USE DEF Phase
<1>0. driver' # "opening" => InLine' = queue'
  BY LineIsNext DEF LineShape
<1>1. ASSUME NEW v \in Visitors, Accept(v) PROVE Service!Next \/ UNCHANGED Service!vars
  <2>1. UNCHANGED <<queue, driver>> /\ visitor[v] = "away"
        /\ visitor' = [visitor EXCEPT ![v] = visitor'[v]]
        /\ visitor'[v] \in {"closed", "sending"}
    BY <1>1 DEF Accept, Move, Held, Shape
  <2>2. CASE visitor'[v] = "closed"
    <3>1. Service!TurnAway({v})
      BY <2>1, <2>2, TurnsAway DEF In, Held, Shape
    <3> QED
      BY <3>1 DEF Service!Next
  <2>3. CASE visitor'[v] = "sending"
    <3>1. InLine' = InLine
      BY <2>1, <2>3, LineKept DEF Held, Shape
    <3>2. /\ In({"spawned", "proxied"})' = In({"spawned", "proxied"})
          /\ In({"ended", "closed"})' = In({"ended", "closed"})
      BY <2>1, <2>3 DEF In, Held, Shape
    <3> QED
      BY <2>1, <3>1, <3>2, Stutters
  <2> QED
    BY <2>1, <2>2, <2>3
<1>2. ASSUME NEW v \in Visitors, Enqueue(v) PROVE Service!Next
  <2>1. /\ queue' = Append(queue, v) /\ driver' = driver /\ driver # "gone"
        /\ Len(queue) < Capacity /\ visitor[v] = "sending"
        /\ visitor' = [visitor EXCEPT ![v] = "queued"]
    BY <1>2 DEF Enqueue, Move
  <2>2. InLine' = Append(InLine, v) /\ Len(InLine) < Capacity + 1
    <3>1. CASE driver = "opening"
      <4>1. PICK w \in In({"opening"}) : TRUE
        BY <3>1 DEF Held, HandedOverOnce
      <4>2. InLine = <<w>> \o queue /\ w \in Visitors
        BY LineIs DEF LineShape, In
      <4>3. InLine' = <<w>> \o queue'
        <5>1. \A u \in Visitors : visitor'[u] = "opening" <=> visitor[u] = "opening"
          BY <2>1 DEF Held, Shape
        <5>2. In({"opening"})' = In({"opening"})
          BY <5>1 DEF In
        <5> QED
          BY <4>1, <5>2, LineIsNext DEF LineShape
      <4> QED
        BY <2>1, <4>2, <4>3, BoundsAssumption DEF Held, Shape
    <3>2. CASE driver # "opening"
      BY <1>0, <2>1, <3>2, LineIs, BoundsAssumption DEF LineShape, Held, Shape
    <3> QED
      BY <3>1, <3>2
  <2>3. v \in Service!Outside
    BY <2>1, WhoIsOutside DEF In
  <2>4. /\ In({"spawned", "proxied"})' = In({"spawned", "proxied"})
        /\ In({"ended", "closed"})' = In({"ended", "closed"})
    BY <2>1 DEF In, Held, Shape
  <2>5. Service!Admit(v)
    BY <2>1, <2>2, <2>3, <2>4 DEF Service!Admit
  <2> QED
    BY <2>5 DEF Service!Next
<1>3. ASSUME NEW v \in Visitors, SendTimesOut(v) \/ SendFails(v) PROVE Service!Next
  <2>1. UNCHANGED <<queue, driver>> /\ visitor[v] = "sending"
        /\ visitor' = [visitor EXCEPT ![v] = "closed"]
    BY <1>3 DEF SendTimesOut, SendFails, Move
  <2>2. Service!TurnAway({v})
    BY <2>1, TurnsAway DEF In, Held, Shape
  <2> QED
    BY <2>2 DEF Service!Next
<1>4. ASSUME NEW l \in Loops, LoopEnds(l) PROVE Service!Next
  <2> DEFINE them == {v \in Visitors : visitor[v] = "sending" /\ PortOf[v] = l}
  <2>1. /\ them \in SUBSET In({"away", "sending"}) /\ UNCHANGED <<queue, driver>>
        /\ \A v \in Visitors : visitor'[v] = IF v \in them THEN "closed" ELSE visitor[v]
    BY <1>4 DEF LoopEnds, In
  <2>2. Service!TurnAway(them)
    BY <2>1, TurnsAway
  <2> QED
    BY <2>2 DEF Service!Next
<1>5. ASSUME Receive PROVE UNCHANGED Service!vars
  <2> DEFINE h == Head(queue)
  <2>1. h \in Visitors /\ visitor[h] = "queued" /\ visitor' = [visitor EXCEPT ![h] = "opening"]
    BY <1>5, HeadQueued DEF Receive, Move
  <2>2. h \in In({"opening"})'
    BY <2>1 DEF In, Held, Shape
  <2>3. InLine' = <<h>> \o queue'
    BY <2>2, LineIsNext DEF LineShape
  <2>4. InLine = queue /\ queue # <<>> /\ queue' = Tail(queue)
    BY <1>5, LineIs DEF LineShape, Receive
  <2>5. <<h>> \o Tail(queue) = queue
    BY <2>4 DEF Held, Shape
  <2>6. /\ In({"spawned", "proxied"})' = In({"spawned", "proxied"})
        /\ In({"ended", "closed"})' = In({"ended", "closed"})
    BY <2>1 DEF In, Held, Shape
  <2>7. Phase' = Phase
    BY <1>5 DEF Receive
  <2> QED
    BY <2>3, <2>4, <2>5, <2>6, <2>7, Stutters
<1>6. ASSUME NEW v \in Visitors, OpenStream(v) PROVE Service!Next
  BY <1>6, ServeStep DEF Service!Next
<1>7. ASSUME NEW v \in Visitors, OpenRefused(v) PROVE Service!Next
  <2>1. /\ driver = "opening" /\ InLine = <<v>> \o queue
        /\ driver' = "closing" /\ queue' = queue
    BY <1>7, LineIs DEF LineShape, OpenRefused, In
  <2>2. InLine # <<>> /\ Head(InLine) = v /\ Tail(InLine) = queue
    BY <2>1 DEF Held, Shape
  <2>3. InLine' = queue
    BY <1>0, <2>1
  <2>4. /\ In({"spawned", "proxied"})' = In({"spawned", "proxied"})
        /\ In({"ended", "closed"})' = In({"ended", "closed"}) \cup {v}
    BY <1>7 DEF Held, Shape, OpenRefused, Move, In
  <2>5. Service!Refuse
    BY <2>1, <2>2, <2>3, <2>4 DEF Service!Refuse
  <2> QED
    BY <2>5 DEF Service!Next
<1>8. ASSUME NEW v \in Visitors, Inbound(v) PROVE UNCHANGED Service!vars
  <2>1. UNCHANGED <<visitor, queue, driver>>
    BY <1>8 DEF Inbound
  <2> QED
    BY <2>1, LineKept, Stutters DEF In
<1>9. ASSUME ConnectionEnds PROVE Service!Next
  <2>1. driver = "select" /\ driver' = "closing" /\ UNCHANGED <<visitor, queue>>
    BY <1>9 DEF ConnectionEnds
  <2>2. InLine' = InLine
    BY <1>0, <2>1, LineIs DEF LineShape
  <2>3. Service!Stop
    BY <2>1, <2>2 DEF Service!Stop, In
  <2> QED
    BY <2>3 DEF Service!Next
<1>10. ASSUME ReceiverDropped PROVE Service!Next
  <2>1. driver = "closing" /\ driver' = "gone" /\ queue' = <<>> /\ InLine' = <<>>
    BY <1>0, <1>10 DEF ReceiverDropped
  <2>2. Service!Waiting = In({"queued"})
    BY <2>1, WhoWaits, LineIs DEF LineShape, In
  <2>3. /\ In({"spawned", "proxied"})' = In({"spawned", "proxied"})
        /\ In({"ended", "closed"})' = In({"ended", "closed"}) \cup In({"queued"})
    BY <1>10 DEF ReceiverDropped, In
  <2>4. Service!Clear
    BY <2>1, <2>2, <2>3 DEF Service!Clear
  <2> QED
    BY <2>4 DEF Service!Next
<1>11. ASSUME NEW v \in Visitors, TaskStarts(v) \/ TaskEnds(v)
       PROVE  UNCHANGED Service!vars
  <2>1. /\ UNCHANGED <<queue, driver>> /\ visitor' = [visitor EXCEPT ![v] = visitor'[v]]
        /\ \/ visitor[v] = "spawned" /\ visitor'[v] = "proxied"
           \/ visitor[v] = "ended" /\ visitor'[v] = "closed"
    BY <1>11 DEF TaskStarts, TaskEnds, Move, Held, Shape
  <2>2. InLine' = InLine
    BY <2>1, LineKept DEF Held, Shape
  <2>3. /\ In({"spawned", "proxied"})' = In({"spawned", "proxied"})
        /\ In({"ended", "closed"})' = In({"ended", "closed"})
    BY <2>1 DEF In, Held, Shape
  <2> QED
    BY <2>1, <2>2, <2>3, Stutters
<1>12. ASSUME NEW v \in Visitors, ConnectionDone(v) PROVE Service!Next
  <2>1. /\ UNCHANGED <<queue, driver>> /\ visitor[v] = "proxied"
        /\ visitor' = [visitor EXCEPT ![v] = "ended"]
    BY <1>12 DEF ConnectionDone, Move
  <2>2. InLine' = InLine
    BY <2>1, LineKept DEF Held, Shape
  <2>3. /\ v \in In({"spawned", "proxied"})
        /\ In({"spawned", "proxied"})' = In({"spawned", "proxied"}) \ {v}
        /\ In({"ended", "closed"})' = In({"ended", "closed"}) \cup {v}
    BY <2>1 DEF In, Held, Shape
  <2>4. Service!Finish(v)
    BY <2>1, <2>2, <2>3 DEF Service!Finish
  <2> QED
    BY <2>4 DEF Service!Next
<1>13. ASSUME UNCHANGED vars PROVE UNCHANGED Service!vars
  BY <1>13, LineKept, Stutters DEF vars, In
<1> HIDE DEF Phase
<1> QED
  BY <1>1, <1>2, <1>3, <1>4, <1>5, <1>6, <1>7, <1>8, <1>9, <1>10, <1>11, <1>12, <1>13
     DEF Next, Send, Open

\* The pool is a bounded line served in order: for any number of visitors,
\* ports, and any limits (listener.rs:251-275, session.rs:30-95).
THEOREM ImplementsVisitorQueue == Spec => ServiceSpec
<1>1. Init => Service!Init /\ Streamed
  <2> SUFFICES ASSUME Init PROVE Service!Init /\ Streamed
    OBVIOUS
  <2>1. InLine = <<>> \o <<>> /\ In({"spawned", "proxied"}) = {} /\ In({"ended", "closed"}) = {}
    BY DEF Init, InLine, In
  <2> QED
    BY <2>1 DEF Init, Service!Init, Streamed
<1>2. Spec => []Held
  BY Inductive, PTL
<1>3. Spec => []Streamed
  BY <1>1, <1>2, StreamedStep, PTL DEF Spec
<1> QED
  BY <1>1, <1>2, <1>3, ServiceStep, PTL DEF Spec, ServiceSpec, Service!Spec

\* At most max_num_streams visitors are served at a time, also when more passed
\* the limit check while the counter lagged behind (listener.rs:254-258).
StreamsCap == Cardinality(In({"spawned", "proxied"})) <= MaxStreams

\* The bound follows from the abstract specification alone.
THEOREM ServedBounded == ServiceSpec => []StreamsCap
<1> DEFINE used == In({"spawned", "proxied"})
<1>1. Service!Init => StreamsCap
  BY FS_EmptySet, BoundsAssumption DEF Service!Init, StreamsCap
<1>2. StreamsCap /\ [Service!Next]_(Service!vars) => StreamsCap'
  <2> SUFFICES ASSUME StreamsCap, [Service!Next]_(Service!vars) PROVE StreamsCap'
    OBVIOUS
  <2>0. /\ IsFiniteSet(used) /\ Cardinality(used) \in Nat
        /\ IsFiniteSet(used') /\ Cardinality(used') \in Nat
    BY VisitorsAssumption, FS_Subset, FS_CardinalityType DEF In
  <2>1. CASE Service!Serve
    <3> DEFINE h == Head(InLine)
    <3>1. used' = used \cup {h} /\ Cardinality(used) < MaxStreams
      BY <2>1, SameCardinality DEF Service!Serve
    <3>2. Cardinality(used') <= Cardinality(used) + 1
      BY <2>0, <3>1, FS_AddElement
    <3> QED
      BY <2>0, <3>1, <3>2, BoundsAssumption DEF StreamsCap
  <2>2. ASSUME NEW v \in Visitors, Service!Finish(v) PROVE StreamsCap'
    <3>1. used' \subseteq used
      BY <2>2 DEF Service!Finish
    <3>2. Cardinality(used') <= Cardinality(used)
      BY <2>0, <3>1, FS_Subset
    <3> QED
      BY <2>0, <3>2, BoundsAssumption DEF StreamsCap
  <2>3. CASE used' = used
    BY <2>3 DEF StreamsCap
  <2> QED
    BY <2>1, <2>2, <2>3 DEF Service!Next, Service!vars, Service!Stop, Service!Refuse,
       Service!Clear, Service!TurnAway, Service!Admit
<1> QED
  BY <1>1, <1>2, PTL DEF ServiceSpec, Service!Spec

=============================================================================
