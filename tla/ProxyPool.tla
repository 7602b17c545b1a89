------------------------------ MODULE ProxyPool ------------------------------
(***************************************************************************)
(* How the visitors of one client's public ports get their yamux streams.  *)
(* The accept loops of the client's ports check the connection limit and   *)
(* hand visitors to the session's driver through a bounded channel; the    *)
(* driver opens a stream for each and spawns a task that proxies it and    *)
(* keeps the connection counter.                                           *)
(*                                                                         *)
(* The driver is the only one that polls the yamux connection: streams are *)
(* acknowledged and given back while it waits in its select!, not while it *)
(* waits for poll_new_outbound.  What is copied over a stream is left out; *)
(* a proxied connection may last for ever or end at any time.              *)
(***************************************************************************)
EXTENDS Naturals, Sequences, FiniteSets

CONSTANTS Visitors,    \* TCP connections to the public ports
          Loops,       \* accept loops, one per port
          PortOf,      \* [Visitors -> Loops]
          Capacity,    \* of the proxy channel (256)
          MaxConns,    \* security.max_conns_per_client, 0 for no limit
          MaxStreams,  \* yamux max_num_streams (1024)
          MaxUnacked   \* streams yamux opens before the peer acknowledges one

ASSUME VisitorsAssumption == IsFiniteSet(Visitors)
ASSUME PortOfAssumption == PortOf \in [Visitors -> Loops]
ASSUME BoundsAssumption == /\ Capacity \in Nat /\ MaxConns \in Nat
                           /\ MaxStreams \in Nat /\ MaxUnacked \in Nat

VARIABLES
    visitor,  \* [Visitors -> Place]: who holds the visitor's socket
    loop,     \* [Loops -> {"running", "ended"}]
    queue,    \* Seq(Visitors): the proxy channel
    driver,   \* drive_server: "select", "opening", "closing", "gone"
    stream,   \* [Visitors -> ...]: the visitor's stream in the yamux connection
    active    \* SessionInfo.active_conns

vars == <<visitor, loop, queue, driver, stream, active>>

(***************************************************************************)
(* "away": not accepted; "sending": in its loop's hands, inside send();    *)
(* "opening": with the driver; "spawned": its task is not running yet;     *)
(* "ended": proxy_connection has returned and the counter is still up.     *)
(***************************************************************************)
Place == {"away", "sending", "queued", "opening", "spawned", "proxied", "ended", "closed"}

In(places) == {v \in Visitors : visitor[v] \in places}
Streams(kinds) == {v \in Visitors : stream[v] \in kinds}
Move(v, place) == visitor' = [visitor EXCEPT ![v] = place]

Init == /\ visitor = [v \in Visitors |-> "away"]
        /\ loop = [l \in Loops |-> "running"]
        /\ queue = <<>>
        /\ driver = "select"
        /\ stream = [v \in Visitors |-> "none"]
        /\ active = 0

-----------------------------------------------------------------------------
(* public_accept_loop.                                                     *)

\* accept(), then the limit: a visitor too many is dropped on the spot.
Accept(v) ==
    /\ visitor[v] = "away"
    /\ loop[PortOf[v]] = "running"
    /\ \A w \in In({"sending"}) : PortOf[w] # PortOf[v]
    /\ Move(v, IF MaxConns # 0 /\ active >= MaxConns THEN "closed" ELSE "sending")
    /\ UNCHANGED <<loop, queue, driver, stream, active>>

\* Fault: the channel is unbounded.
EnqueueUnbounded(v) ==
    /\ visitor[v] = "sending"
    /\ driver # "gone"
    /\ queue' = Append(queue, v)
    /\ Move(v, "queued")
    /\ UNCHANGED <<loop, driver, stream, active>>

\* send() finds room.
Enqueue(v) ==
    /\ visitor[v] = "sending"
    /\ driver # "gone"
    /\ Len(queue) < Capacity
    /\ queue' = Append(queue, v)
    /\ Move(v, "queued")
    /\ UNCHANGED <<loop, driver, stream, active>>

\* Fault: send() without the timeout.
SendWaits(v) == FALSE

\* Fault: the timed-out request is in the channel all the same.
SendTimesOutLate(v) ==
    /\ visitor[v] = "sending"
    /\ Len(queue) = Capacity
    /\ driver # "gone"
    /\ queue' = Append(queue, v)
    /\ Move(v, "closed")
    /\ UNCHANGED <<loop, driver, stream, active>>

\* The channel stays full for 200 ms: the visitor is dropped.
SendTimesOut(v) ==
    /\ visitor[v] = "sending"
    /\ driver # "gone"
    /\ Len(queue) = Capacity
    /\ Move(v, "closed")
    /\ UNCHANGED <<loop, queue, driver, stream, active>>

\* The receiver is gone: visitor and loop go, too.
SendFails(v) ==
    /\ visitor[v] = "sending"
    /\ driver = "gone"
    /\ Move(v, "closed")
    /\ loop' = [loop EXCEPT ![PortOf[v]] = "ended"]
    /\ UNCHANGED <<queue, driver, stream, active>>

\* remove_listener aborts the loop, with the visitor it is handing over, or
\* accept() fails.
LoopEnds(l) ==
    /\ loop[l] = "running"
    /\ loop' = [loop EXCEPT ![l] = "ended"]
    /\ visitor' = [v \in Visitors |-> IF visitor[v] = "sending" /\ PortOf[v] = l
                                      THEN "closed" ELSE visitor[v]]
    /\ UNCHANGED <<queue, driver, stream, active>>

-----------------------------------------------------------------------------
(* drive_server.                                                           *)

Receive ==
    /\ driver = "select"
    /\ queue # <<>>
    /\ queue' = Tail(queue)
    /\ Move(Head(queue), "opening")
    /\ driver' = "opening"
    /\ UNCHANGED <<loop, stream, active>>

\* poll_new_outbound gives a stream, unless too many await acknowledgement.
OpenStream(v) ==
    /\ visitor[v] = "opening"
    /\ Cardinality(Streams({"unacked", "acked"})) < MaxStreams
    /\ Cardinality(Streams({"unacked"})) < MaxUnacked
    /\ stream' = [stream EXCEPT ![v] = "unacked"]
    /\ Move(v, "spawned")
    /\ driver' = "select"
    /\ UNCHANGED <<loop, queue, active>>

\* Too many streams: the driver leaves its loop, the visitor is dropped.
OpenRefused(v) ==
    /\ visitor[v] = "opening"
    /\ Cardinality(Streams({"unacked", "acked"})) >= MaxStreams
    /\ Move(v, "closed")
    /\ driver' = "closing"
    /\ UNCHANGED <<loop, queue, stream, active>>

\* poll_next_inbound: the peer acknowledges a stream, or yamux gives one back
\* whose visitor is gone.
Inbound(v) ==
    /\ driver = "select"
    /\ \/ /\ stream[v] = "unacked"
          /\ stream' = [stream EXCEPT ![v] = "acked"]
       \/ /\ stream[v] # "none"
          /\ visitor[v] \in {"ended", "closed"}
          /\ stream' = [stream EXCEPT ![v] = "none"]
    /\ UNCHANGED <<visitor, loop, queue, driver, active>>

\* poll_next_inbound: the connection is over.
ConnectionEnds ==
    /\ driver = "select"
    /\ driver' = "closing"
    /\ UNCHANGED <<visitor, loop, queue, stream, active>>

\* Fault: the receiver outlives drive_server.
ReceiverKept ==
    /\ driver = "closing"
    /\ driver' = "gone"
    /\ stream' = [v \in Visitors |-> "none"]
    /\ UNCHANGED <<visitor, loop, queue, active>>

\* drive_server returns: the receiver is dropped with all it holds, and the
\* connection with its streams.
ReceiverDropped ==
    /\ driver = "closing"
    /\ driver' = "gone"
    /\ queue' = <<>>
    /\ visitor' = [v \in Visitors |-> IF visitor[v] = "queued" THEN "closed" ELSE visitor[v]]
    /\ stream' = [v \in Visitors |-> "none"]
    /\ UNCHANGED <<loop, active>>

-----------------------------------------------------------------------------
(* The task of a proxied connection.                                       *)

TaskStarts(v) ==
    /\ visitor[v] = "spawned"
    /\ active' = active + 1
    /\ Move(v, "proxied")
    /\ UNCHANGED <<loop, queue, driver, stream>>

\* Fault: a failing write_target leaves the task before fetch_sub.
ConnectionDoneEarly(v) ==
    /\ visitor[v] = "proxied"
    /\ Move(v, "ended") \/ Move(v, "closed")
    /\ UNCHANGED <<loop, queue, driver, stream, active>>

\* proxy_connection returns: write_target failed, a direction ended or was idle.
ConnectionDone(v) ==
    /\ visitor[v] = "proxied"
    /\ Move(v, "ended")
    /\ UNCHANGED <<loop, queue, driver, stream, active>>

TaskEnds(v) ==
    /\ visitor[v] = "ended"
    /\ active' = active - 1
    /\ Move(v, "closed")
    /\ UNCHANGED <<loop, queue, driver, stream>>

-----------------------------------------------------------------------------
Send(v) == Enqueue(v) \/ SendTimesOut(v) \/ SendFails(v)

Open(v) == OpenStream(v) \/ OpenRefused(v)

Next == \/ Receive \/ ConnectionEnds \/ ReceiverDropped
        \/ \E l \in Loops : LoopEnds(l)
        \/ \E v \in Visitors : \/ Accept(v) \/ Send(v) \/ Open(v) \/ Inbound(v)
                               \/ TaskStarts(v) \/ ConnectionDone(v) \/ TaskEnds(v)

\* Tasks that can run are scheduled, the peer acknowledges what it is sent, and
\* without a tunnel a proxied connection ends (end of stream, a write error or
\* the idle timeout).  With one it may last for ever.
Fairness ==
    /\ WF_vars(Receive) /\ WF_vars(ReceiverDropped)
    /\ \A v \in Visitors :
          /\ WF_vars(Send(v)) /\ WF_vars(Open(v)) /\ WF_vars(Inbound(v))
          /\ WF_vars(TaskStarts(v)) /\ WF_vars(TaskEnds(v))
          /\ WF_vars(driver = "gone" /\ ConnectionDone(v))

Spec == Init /\ [][Next]_vars /\ Fairness

-----------------------------------------------------------------------------
(* Properties.                                                             *)

\* Every variable has its type, and the channel keeps to its capacity.
TypeOK == /\ visitor \in [Visitors -> Place]
          /\ loop \in [Loops -> {"running", "ended"}]
          /\ queue \in Seq(Visitors)
          /\ Len(queue) <= Capacity
          /\ driver \in {"select", "opening", "closing", "gone"}
          /\ stream \in [Visitors -> {"none", "unacked", "acked"}]
          /\ active \in Nat

\* active_conns counts exactly the tasks between fetch_add and fetch_sub: a
\* visitor is refused at the limit only for visitors really being served, and
\* the client is not locked out by connections that are over (listener.rs:254).
CountExact == active = Cardinality(In({"proxied", "ended"}))

\* A visitor is dropped or served, never both: the channel holds the visitors
\* whose send() succeeded, each once, and the driver is opening a stream for
\* one visitor exactly when it says so (timeout around send, listener.rs:263).
HandedOverOnce ==
    /\ \A i, j \in 1..Len(queue) : queue[i] = queue[j] => i = j
    /\ In({"queued"}) = {queue[i] : i \in 1..Len(queue)}
    /\ driver = "opening" <=> In({"opening"}) # {}
    /\ \A v, w \in In({"opening"}) : v = w

\* An accept loop always gets back to accept(), even if the driver is stuck.
LoopsReturn == \A v \in Visitors : visitor[v] = "sending" ~> visitor[v] # "sending"

\* Once drive_server has returned, every visitor it was handed is let go,
\* wherever the end of the session found him.
VisitorsReleased == \A v \in Visitors :
    driver = "gone" /\ visitor[v] # "away" ~> visitor[v] = "closed"

\* session.rs:3-5: the driver "continuously polls poll_next_inbound to drive I/O
\* for all open streams".  Opening a stream does not keep it from that for ever.
DriverResumes == driver = "opening" ~> driver # "opening"

\* The visitors between their loop and their stream: the one the driver is
\* opening a stream for, and the channel behind him.
InLine == (IF driver = "opening" THEN <<CHOOSE v \in Visitors : visitor[v] = "opening">>
                                 ELSE <<>>) \o queue

Service == INSTANCE VisitorQueue WITH
    Room      <- Capacity + 1,
    MaxServed <- MaxStreams,
    line      <- InLine,
    served    <- In({"spawned", "proxied"}),
    over      <- In({"ended", "closed"}),
    phase     <- IF driver \in {"closing", "gone"} THEN driver ELSE "open"

\* Accept loops that may be stopped, a send with a timeout, the channel and the
\* driver are one bounded line: visitors get their streams in the order they
\* entered it, no more than max_num_streams at a time however many passed the
\* limit check, and none after the driver has left its loop (listener.rs:251-275,
\* session.rs:30-95).
ServiceSpec == Service!Spec

=============================================================================
