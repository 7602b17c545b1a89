---------------------------- MODULE ProxiedStream ----------------------------
(***************************************************************************)
(* One visitor's connection, end to end: the visitor's socket, the copy    *)
(* loops of `proxy_connection` on the server, a yamux stream, the copy     *)
(* loop of `handle_client_stream` on the client, and the socket of the     *)
(* local service.  "out" is the way from the visitor to the local service, *)
(* "in" the way back; an endpoint is named by the way it sends.            *)
(*                                                                         *)
(* Data are counted in chunks, one per read; a loop that has read a chunk  *)
(* holds it until write_all has put it down.  Sockets and the stream are   *)
(* flow-controlled: they hold at most SockBuf and Window chunks each way,  *)
(* and give what they hold before they report the end.  Dropping a stream  *)
(* or socket lets the peer read what is under way, then fails its writes.  *)
(* The tunnel that carries the stream may be lost: each side drops its     *)
(* yamux connection when it notices, and to a copy loop that is the        *)
(* ordinary end of the stream, after what had arrived.                     *)
(* Time is counted in ticks; PROXY_IDLE_TIMEOUT is Idle of them.  The copy *)
(* loops act when they please, so a tick may be as long as one likes.      *)
(***************************************************************************)
EXTENDS Naturals

CONSTANTS SockBuf,  \* chunks the buffers of a socket hold
          Window,   \* chunks the receive window of the stream lets through
          Idle      \* PROXY_IDLE_TIMEOUT

ASSUME BoundsAssumption == /\ SockBuf \in Nat \ {0} /\ Window \in Nat \ {0}
                           /\ Idle \in Nat \ {0}

Ways == {"out", "in"}
Sides == {"server", "client"}
Ticks == 0 .. Idle - 1   \* the present tick and those before it
Reverse(w) == IF w = "out" THEN "in" ELSE "out"

VARIABLES
    peer,    \* [Ways -> endpoint]: may send, has finished sending, hangs, has closed
    src,     \* [Ways -> Nat]: chunks between the sender and its copy loop
    link,    \* [Ways -> Nat]: chunks in the stream
    dst,     \* [Ways -> Nat]: chunks between the last copy loop and the receiver
    server,  \* proxy_connection: [at, why it ended, its two copy_count loops]
    cli,     \* handle_client_stream: [at, why]
    lost,    \* the sides that have dropped their yamux connection
    heard,   \* the sides whose end of the stream the other side has been told of
    timer,   \* ticks each waiting read has waited
    owed,    \* [Ways -> Nat]: chunks sent, and neither received nor gone with the
             \* tunnel (history)
    recent   \* [Ticks -> BOOLEAN]: did the client's loop move a chunk that many
             \* ticks ago? (history)

vars == <<peer, src, link, dst, server, cli, lost, heard, timer, owed, recent>>

Reasons == {"none", "out", "in", "error", "idle", "refused"}

Init == /\ peer = [w \in Ways |-> "open"]
        /\ src = [w \in Ways |-> 0]
        /\ link = [w \in Ways |-> 0]
        /\ dst = [w \in Ways |-> 0]
        /\ server = [at |-> "target", why |-> "none", out |-> "read", in |-> "read"]
        /\ cli = [at |-> "target", why |-> "none"]
        /\ lost = {} /\ heard = {}
        /\ timer = [out |-> 0, in |-> 0, client |-> 0]
        /\ owed = [w \in Ways |-> 0]
        /\ recent = [n \in Ticks |-> FALSE]

Running == server.at # "over" \/ cli.at # "over"
Connected == cli.at \in {"copy", "out", "in"}   \* the local service was dialled

-----------------------------------------------------------------------------
(* The two endpoints.                                                      *)

Attached(w) == IF w = "out" THEN server.at # "over" ELSE Connected

\* Fault: the sender does not mind a full buffer.
SendMore(w) ==
    /\ peer[w] = "open" /\ Attached(w)
    /\ src' = [src EXCEPT ![w] = @ + 1]
    /\ owed' = [owed EXCEPT ![w] = @ + 1]
    /\ UNCHANGED <<peer, link, dst, server, cli, lost, heard, timer, recent>>

Send(w) ==
    /\ peer[w] = "open" /\ Attached(w)
    /\ src[w] < SockBuf
    /\ src' = [src EXCEPT ![w] = @ + 1]
    /\ owed' = [owed EXCEPT ![w] = @ + 1]
    /\ UNCHANGED <<peer, link, dst, server, cli, lost, heard, timer, recent>>

\* The receiver of way w is the endpoint that sends the other way.
Receive(w) ==
    /\ peer[Reverse(w)] \in {"open", "done"} /\ Running
    /\ dst[w] > 0
    /\ dst' = [dst EXCEPT ![w] = @ - 1]
    /\ owed' = [owed EXCEPT ![w] = @ - 1]
    /\ UNCHANGED <<peer, src, link, server, cli, lost, heard, timer, recent>>

\* It shuts its sending side down, closes altogether, or stops doing anything.
\* (Bound: while there is a copy loop it matters to.)
Turn(w) ==
    /\ peer[w] \in {"open", "done"} /\ Attached(w)
    /\ \E state \in {"done", "gone", "hung"} :
          state # peer[w] /\ peer' = [peer EXCEPT ![w] = state]
    /\ UNCHANGED <<src, link, dst, server, cli, lost, heard, timer, owed, recent>>

Finished(w) == peer[w] \in {"done", "gone"}

-----------------------------------------------------------------------------
(* The tunnel.                                                             *)

Other(side) == IF side = "server" THEN "client" ELSE "server"
Writes(side) == IF side = "server" THEN "out" ELSE "in"   \* into the stream
Writer(w) == IF w = "out" THEN "server" ELSE "client"

\* A task drops its stream; the other side is told if the tunnel carries it.
Tell(side) == heard' = IF lost = {} THEN heard \cup {side} ELSE heard

\* The session loop of a side breaks and drops the connection, and what had not
\* reached that side by then is lost.  (Bound: until both tasks are over.)
LoseTunnel(side) ==
    /\ side \notin lost /\ Running
    /\ lost' = lost \cup {side}
    /\ LET w == Writes(Other(side)) IN
       \E n \in 0..link[w] : /\ link' = [link EXCEPT ![w] = @ - n]
                             /\ owed' = [owed EXCEPT ![w] = @ - n]
    /\ UNCHANGED <<peer, src, dst, server, cli, heard, timer, recent>>

\* Nothing more comes to this side, and what it writes fails.
StreamOver(side) == Other(side) \in heard \/ side \in lost

\* A chunk of way w goes into the stream: to nobody, if the other side is gone.
IntoStream(w) ==
    /\ ~StreamOver(Writer(w)) /\ link[w] < Window
    /\ IF Other(Writer(w)) \in lost
       THEN owed' = [owed EXCEPT ![w] = @ - 1] /\ UNCHANGED link
       ELSE link' = [link EXCEPT ![w] = @ + 1] /\ UNCHANGED owed
    /\ UNCHANGED dst

-----------------------------------------------------------------------------
(* proxy_connection: the target is written first, then two copy_count      *)
(* loops run in one select!; the first that returns ends both.             *)

ServerStops(reason) ==
    /\ server' = [server EXCEPT !.at = "over", !.why = reason]
    /\ timer' = [timer EXCEPT !["out"] = 0, !["in"] = 0]
    /\ Tell("server")
    /\ UNCHANGED <<peer, src, link, dst, cli, lost, owed, recent>>

WriteTarget ==
    /\ server.at = "target" /\ ~StreamOver("server")
    /\ server' = [server EXCEPT !.at = "copy"]
    /\ UNCHANGED <<peer, src, link, dst, cli, lost, heard, timer, owed, recent>>

WriteTargetFails ==
    server.at = "target" /\ StreamOver("server") /\ ServerStops("refused")

\* Fault: the reader looks at the closed flag before the buffer.
EndedEarly(w) == IF w = "out" THEN Finished(w) ELSE StreamOver("server")

\* What a copy_count finds where it reads, and whether nothing more will come.
Ready(w) == IF w = "out" THEN src[w] > 0 ELSE link[w] > 0
Ended(w) == ~Ready(w) /\ IF w = "out" THEN Finished(w) ELSE StreamOver("server")

ServerRead(w) ==
    /\ server.at = "copy" /\ server[w] = "read"
    /\ Ready(w)
    /\ server' = [server EXCEPT ![w] = "write"]
    /\ IF w = "out" THEN src' = [src EXCEPT ![w] = @ - 1] /\ UNCHANGED link
                    ELSE link' = [link EXCEPT ![w] = @ - 1] /\ UNCHANGED src
    /\ timer' = [timer EXCEPT ![w] = 0]
    /\ UNCHANGED <<peer, dst, cli, lost, heard, owed, recent>>

\* A chunk goes into the stream, or into the visitor's socket.
ServerPuts(w) ==
    IF w = "out"
    THEN IntoStream(w)
    ELSE peer["out"] # "gone" /\ dst[w] < SockBuf
         /\ dst' = [dst EXCEPT ![w] = @ + 1] /\ UNCHANGED <<link, owed>>

\* Fault: after a partial write the buffer is written from its start again.
ServerWriteAgain(w) ==
    /\ server.at = "copy" /\ server[w] = "write"
    /\ ServerPuts(w)
    /\ \E next \in {"read", "write"} : server' = [server EXCEPT ![w] = next]
    /\ UNCHANGED <<peer, src, cli, lost, heard, timer, recent>>

\* write_all and flush; there is no timer on either.
ServerWrite(w) ==
    /\ server.at = "copy" /\ server[w] = "write"
    /\ ServerPuts(w)
    /\ server' = [server EXCEPT ![w] = "read"]
    /\ UNCHANGED <<peer, src, cli, lost, heard, timer, recent>>

ServerEnds(w) ==
    /\ server.at = "copy"
    /\ \/ server[w] = "read" /\ Ended(w) /\ ServerStops(w)
       \/ /\ server[w] = "write"
          /\ IF w = "out" THEN StreamOver("server") ELSE peer["out"] = "gone"
          /\ ServerStops("error")

\* Fault: the timer is there for the visitor's way only.
ServerIdleOut(w) ==
    /\ w = "out" /\ server.at = "copy" /\ server[w] = "read"
    /\ ~Ready(w) /\ ~Ended(w) /\ timer[w] = Idle
    /\ ServerStops("idle")

\* timeout(PROXY_IDLE_TIMEOUT, r.read()) of one loop, whatever the other does.
ServerIdle(w) ==
    /\ server.at = "copy" /\ server[w] = "read"
    /\ ~Ready(w) /\ ~Ended(w) /\ timer[w] = Idle
    /\ ServerStops("idle")

-----------------------------------------------------------------------------
(* handle_client_stream: read_target and the dial have timeouts of their   *)
(* own; then one loop serves both ways and restarts one timer per turn.    *)

ClientStops(reason) ==
    /\ cli' = [at |-> "over", why |-> reason]
    /\ timer' = [timer EXCEPT !["client"] = 0]
    /\ Tell("client")
    /\ UNCHANGED <<peer, src, link, dst, server, lost, owed, recent>>

ReadTarget ==
    /\ cli.at = "target" /\ server.at # "target" /\ server.why # "refused"
    /\ cli' = [cli EXCEPT !.at = "dial"]
    /\ UNCHANGED <<peer, src, link, dst, server, lost, heard, timer, owed, recent>>

\* 15 s pass before the target has come, if it comes at all.
TargetTimeout ==
    cli.at = "target" /\ (server.at = "target" \/ lost # {}) /\ ClientStops("refused")

\* The tunnel was lost before the target had come.
TargetFails == cli.at = "target" /\ "client" \in lost /\ ClientStops("refused")

Dial ==
    /\ cli.at = "dial"
    /\ cli' = [cli EXCEPT !.at = "copy"]
    /\ UNCHANGED <<peer, src, link, dst, server, lost, heard, timer, owed, recent>>

\* Nobody listens at the target, or the dial takes longer than 5 s.
DialFails == cli.at = "dial" /\ ClientStops("refused")

ClientReady(w) == IF w = "out" THEN link[w] > 0 ELSE src[w] > 0
ClientEnded(w) == ~ClientReady(w) /\ IF w = "out" THEN StreamOver("client") ELSE Finished(w)

\* select! is biased: the local service is read when the stream has nothing.
Chosen(w) == w = "out" \/ (~ClientReady("out") /\ ~ClientEnded("out"))

\* Fault: only data from the stream restart the timer.
ClientReadKeepsTimer(w) ==
    /\ cli.at = "copy" /\ Chosen(w) /\ ClientReady(w)
    /\ cli' = [cli EXCEPT !.at = w]
    /\ IF w = "out" THEN link' = [link EXCEPT ![w] = @ - 1] /\ UNCHANGED src
                    ELSE src' = [src EXCEPT ![w] = @ - 1] /\ UNCHANGED link
    /\ timer' = [timer EXCEPT !["client"] = IF w = "out" THEN 0 ELSE @]
    /\ recent' = [recent EXCEPT ![0] = TRUE]
    /\ UNCHANGED <<peer, dst, server, lost, heard, owed>>

\* The turn's timer is dropped with the other branch; the next turn has its own.
ClientRead(w) ==
    /\ cli.at = "copy" /\ Chosen(w) /\ ClientReady(w)
    /\ cli' = [cli EXCEPT !.at = w]
    /\ IF w = "out" THEN link' = [link EXCEPT ![w] = @ - 1] /\ UNCHANGED src
                    ELSE src' = [src EXCEPT ![w] = @ - 1] /\ UNCHANGED link
    /\ timer' = [timer EXCEPT !["client"] = 0]
    /\ recent' = [recent EXCEPT ![0] = TRUE]
    /\ UNCHANGED <<peer, dst, server, lost, heard, owed>>

\* A chunk goes into the local service's socket, or into the stream.
ClientPuts(w) ==
    IF w = "out"
    THEN peer["in"] # "gone" /\ dst[w] < SockBuf
         /\ dst' = [dst EXCEPT ![w] = @ + 1] /\ UNCHANGED <<link, owed>>
    ELSE IntoStream(w)

\* write_all inside the branch: nothing else is polled meanwhile.
ClientWrite(w) ==
    /\ cli.at = w
    /\ ClientPuts(w)
    /\ cli' = [cli EXCEPT !.at = "copy"]
    /\ UNCHANGED <<peer, src, server, lost, heard, timer, recent>>

\* Fault: a write to a stream that was dropped is taken for one that waits.
ClientEndsAtEof(w) ==
    cli.at = "copy" /\ Chosen(w) /\ ClientEnded(w) /\ ClientStops(w)

ClientEnds(w) ==
    \/ cli.at = "copy" /\ Chosen(w) /\ ClientEnded(w) /\ ClientStops(w)
    \/ /\ cli.at = w
       /\ IF w = "out" THEN peer["in"] = "gone" ELSE StreamOver("client")
       /\ ClientStops("error")

ClientIdle ==
    /\ cli.at = "copy" /\ timer.client = Idle
    /\ \A w \in Ways : ~ClientReady(w) /\ ~ClientEnded(w)
    /\ ClientStops("idle")

-----------------------------------------------------------------------------
\* A tick passes: a timer runs while its read waits.  (Bound: as above.)
Waits(w) == server.at = "copy" /\ server[w] = "read"
Later(n) == IF n < Idle THEN n + 1 ELSE n

Tick ==
    /\ Running
    /\ timer' = [t \in DOMAIN timer |->
                    IF IF t = "client" THEN cli.at = "copy" ELSE Waits(t)
                    THEN Later(timer[t]) ELSE timer[t]]
    /\ recent' = [n \in Ticks |-> n > 0 /\ recent[n - 1]]
    /\ UNCHANGED <<peer, src, link, dst, server, cli, lost, heard, owed>>

ServerStep == \/ WriteTarget \/ WriteTargetFails
              \/ \E w \in Ways : ServerRead(w) \/ ServerWrite(w) \/ ServerEnds(w) \/ ServerIdle(w)

ClientStep == \/ ReadTarget \/ TargetFails \/ Dial \/ ClientIdle
              \/ \E w \in Ways : ClientRead(w) \/ ClientWrite(w) \/ ClientEnds(w)

Next == \/ ServerStep \/ ClientStep \/ Tick
        \/ TargetTimeout \/ DialFails
        \/ \E w \in Ways : Send(w) \/ Receive(w) \/ Turn(w)
        \/ \E side \in Sides : LoseTunnel(side)

Spec == Init /\ [][Next]_vars

\* Both tasks are scheduled, each of the server's two loops included, and time
\* passes.  Of the endpoints only the visitor is assumed to read what it is
\* sent, for as long as it neither hangs nor closes.  The tunnel need not fail;
\* once one side has dropped it, its end of file or a TCP keepalive tells the
\* other (listener.rs:50-71, client.rs:250-256).
Fairness == /\ \A w \in Ways : /\ WF_vars(ServerRead(w)) /\ WF_vars(ServerWrite(w))
                               /\ WF_vars(ServerEnds(w)) /\ WF_vars(ServerIdle(w))
            /\ WF_vars(WriteTarget \/ WriteTargetFails)
            /\ WF_vars(ClientStep)
            /\ WF_vars(Tick)
            /\ WF_vars(Receive("in"))
            /\ \A side \in Sides : WF_vars(lost # {} /\ LoseTunnel(side))

FairSpec == Spec /\ Fairness

-----------------------------------------------------------------------------
(* Properties.                                                             *)

\* Every variable has its type; no buffer holds more than it may.
TypeOK ==
    /\ peer \in [Ways -> {"open", "done", "hung", "gone"}]
    /\ src \in [Ways -> 0..SockBuf] /\ dst \in [Ways -> 0..SockBuf]
    /\ link \in [Ways -> 0..Window]
    /\ server \in [at : {"target", "copy", "over"}, why : Reasons,
                   out : {"read", "write"}, in : {"read", "write"}]
    /\ cli \in [at : {"target", "dial", "copy", "out", "in", "over"}, why : Reasons]
    /\ lost \in SUBSET Sides /\ heard \in SUBSET Sides
    /\ timer \in [{"out", "in", "client"} -> 0..Idle]
    /\ owed \in [Ways -> Nat]
    /\ recent \in [Ticks -> BOOLEAN]

Held(holds) == IF holds THEN 1 ELSE 0

\* The chunks of a way that lie in a buffer or in the hands of a loop that runs.
InFlight(w) == src[w] + Held(server.at # "over" /\ server[w] = "write") + link[w]
               + Held(cli.at = w) + dst[w]

\* While both tasks run, every chunk that was sent and not yet received, nor gone
\* with the tunnel, is in exactly one buffer or in one loop's hands: nothing else
\* is lost, and nothing written twice.
NothingLost ==
    server.at # "over" /\ cli.at # "over" =>
        \A w \in Ways : owed[w] = InFlight(w)

\* A sender that finished, on a connection that ended for that reason on both
\* sides while the tunnel stood, has had everything delivered to the other
\* socket: the response of a local service that closes after it is complete, and
\* so is the request of a visitor that leaves after it (proxy.rs:35-36,
\* client.rs:391-402).  A lost tunnel ends the copy loops in the same way, with
\* chunks missing: neither endpoint can tell (proxy.rs:71-73).
EndMeansDelivered ==
    lost = {} => \A w \in Ways : server.why = w /\ cli.why = w => owed[w] = dst[w]

\* client.rs:373-375: the client gives a connection up as idle only if neither
\* way moved anything for the whole timeout.
ClientIdleMeansQuiet ==
    [][cli'.why = "idle" /\ cli.why = "none" => \A n \in Ticks : ~recent[n]]_vars

\* proxy.rs:47-49: a local service that hangs does not hold the server's end of
\* the stream for ever, as long as the visitor does not hang as well.
HungServiceReleased ==
    peer["in"] = "hung" ~> server.at = "over" \/ peer["out"] = "hung"

\* The end of one task, or of the tunnel under them, reaches the other task, save
\* a client's loop that is writing to a local service which does not read
\* (write_all has no timeout).
EndReachesPeer ==
    /\ cli.at = "over" \/ lost # {} ~> server.at = "over"
    /\ server.at = "over" ~> cli.at = "over" \/ (cli.at = "out" /\ dst["out"] = SockBuf)

Pipe == INSTANCE TwoWayPipe WITH
    Capacity <- 2 * SockBuf + Window + 2,
    flight   <- [w \in Ways |-> InFlight(w)],
    cut      <- {side \in {"server", "client"} :
                    IF side = "server" THEN server.at = "over" ELSE cli.at = "over"},
    broken   <- lost # {}

\* Two sockets, a stream and four copy loops are one pipe each way: no chunk is
\* lost while the tunnel stands, none is ever written twice or made up, whatever
\* is full and whoever stops reading, and ending a task drops at most the chunks
\* its loops hold (proxy.rs:29-80, client.rs:376-412).
PipeSpec == Pipe!Spec

=============================================================================
