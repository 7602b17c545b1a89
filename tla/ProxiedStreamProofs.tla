------------------------- MODULE ProxiedStreamProofs -------------------------
(***************************************************************************)
(* Proofs about ProxiedStream, for buffers and windows of any size and any *)
(* idle timeout.                                                           *)
(*                                                                         *)
(* NothingLost is inductive over TypeOK, but says nothing once one of the  *)
(* two tasks is over.  EndMeansDelivered needs what is left of it then:    *)
(* when the first of the two tasks has ended because way w had ended, its  *)
(* part of the way is empty, and the rest still adds up (LeftOver).        *)
(***************************************************************************)
EXTENDS ProxiedStream, Integers, TLAPS

\* TypeOK, but for the sign of the number of chunks that are owed.
Shape ==
    /\ peer \in [Ways -> {"open", "done", "hung", "gone"}]
    /\ src \in [Ways -> 0..SockBuf] /\ dst \in [Ways -> 0..SockBuf]
    /\ link \in [Ways -> 0..Window]
    /\ server \in [at : {"target", "copy", "over"}, why : Reasons,
                   out : {"read", "write"}, in : {"read", "write"}]
    /\ cli \in [at : {"target", "dial", "copy", "out", "in", "over"}, why : Reasons]
    /\ lost \in SUBSET Sides /\ heard \in SUBSET Sides
    /\ timer \in [{"out", "in", "client"} -> 0..Idle]
    /\ owed \in [Ways -> Int]
    /\ recent \in [Ticks -> BOOLEAN]

LEMMA ShapeInit == Init => Shape
BY BoundsAssumption DEF Init, Shape, Ways, Reasons, Sides, Ticks

LEMMA ShapeServerStop == ASSUME Shape, NEW reason \in Reasons, ServerStops(reason) PROVE Shape'
<1> USE BoundsAssumption DEF Shape, Reasons, Sides
<1>1. server' \in [at : {"target", "copy", "over"}, why : Reasons,
                   out : {"read", "write"}, in : {"read", "write"}]
  BY DEF ServerStops
<1>2. timer' \in [{"out", "in", "client"} -> 0..Idle]
  BY DEF ServerStops
<1>3. heard' \in SUBSET Sides
  BY DEF ServerStops, Tell
<1> QED
  BY <1>1, <1>2, <1>3 DEF ServerStops

LEMMA ShapeClientStop == ASSUME Shape, NEW reason \in Reasons, ClientStops(reason) PROVE Shape'
<1> USE BoundsAssumption DEF Shape, Reasons, Sides
<1>1. cli' \in [at : {"target", "dial", "copy", "out", "in", "over"}, why : Reasons]
  BY DEF ClientStops
<1>2. timer' \in [{"out", "in", "client"} -> 0..Idle]
  BY DEF ClientStops
<1>3. heard' \in SUBSET Sides
  BY DEF ClientStops, Tell
<1> QED
  BY <1>1, <1>2, <1>3 DEF ClientStops

LEMMA ShapeNext == Shape /\ [Next]_vars => Shape'
<1> SUFFICES ASSUME Shape, [Next]_vars PROVE Shape'
  OBVIOUS
<1> USE BoundsAssumption DEF Shape, Ways, Reasons, Sides, Ticks
<1>1. CASE WriteTarget
  BY <1>1 DEF WriteTarget
<1>2. CASE WriteTargetFails
  BY <1>2, ShapeServerStop DEF WriteTargetFails
<1>3. ASSUME NEW w \in Ways, ServerRead(w) PROVE Shape'
  <2>1. server' \in [at : {"target", "copy", "over"}, why : Reasons,
                     out : {"read", "write"}, in : {"read", "write"}]
    BY <1>3 DEF ServerRead
  <2>2. /\ src' \in [Ways -> 0..SockBuf] /\ dst' \in [Ways -> 0..SockBuf]
        /\ link' \in [Ways -> 0..Window]
    BY <1>3 DEF ServerRead, Ready
  <2>3. timer' \in [{"out", "in", "client"} -> 0..Idle] /\ recent' \in [Ticks -> BOOLEAN]
    BY <1>3 DEF ServerRead
  <2> QED
    BY <1>3, <2>1, <2>2, <2>3 DEF ServerRead
<1>4. ASSUME NEW w \in Ways, ServerWrite(w) PROVE Shape'
  <2>1. server' \in [at : {"target", "copy", "over"}, why : Reasons,
                     out : {"read", "write"}, in : {"read", "write"}]
    BY <1>4 DEF ServerWrite
  <2>2. /\ src' \in [Ways -> 0..SockBuf] /\ dst' \in [Ways -> 0..SockBuf]
        /\ link' \in [Ways -> 0..Window]
    <3>1. src' = src
      BY <1>4 DEF ServerWrite
    <3>2. dst' \in [Ways -> 0..SockBuf]
      BY <1>4 DEF ServerWrite, ServerPuts, IntoStream
    <3>3. link' \in [Ways -> 0..Window]
      BY <1>4 DEF ServerWrite, ServerPuts, IntoStream
    <3> QED
      BY <3>1, <3>2, <3>3
  <2>3. timer' \in [{"out", "in", "client"} -> 0..Idle] /\ recent' \in [Ticks -> BOOLEAN]
    BY <1>4 DEF ServerWrite
  <2>4. owed' \in [Ways -> Int]
    BY <1>4 DEF ServerWrite, ServerPuts, IntoStream
  <2> QED
    BY <1>4, <2>1, <2>2, <2>3, <2>4 DEF ServerWrite
<1>5. ASSUME NEW w \in Ways, ServerEnds(w) PROVE Shape'
  BY <1>5, ShapeServerStop DEF ServerEnds
<1>6. ASSUME NEW w \in Ways, ServerIdle(w) PROVE Shape'
  BY <1>6, ShapeServerStop DEF ServerIdle
<1>7. CASE ReadTarget
  BY <1>7 DEF ReadTarget
<1>8. CASE Dial
  BY <1>8 DEF Dial
<1>9. CASE ClientIdle
  BY <1>9, ShapeClientStop DEF ClientIdle
<1>10. ASSUME NEW w \in Ways, ClientRead(w) PROVE Shape'
  <2>1. cli' \in [at : {"target", "dial", "copy", "out", "in", "over"}, why : Reasons]
    BY <1>10 DEF ClientRead
  <2>2. /\ src' \in [Ways -> 0..SockBuf] /\ dst' \in [Ways -> 0..SockBuf]
        /\ link' \in [Ways -> 0..Window]
    <3>1. CASE w = "out"
      <4>1. link["out"] > 0 /\ link' = [link EXCEPT !["out"] = @ - 1] /\ UNCHANGED <<src, dst>>
        BY <1>10, <3>1 DEF ClientRead, ClientReady
      <4> QED
        BY <4>1, BoundsAssumption
    <3>2. CASE w = "in"
      <4>1. src["in"] > 0 /\ src' = [src EXCEPT !["in"] = @ - 1] /\ UNCHANGED <<link, dst>>
        BY <1>10, <3>2 DEF ClientRead, ClientReady
      <4> QED
        BY <4>1, BoundsAssumption
    <3> QED
      BY <3>1, <3>2 DEF Ways
  <2>3. timer' \in [{"out", "in", "client"} -> 0..Idle] /\ recent' \in [Ticks -> BOOLEAN]
    BY <1>10 DEF ClientRead
  <2> QED
    BY <1>10, <2>1, <2>2, <2>3 DEF ClientRead
<1>11. ASSUME NEW w \in Ways, ClientWrite(w) PROVE Shape'
  <2>1. cli' \in [at : {"target", "dial", "copy", "out", "in", "over"}, why : Reasons]
    BY <1>11 DEF ClientWrite
  <2>2. /\ src' \in [Ways -> 0..SockBuf] /\ dst' \in [Ways -> 0..SockBuf]
        /\ link' \in [Ways -> 0..Window]
    <3>1. src' = src
      BY <1>11 DEF ClientWrite
    <3>2. dst' \in [Ways -> 0..SockBuf]
      BY <1>11 DEF ClientWrite, ClientPuts, IntoStream
    <3>3. link' \in [Ways -> 0..Window]
      BY <1>11 DEF ClientWrite, ClientPuts, IntoStream
    <3> QED
      BY <3>1, <3>2, <3>3
  <2>3. timer' \in [{"out", "in", "client"} -> 0..Idle] /\ recent' \in [Ticks -> BOOLEAN]
    BY <1>11 DEF ClientWrite
  <2>4. owed' \in [Ways -> Int]
    BY <1>11 DEF ClientWrite, ClientPuts, IntoStream
  <2> QED
    BY <1>11, <2>1, <2>2, <2>3, <2>4 DEF ClientWrite
<1>12. ASSUME NEW w \in Ways, ClientEnds(w) PROVE Shape'
  BY <1>12, ShapeClientStop DEF ClientEnds
<1>13. CASE Tick
  <2>1. timer' \in [{"out", "in", "client"} -> 0..Idle]
    <3>1. \A n \in 0..Idle : Later(n) \in 0..Idle
      BY BoundsAssumption DEF Later
    <3>2. /\ DOMAIN timer' = DOMAIN timer
          /\ \A t \in DOMAIN timer : timer'[t] \in {timer[t], Later(timer[t])}
          /\ timer' = [t \in DOMAIN timer |-> timer'[t]]
      BY <1>13 DEF Tick
    <3>3. DOMAIN timer = {"out", "in", "client"}
          /\ \A t \in {"out", "in", "client"} : timer[t] \in 0..Idle
      OBVIOUS
    <3> QED
      BY <3>1, <3>2, <3>3
  <2> QED
    BY <1>13, <2>1 DEF Tick
<1>14. CASE TargetTimeout
  BY <1>14, ShapeClientStop DEF TargetTimeout
<1>15. CASE DialFails
  BY <1>15, ShapeClientStop DEF DialFails
<1>16. ASSUME NEW w \in Ways, Send(w) PROVE Shape'
  <2>1. src' \in [Ways -> 0..SockBuf]
    BY <1>16 DEF Send
  <2>2. owed' \in [Ways -> Int]
    BY <1>16 DEF Send
  <2> QED
    BY <1>16, <2>1, <2>2 DEF Send
<1>17. ASSUME NEW w \in Ways, Receive(w) PROVE Shape'
  <2>1. dst' \in [Ways -> 0..SockBuf]
    BY <1>17 DEF Receive
  <2>2. owed' \in [Ways -> Int]
    BY <1>17 DEF Receive
  <2> QED
    BY <1>17, <2>1, <2>2 DEF Receive
<1>18. ASSUME NEW w \in Ways, Turn(w) PROVE Shape'
  BY <1>18 DEF Turn
<1>19. CASE TargetFails
  BY <1>19, ShapeClientStop DEF TargetFails
<1>20. ASSUME NEW side \in Sides, LoseTunnel(side) PROVE Shape'
  <2>1. PICK w \in Ways : \E n \in 0..link[w] : /\ link' = [link EXCEPT ![w] = @ - n]
                                                /\ owed' = [owed EXCEPT ![w] = @ - n]
    BY <1>20 DEF LoseTunnel, Writes
  <2>2. PICK n \in 0..link[w] : /\ link' = [link EXCEPT ![w] = @ - n]
                                /\ owed' = [owed EXCEPT ![w] = @ - n]
    BY <2>1
  <2>3. link[w] - n \in 0..Window /\ owed[w] - n \in Int
    BY <2>2
  <2>4. link' \in [Ways -> 0..Window] /\ owed' \in [Ways -> Int]
    BY <2>2, <2>3
  <2>5. lost' \in SUBSET Sides
    BY <1>20 DEF LoseTunnel
  <2> QED
    BY <1>20, <2>4, <2>5 DEF LoseTunnel
<1>21. CASE UNCHANGED vars
  BY <1>21 DEF vars
<1> QED
  BY <1>1, <1>2, <1>3, <1>4, <1>5, <1>6, <1>7, <1>8, <1>9, <1>10, <1>11, <1>12,
     <1>13, <1>14, <1>15, <1>16, <1>17, <1>18, <1>19, <1>20, <1>21 DEF Next, ServerStep, ClientStep

-----------------------------------------------------------------------------
(* Nothing is lost.                                                        *)

\* The chunks of a way that lie in a buffer or in a loop's hands, or did when
\* the server's loops ended.
Chunks(w) == src[w] + Held(server[w] = "write") + link[w] + Held(cli.at = w) + dst[w]

\* Once a task is over, some of what is owed may never come.
Accounted == NothingLost /\ \A w \in Ways : Chunks(w) <= owed[w]

LEMMA Numbers ==
    Shape => \A w \in Ways : /\ src[w] \in Nat /\ link[w] \in Nat /\ dst[w] \in Nat
                            /\ owed[w] \in Int
BY BoundsAssumption DEF Shape

ChunksCounted == \A w \in Ways : Chunks(w) \in Nat /\ owed[w] \in Int

LEMMA ChunksInt == Shape => ChunksCounted
BY Numbers DEF ChunksCounted, Chunks, Held

LEMMA ChunksIntNext == Shape' => ChunksCounted'
BY ChunksInt, PTL

\* A step moves chunks, or adds and takes away what it counts as owed (the loss of
\* the tunnel included) ...
Kept == \A w \in Ways : owed[w]' - Chunks(w)' = owed[w] - Chunks(w)

\* ... unless the client drops what its loop holds.
Dropped == /\ cli'.at = "over" /\ owed' = owed
           /\ \A w \in Ways : Chunks(w)' <= Chunks(w)

\* A task that is over stays so.
NoReturn == /\ server.at = "over" => server'.at = "over"
            /\ cli.at = "over" => cli'.at = "over"
            /\ lost \subseteq lost'

LEMMA DropsOnStop ==
    ASSUME Shape, NEW reason \in Reasons, ClientStops(reason) PROVE Dropped
<1>1. /\ cli'.at = "over" /\ owed' = owed /\ src' = src /\ link' = link /\ dst' = dst
      /\ server' = server
  BY DEF ClientStops
<1>2. \A w \in Ways : cli'.at # w
  BY <1>1 DEF Ways
<1>3. \A w \in Ways : Chunks(w)' <= Chunks(w)
  BY <1>1, <1>2, Numbers DEF Chunks, Held
<1> QED
  BY <1>1, <1>3 DEF Dropped

LEMMA KeptOnServerStop ==
    ASSUME Shape, NEW reason \in Reasons, ServerStops(reason) PROVE Kept
BY BoundsAssumption DEF Shape, ServerStops, Kept, Chunks, Held, Ways

\* A chunk comes into the stream, or is written off.
Into(w) == \A v \in Ways :
    /\ owed'[v] \in Int /\ link'[v] \in Int
    /\ IF v = w THEN owed'[v] - link'[v] = owed[v] - link[v] - 1
                ELSE owed'[v] = owed[v] /\ link'[v] = link[v]

LEMMA IntoMoves == ASSUME Shape, NEW w \in Ways, IntoStream(w) PROVE Into(w)
<1>1. CASE Other(Writer(w)) \in lost
  <2>1. owed' = [owed EXCEPT ![w] = owed[w] - 1] /\ link' = link
    BY <1>1 DEF IntoStream
  <2>2. \A v \in Ways : owed'[v] = IF v = w THEN owed[v] - 1 ELSE owed[v]
    BY <2>1 DEF Shape
  <2> QED
    BY <2>1, <2>2, Numbers DEF Into
<1>2. CASE Other(Writer(w)) \notin lost
  <2>1. link' = [link EXCEPT ![w] = link[w] + 1] /\ owed' = owed
    BY <1>2 DEF IntoStream
  <2>2. \A v \in Ways : link'[v] = IF v = w THEN link[v] + 1 ELSE link[v]
    BY <2>1 DEF Shape
  <2> QED
    BY <2>1, <2>2, Numbers DEF Into
<1> QED
  BY <1>1, <1>2

LEMMA KeptOnLoss == ASSUME Shape, NEW side \in Sides, LoseTunnel(side) PROVE Kept
<1>1. PICK w \in Ways : \E n \in 0..link[w] : /\ link' = [link EXCEPT ![w] = @ - n]
                                              /\ owed' = [owed EXCEPT ![w] = @ - n]
  BY DEF LoseTunnel, Writes, Ways
<1>2. PICK n \in 0..link[w] : /\ link' = [link EXCEPT ![w] = @ - n]
                              /\ owed' = [owed EXCEPT ![w] = @ - n]
  BY <1>1
<1>3. \A v \in Ways : IF v = w THEN link'[v] = link[v] - n /\ owed'[v] = owed[v] - n
                               ELSE link'[v] = link[v] /\ owed'[v] = owed[v]
  BY <1>2 DEF Shape
<1>4. src' = src /\ dst' = dst /\ server' = server /\ cli' = cli /\ n \in Int
  BY DEF LoseTunnel
<1>5. \A v \in Ways : owed[v]' - Chunks(v)' = owed[v] - Chunks(v)
  BY <1>3, <1>4, Numbers DEF Chunks, Held
<1> QED
  BY <1>5 DEF Kept

LEMMA KeptOnCopy ==
    ASSUME Shape, NEW w \in Ways,
           ServerRead(w) \/ ServerWrite(w) \/ ClientRead(w) \/ ClientWrite(w)
    PROVE  Kept
<1> USE BoundsAssumption DEF Ways, Kept, Chunks, Held
<1>1. CASE ServerRead(w)
  <2>1. CASE w = "out"
    BY <1>1, <2>1 DEF Shape, ServerRead, Ready
  <2>2. CASE w = "in"
    BY <1>1, <2>2 DEF Shape, ServerRead, Ready
  <2> QED
    BY <2>1, <2>2
<1>2. CASE ServerWrite(w)
  <2>1. CASE w = "out"
    <3>1. /\ server["out"] = "write" /\ server'["out"] = "read" /\ server'["in"] = server["in"]
          /\ cli' = cli
          /\ src' = src /\ dst' = dst
      BY <1>2, <2>1 DEF Shape, ServerWrite, ServerPuts, IntoStream
    <3>2. Into("out")
      BY <1>2, <2>1, IntoMoves DEF ServerWrite, ServerPuts
    <3> QED
      BY <3>1, <3>2, Numbers DEF Into
  <2>2. CASE w = "in"
    <3>1. /\ server["in"] = "write" /\ server'["in"] = "read" /\ server'["out"] = server["out"]
          /\ cli' = cli
          /\ src' = src /\ owed' = owed /\ link' = link
          /\ dst'["in"] = dst["in"] + 1 /\ dst'["out"] = dst["out"]
      BY <1>2, <2>2 DEF Shape, ServerWrite, ServerPuts
    <3> QED
      BY <3>1, Numbers
  <2> QED
    BY <2>1, <2>2
<1>3. CASE ClientRead(w)
  <2>1. CASE w = "out"
    BY <1>3, <2>1 DEF Shape, ClientRead, ClientReady
  <2>2. CASE w = "in"
    BY <1>3, <2>2 DEF Shape, ClientRead, ClientReady
  <2> QED
    BY <2>1, <2>2
<1>4. CASE ClientWrite(w)
  <2>1. CASE w = "out"
    <3>1. /\ cli.at = "out" /\ cli'.at = "copy" /\ server' = server
          /\ src' = src /\ owed' = owed /\ link' = link
          /\ dst'["out"] = dst["out"] + 1 /\ dst'["in"] = dst["in"]
      BY <1>4, <2>1 DEF Shape, ClientWrite, ClientPuts
    <3> QED
      BY <3>1, Numbers
  <2>2. CASE w = "in"
    <3>1. /\ cli.at = "in" /\ cli'.at = "copy" /\ server' = server
          /\ src' = src /\ dst' = dst
      BY <1>4, <2>2 DEF Shape, ClientWrite, ClientPuts, IntoStream
    <3>2. Into("in")
      BY <1>4, <2>2, IntoMoves DEF ClientWrite, ClientPuts
    <3> QED
      BY <3>1, <3>2, Numbers DEF Into
  <2> QED
    BY <2>1, <2>2
<1> QED
  BY <1>1, <1>2, <1>3, <1>4

LEMMA Moves == Shape /\ [Next]_vars => Kept \/ Dropped
<1> SUFFICES ASSUME Shape, [Next]_vars PROVE Kept \/ Dropped
  OBVIOUS
<1> USE BoundsAssumption DEF Ways, Kept, Chunks, Held
<1>1. CASE WriteTarget
  BY <1>1 DEF Shape, WriteTarget
<1>2. CASE WriteTargetFails
  BY <1>2, KeptOnServerStop DEF WriteTargetFails, Reasons
<1>3. ASSUME NEW w \in Ways, ServerRead(w) \/ ServerWrite(w) PROVE Kept
  BY <1>3, KeptOnCopy
<1>5. ASSUME NEW w \in Ways, ServerEnds(w) PROVE Kept
  BY <1>5, KeptOnServerStop DEF ServerEnds, Reasons
<1>6. ASSUME NEW w \in Ways, ServerIdle(w) PROVE Kept
  BY <1>6, KeptOnServerStop DEF ServerIdle, Reasons
<1>7. CASE ReadTarget
  BY <1>7 DEF Shape, ReadTarget
<1>8. CASE Dial
  BY <1>8 DEF Shape, Dial
<1>9. CASE ClientIdle
  BY <1>9, DropsOnStop DEF ClientIdle, Reasons
<1>10. ASSUME NEW w \in Ways, ClientRead(w) \/ ClientWrite(w) PROVE Kept
  BY <1>10, KeptOnCopy
<1>12. ASSUME NEW w \in Ways, ClientEnds(w) PROVE Dropped
  BY <1>12, DropsOnStop DEF ClientEnds, Reasons
<1>13. CASE Tick
  BY <1>13 DEF Shape, Tick
<1>14. CASE TargetTimeout
  BY <1>14, DropsOnStop DEF TargetTimeout, Reasons
<1>15. CASE DialFails
  BY <1>15, DropsOnStop DEF DialFails, Reasons
<1>16. ASSUME NEW w \in Ways, Send(w) PROVE Kept
  <2>1. /\ server' = server /\ cli' = cli /\ link' = link /\ dst' = dst
        /\ src' = [src EXCEPT ![w] = src[w] + 1]
        /\ owed' = [owed EXCEPT ![w] = owed[w] + 1]
    BY <1>16 DEF Send
  <2>2. \A v \in Ways : IF v = w THEN src'[v] = src[v] + 1 /\ owed'[v] = owed[v] + 1
                                 ELSE src'[v] = src[v] /\ owed'[v] = owed[v]
    BY <2>1 DEF Shape
  <2>3. \A v \in Ways : owed[v]' - Chunks(v)' = owed[v] - Chunks(v)
    BY <2>1, <2>2, Numbers
  <2> QED
    BY <2>3
<1>17. ASSUME NEW w \in Ways, Receive(w) PROVE Kept
  <2>1. /\ server' = server /\ cli' = cli /\ link' = link /\ src' = src
        /\ dst' = [dst EXCEPT ![w] = dst[w] - 1]
        /\ owed' = [owed EXCEPT ![w] = owed[w] - 1]
    BY <1>17 DEF Receive
  <2>2. \A v \in Ways : IF v = w THEN dst'[v] = dst[v] - 1 /\ owed'[v] = owed[v] - 1
                                 ELSE dst'[v] = dst[v] /\ owed'[v] = owed[v]
    BY <2>1 DEF Shape
  <2>3. \A v \in Ways : owed[v]' - Chunks(v)' = owed[v] - Chunks(v)
    BY <2>1, <2>2, Numbers
  <2> QED
    BY <2>3
<1>18. ASSUME NEW w \in Ways, Turn(w) PROVE Kept
  BY <1>18 DEF Shape, Turn
<1>19. CASE UNCHANGED vars
  BY <1>19 DEF Shape, vars
<1>20. CASE TargetFails
  BY <1>20, DropsOnStop DEF TargetFails, Reasons
<1>21. ASSUME NEW side \in Sides, LoseTunnel(side) PROVE Kept
  BY <1>21, KeptOnLoss
<1> QED
  BY <1>1, <1>2, <1>3, <1>5, <1>6, <1>7, <1>8, <1>9, <1>10, <1>12,
     <1>13, <1>14, <1>15, <1>16, <1>17, <1>18, <1>19, <1>20, <1>21 DEF Next, ServerStep, ClientStep

\* A step of the server's task is none of the client's.
LEMMA ServerAlone ==
    ASSUME Shape, ServerStep
    PROVE  UNCHANGED <<cli, lost, recent>> /\ timer'["client"] = timer["client"]
<1>1. ASSUME NEW reason \in Reasons, ServerStops(reason)
      PROVE  UNCHANGED <<cli, lost, recent>> /\ timer'["client"] = timer["client"]
  BY <1>1 DEF Shape, ServerStops
<1>2. CASE WriteTarget
  BY <1>2 DEF WriteTarget
<1>3. CASE WriteTargetFails
  BY <1>1, <1>3 DEF WriteTargetFails, Reasons
<1>4. ASSUME NEW w \in Ways, ServerRead(w) \/ ServerWrite(w)
      PROVE  UNCHANGED <<cli, lost, recent>> /\ timer'["client"] = timer["client"]
  BY <1>4 DEF Shape, ServerRead, ServerWrite, Ways
<1>5. ASSUME NEW w \in Ways, ServerEnds(w) \/ ServerIdle(w)
      PROVE  UNCHANGED <<cli, lost, recent>> /\ timer'["client"] = timer["client"]
  BY <1>1, <1>5 DEF ServerEnds, ServerIdle, Reasons, Ways
<1> QED
  BY <1>2, <1>3, <1>4, <1>5 DEF ServerStep

LEMMA OverForGood == Shape /\ [Next]_vars => NoReturn
<1> SUFFICES ASSUME Shape, [Next]_vars PROVE NoReturn
  OBVIOUS
<1>1. CASE ServerStep
  <2>1. cli' = cli /\ lost' = lost
    BY <1>1, ServerAlone
  <2>2. server.at # "over"
    BY <1>1 DEF ServerStep, WriteTarget, WriteTargetFails, ServerRead, ServerWrite,
                ServerEnds, ServerIdle
  <2> QED
    BY <2>1, <2>2 DEF NoReturn
<1>2. CASE ClientStep
  BY <1>2 DEF Shape, NoReturn, ClientStep, ReadTarget, TargetFails, Dial, ClientIdle,
              ClientRead, ClientWrite, ClientEnds, ClientStops, Ways
<1>3. CASE Tick \/ TargetTimeout \/ DialFails \/ \E side \in Sides : LoseTunnel(side)
  BY <1>3 DEF NoReturn, Tick, TargetTimeout, DialFails, ClientStops, LoseTunnel
<1>4. CASE \E w \in Ways : Send(w) \/ Receive(w) \/ Turn(w)
  BY <1>4 DEF NoReturn, Send, Receive, Turn
<1>5. CASE UNCHANGED vars
  BY <1>5 DEF NoReturn, vars
<1> QED
  BY <1>1, <1>2, <1>3, <1>4, <1>5 DEF Next

LEMMA AccountedInit == Init => Accounted
BY DEF Init, Accounted, NothingLost, InFlight, Chunks, Held, Ways

LEMMA AccountedNext == Shape /\ Accounted /\ [Next]_vars => Accounted'
<1> SUFFICES ASSUME Shape, Accounted, [Next]_vars PROVE Accounted'
  OBVIOUS
<1>1. Shape' /\ NoReturn /\ (Kept \/ Dropped)
  BY ShapeNext, OverForGood, Moves
<1>2. \A w \in Ways : /\ Chunks(w) \in Nat /\ Chunks(w)' \in Nat
                      /\ owed[w] \in Int /\ owed[w]' \in Int
  <2>1. \A w \in Ways : Chunks(w) \in Nat /\ owed[w] \in Int
    BY ChunksInt DEF ChunksCounted
  <2>2. \A w \in Ways : Chunks(w)' \in Nat /\ owed[w]' \in Int
    BY <1>1, ChunksIntNext DEF ChunksCounted
  <2> QED
    BY <2>1, <2>2
<1>3. \A w \in Ways : Chunks(w)' <= owed[w]'
  BY <1>1, <1>2 DEF Accounted, Kept, Dropped
<1>4. NothingLost'
  <2>1. SUFFICES ASSUME server'.at # "over", cli'.at # "over", NEW w \in Ways
                 PROVE owed[w]' = Chunks(w)'
    BY DEF NothingLost, InFlight, Chunks
  <2>2. owed[w] = Chunks(w)
    BY <1>1, <2>1 DEF Accounted, NothingLost, InFlight, Chunks, NoReturn
  <2> QED
    BY <1>1, <1>2, <2>1, <2>2 DEF Kept, Dropped
<1> QED
  BY <1>3, <1>4 DEF Accounted

LEMMA Sound == Spec => [](Shape /\ Accounted)
<1>1. Init => Shape /\ Accounted
  BY ShapeInit, AccountedInit
<1>2. Shape /\ Accounted /\ [Next]_vars => (Shape /\ Accounted)'
  BY ShapeNext, AccountedNext
<1> QED
  BY <1>1, <1>2, PTL DEF Spec

\* Type correctness, for buffers and windows of any size: no buffer ever holds
\* more than it may.
THEOREM TypeCorrect == Spec => []TypeOK
<1>1. Shape /\ Accounted => TypeOK
  <2> SUFFICES ASSUME Shape, Accounted PROVE TypeOK
    OBVIOUS
  <2>1. \A w \in Ways : owed[w] \in Nat
    BY ChunksInt DEF ChunksCounted, Accounted
  <2>2. owed \in [Ways -> Nat]
    BY <2>1 DEF Shape
  <2> QED
    BY <2>2 DEF Shape, TypeOK
<1> QED
  BY <1>1, Sound, PTL

\* While both tasks run, a chunk sent and not yet received, nor gone with the
\* tunnel, is in exactly one place (copy_count, copy_bidirectional_idle).
THEOREM StreamsLossless == Spec => []NothingLost
<1>1. Accounted => NothingLost
  BY DEF Accounted
<1> QED
  BY <1>1, Sound, PTL

-----------------------------------------------------------------------------
(* An orderly end delivers everything.                                     *)

\* A task that is over keeps its reason; while the tunnel stands, each side is
\* told of the other's end, so "out" reaches the client only after the server,
\* "in" the server only after the client.
Order == /\ server.why # "none" => server.at = "over"
         /\ cli.why # "none" => cli.at = "over"
         /\ lost = {} => /\ "server" \in heard <=> server.at = "over"
                         /\ "client" \in heard <=> cli.at = "over"
                         /\ cli.why = "out" => server.at = "over"
                         /\ server.why = "in" => cli.at = "over"

\* The first task of the two that ended for way w left nothing behind it, and
\* the rest of the way still holds all that is owed, while the tunnel stands.
LeftOver == lost = {} =>
    /\ server.why = "out" /\ cli.at # "over" =>
          src["out"] = 0 /\ server["out"] = "read" /\ owed["out"] = Chunks("out")
    /\ cli.why = "in" /\ server.at # "over" =>
          src["in"] = 0 /\ owed["in"] = Chunks("in")

Delivers == Order /\ LeftOver /\ EndMeansDelivered

LEMMA DeliversInit == Init => Delivers
BY DEF Init, Delivers, Order, LeftOver, EndMeansDelivered, Ways

LEMMA OrderNext == Shape /\ Order /\ [Next]_vars => Order'
<1> SUFFICES ASSUME Shape, Order, [Next]_vars PROVE Order'
  OBVIOUS
<1>1. CASE WriteTarget
  BY <1>1 DEF Shape, Order, WriteTarget
<1>2. ASSUME NEW reason \in Reasons, ServerStops(reason), server.at # "over",
             lost = {} /\ reason = "in" => cli.at = "over"
      PROVE  Order'
  <2>1. server'.at = "over" /\ server'.why = reason /\ cli' = cli /\ lost' = lost
    BY <1>2 DEF Shape, ServerStops
  <2>2. lost = {} => heard' = heard \cup {"server"}
    BY <1>2 DEF ServerStops, Tell
  <2> QED
    BY <1>2, <2>1, <2>2 DEF Order
<1>3. ASSUME NEW reason \in Reasons, ClientStops(reason), cli.at # "over",
             lost = {} /\ reason = "out" => server.at = "over"
      PROVE  Order'
  <2>1. cli'.at = "over" /\ cli'.why = reason /\ server' = server /\ lost' = lost
    BY <1>3 DEF ClientStops
  <2>2. lost = {} => heard' = heard \cup {"client"}
    BY <1>3 DEF ClientStops, Tell
  <2> QED
    BY <1>3, <2>1, <2>2 DEF Order
<1>4. CASE WriteTargetFails
  BY <1>2, <1>4 DEF WriteTargetFails, Reasons
<1>5. ASSUME NEW w \in Ways, ServerRead(w) \/ ServerWrite(w) PROVE Order'
  BY <1>5 DEF Shape, Order, ServerRead, ServerWrite, Ways
<1>6. ASSUME NEW w \in Ways, ServerEnds(w) \/ ServerIdle(w) PROVE Order'
  <2>1. PICK reason \in Reasons : /\ ServerStops(reason) /\ server.at # "over"
                                  /\ reason = "in" => StreamOver("server")
    BY <1>6 DEF ServerEnds, ServerIdle, Ended, Reasons, Ways
  <2>2. lost = {} /\ reason = "in" => cli.at = "over"
    BY <2>1 DEF StreamOver, Other, Order
  <2> QED
    BY <1>2, <2>1, <2>2
<1>7. CASE ReadTarget \/ Dial
  BY <1>7 DEF Shape, Order, ReadTarget, Dial
<1>8. CASE TargetFails \/ TargetTimeout \/ DialFails \/ ClientIdle
  BY <1>3, <1>8 DEF TargetFails, TargetTimeout, DialFails, ClientIdle, Reasons
<1>9. ASSUME NEW w \in Ways, ClientRead(w) \/ ClientWrite(w) PROVE Order'
  BY <1>9 DEF Shape, Order, ClientRead, ClientWrite, Ways
<1>10. ASSUME NEW w \in Ways, ClientEnds(w) PROVE Order'
  <2>1. PICK reason \in Reasons : /\ ClientStops(reason) /\ cli.at # "over"
                                  /\ reason = "out" => StreamOver("client")
    BY <1>10 DEF ClientEnds, ClientEnded, Reasons, Ways
  <2>2. lost = {} /\ reason = "out" => server.at = "over"
    BY <2>1 DEF StreamOver, Other, Order
  <2> QED
    BY <1>3, <2>1, <2>2
<1>11. CASE Tick \/ (\E w \in Ways : Send(w) \/ Receive(w) \/ Turn(w)) \/ UNCHANGED vars
  BY <1>11 DEF Order, Tick, Send, Receive, Turn, vars
<1>12. ASSUME NEW side \in Sides, LoseTunnel(side) PROVE Order'
  BY <1>12 DEF Order, LoseTunnel
<1> QED
  BY <1>1, <1>4, <1>5, <1>6, <1>7, <1>8, <1>9, <1>10, <1>11, <1>12
     DEF Next, ServerStep, ClientStep

\* The server's task ends.
LEMMA DeliversServerEnd ==
    ASSUME Shape, Accounted, Delivers, lost = {},
           NEW reason \in Reasons, ServerStops(reason), server.at # "over",
           \/ reason \notin Ways
           \/ server.at = "copy" /\ server[reason] = "read" /\ Ended(reason)
    PROVE  LeftOver' /\ EndMeansDelivered'
<1> USE Numbers
<1>1. /\ server'.at = "over" /\ server'.why = reason
      /\ server'["out"] = server["out"] /\ server'["in"] = server["in"]
      /\ UNCHANGED <<peer, src, link, dst, cli, owed>>
  BY DEF Shape, ServerStops
<1>2. ASSUME reason = "out", cli.at # "over"
      PROVE  src["out"] = 0 /\ server["out"] = "read" /\ owed["out"] = Chunks("out")
  BY <1>2 DEF Accounted, NothingLost, InFlight, Chunks, Ended, Ready, Ways
<1>3. LeftOver'
  BY <1>1, <1>2 DEF LeftOver, Chunks
<1>4. ASSUME NEW w \in Ways, reason = w, cli.why = w PROVE owed[w] = dst[w]
  <2>1. w = "in"
    BY <1>4 DEF Delivers, Order, Ways
  <2>2. link["in"] = 0 /\ server["in"] = "read" /\ cli.at = "over"
    BY <1>4, <2>1 DEF Ended, Ready, StreamOver, Other, Delivers, Order, Ways
  <2>3. src["in"] = 0 /\ owed["in"] = Chunks("in")
    BY <1>4, <2>1 DEF Delivers, LeftOver
  <2> QED
    BY <2>1, <2>2, <2>3 DEF Chunks, Held, Ways
<1> QED
  BY <1>1, <1>3, <1>4 DEF EndMeansDelivered

\* The client's task ends.
LEMMA DeliversClientEnd ==
    ASSUME Shape, Accounted, Delivers, lost = {},
           NEW reason \in Reasons, ClientStops(reason), cli.at # "over",
           \/ reason \notin Ways
           \/ cli.at = "copy" /\ Chosen(reason) /\ ClientEnded(reason)
    PROVE  LeftOver' /\ EndMeansDelivered'
<1> USE Numbers
<1>1. /\ cli'.at = "over" /\ cli'.why = reason
      /\ UNCHANGED <<peer, src, link, dst, server, owed>>
  BY DEF ClientStops
<1>2. ASSUME reason = "in", server.at # "over"
      PROVE  src["in"] = 0 /\ owed["in"] = Chunks("in") /\ cli.at # "in"
  BY <1>2 DEF Accounted, NothingLost, InFlight, Chunks, ClientEnded, ClientReady, Ways
<1>3. LeftOver'
  BY <1>1, <1>2 DEF LeftOver, Chunks, Held
<1>4. ASSUME NEW w \in Ways, reason = w, server.why = w PROVE owed[w] = dst[w]
  <2>1. w = "out"
    BY <1>4 DEF Delivers, Order, Ways
  <2>2. link["out"] = 0 /\ cli.at = "copy"
    BY <1>4, <2>1 DEF ClientEnded, ClientReady, Ways
  <2>3. src["out"] = 0 /\ server["out"] = "read" /\ owed["out"] = Chunks("out")
    BY <1>4, <2>1 DEF Delivers, LeftOver
  <2> QED
    BY <2>1, <2>2, <2>3 DEF Chunks, Held, Ways
<1> QED
  BY <1>1, <1>3, <1>4 DEF EndMeansDelivered

\* The server's task goes on.
LEMMA DeliversServerStep ==
    ASSUME Shape, Accounted, Delivers, Kept, lost = {},
           server.at # "over", server'.why = server.why, cli' = cli,
           src'["in"] = src["in"], Shape'
    PROVE  LeftOver' /\ EndMeansDelivered'
<1>1. server.why = "none"
  BY DEF Delivers, Order
<1>2. ASSUME cli.why = "in" PROVE src'["in"] = 0 /\ owed'["in"] = Chunks("in")'
  <2>1. src["in"] = 0 /\ owed["in"] = Chunks("in")
    BY <1>2 DEF Delivers, LeftOver
  <2>2. /\ Chunks("in") \in Nat /\ owed["in"] \in Int
        /\ Chunks("in")' \in Nat /\ owed'["in"] \in Int
    BY ChunksInt, ChunksIntNext DEF ChunksCounted, Ways
  <2> QED
    BY <2>1, <2>2 DEF Kept, Ways
<1> QED
  BY <1>1, <1>2 DEF LeftOver, EndMeansDelivered, Ways

\* The client's task goes on.
LEMMA DeliversClientStep ==
    ASSUME Shape, Accounted, Delivers, Kept, lost = {},
           cli.at # "over", cli'.why = cli.why, server' = server,
           src'["out"] = src["out"], Shape'
    PROVE  LeftOver' /\ EndMeansDelivered'
<1>1. cli.why = "none"
  BY DEF Delivers, Order
<1>2. ASSUME server.why = "out"
      PROVE  src'["out"] = 0 /\ server'["out"] = "read" /\ owed'["out"] = Chunks("out")'
  <2>1. src["out"] = 0 /\ server["out"] = "read" /\ owed["out"] = Chunks("out")
    BY <1>2 DEF Delivers, LeftOver
  <2>2. /\ Chunks("out") \in Nat /\ owed["out"] \in Int
        /\ Chunks("out")' \in Nat /\ owed'["out"] \in Int
    BY ChunksInt, ChunksIntNext DEF ChunksCounted, Ways
  <2> QED
    BY <2>1, <2>2 DEF Kept, Ways
<1> QED
  BY <1>1, <1>2 DEF LeftOver, EndMeansDelivered, Ways

\* An endpoint sends, receives or turns, or time passes.
LEMMA DeliversOutside ==
    ASSUME Shape, Accounted, Delivers, lost = {}, UNCHANGED <<server, cli, link>>,
           \/ \E w \in Ways : Send(w) \/ Receive(w)
           \/ UNCHANGED <<src, dst, owed>>
    PROVE  LeftOver' /\ EndMeansDelivered'
<1> USE Numbers
<1>1. CASE UNCHANGED <<src, dst, owed>>
  BY <1>1 DEF Delivers, LeftOver, EndMeansDelivered, Chunks
<1>2. ASSUME NEW w \in Ways, Send(w) PROVE LeftOver' /\ EndMeansDelivered'
  <2>1. /\ src' = [src EXCEPT ![w] = src[w] + 1] /\ owed' = [owed EXCEPT ![w] = owed[w] + 1]
        /\ dst' = dst /\ Attached(w)
    BY <1>2 DEF Send
  <2>2. \A v \in Ways \ {w} : src'[v] = src[v] /\ owed'[v] = owed[v]
    BY <2>1 DEF Shape
  <2>3. ~(server.why = "out" /\ w = "out") /\ ~(cli.why = "in" /\ w = "in")
    BY <2>1 DEF Delivers, Order, Attached, Connected
  <2>4. LeftOver'
    BY <2>1, <2>2, <2>3 DEF Delivers, LeftOver, Chunks, Ways
  <2>5. EndMeansDelivered'
    BY <2>1, <2>2, <2>3 DEF Delivers, EndMeansDelivered, Ways
  <2> QED
    BY <2>4, <2>5
<1>3. ASSUME NEW w \in Ways, Receive(w) PROVE LeftOver' /\ EndMeansDelivered'
  <2>1. /\ dst' = [dst EXCEPT ![w] = dst[w] - 1] /\ owed' = [owed EXCEPT ![w] = owed[w] - 1]
        /\ src' = src
    BY <1>3 DEF Receive
  <2>2. \A v \in Ways : IF v = w THEN dst'[v] = dst[v] - 1 /\ owed'[v] = owed[v] - 1
                                 ELSE dst'[v] = dst[v] /\ owed'[v] = owed[v]
    BY <2>1 DEF Shape
  <2>3. \A v \in Ways : owed[v] = Chunks(v) => owed'[v] = Chunks(v)'
    BY <2>1, <2>2 DEF Chunks, Held
  <2>4. LeftOver'
    BY <2>1, <2>3 DEF Delivers, LeftOver, Ways
  <2>5. EndMeansDelivered'
    BY <2>2 DEF Delivers, EndMeansDelivered
  <2> QED
    BY <2>4, <2>5
<1> QED
  BY <1>1, <1>2, <1>3

LEMMA DeliversNext == Shape /\ Accounted /\ Delivers /\ [Next]_vars => Delivers'
<1> SUFFICES ASSUME Shape, Accounted, Delivers, [Next]_vars PROVE Delivers'
  OBVIOUS
<1>1. Order' /\ Shape' /\ (Kept \/ Dropped)
  BY OrderNext, ShapeNext, Moves DEF Delivers
<1>2. lost' # {} => LeftOver' /\ EndMeansDelivered'
  BY DEF LeftOver, EndMeansDelivered
<1>. SUFFICES ASSUME lost' = {} PROVE LeftOver' /\ EndMeansDelivered'
  BY <1>1, <1>2 DEF Delivers
<1>9. lost = {}
  BY OverForGood DEF NoReturn
<1>3. CASE ServerStep
  <2>1. CASE WriteTarget
    <3>1. /\ server.at # "over" /\ server'.why = server.why
          /\ UNCHANGED <<cli, src, link, dst, owed>>
          /\ server'["out"] = server["out"] /\ server'["in"] = server["in"]
      BY <2>1 DEF Shape, WriteTarget
    <3>2. Kept
      BY <3>1 DEF Kept, Chunks, Ways
    <3> QED
      BY <3>1, <3>2, <1>1, <1>9, DeliversServerStep
  <2>2. CASE WriteTargetFails
    BY <2>2, <1>9, DeliversServerEnd DEF WriteTargetFails, Reasons, Ways
  <2>3. ASSUME NEW w \in Ways, ServerRead(w) \/ ServerWrite(w)
        PROVE  LeftOver' /\ EndMeansDelivered'
    <3>1. /\ server.at = "copy" /\ server'.why = server.why /\ cli' = cli
          /\ src'["in"] = src["in"]
      BY <2>3 DEF Shape, ServerRead, ServerWrite, Ways
    <3>2. Kept
      BY <2>3, KeptOnCopy
    <3> QED
      BY <3>1, <3>2, <1>1, <1>9, DeliversServerStep
  <2>4. ASSUME NEW w \in Ways, ServerEnds(w) PROVE LeftOver' /\ EndMeansDelivered'
    BY <2>4, <1>9, DeliversServerEnd DEF ServerEnds, Reasons, Ways
  <2>5. ASSUME NEW w \in Ways, ServerIdle(w) PROVE LeftOver' /\ EndMeansDelivered'
    BY <2>5, <1>9, DeliversServerEnd DEF ServerIdle, Reasons, Ways
  <2> QED
    BY <1>3, <2>1, <2>2, <2>3, <2>4, <2>5 DEF ServerStep
<1>5. CASE TargetFails \/ TargetTimeout \/ DialFails
  BY <1>5, <1>9, DeliversClientEnd DEF TargetFails, TargetTimeout, DialFails, Reasons, Ways
<1>4. CASE ClientStep
  <2>1. CASE ReadTarget \/ Dial
    <3>1. /\ cli.at # "over" /\ cli'.why = cli.why /\ server' = server
          /\ src' = src /\ Kept
      BY <2>1 DEF Shape, ReadTarget, Dial, Kept, Chunks, Held, Ways
    <3> QED
      BY <3>1, <1>1, <1>9, DeliversClientStep
  <2>2. CASE ClientIdle
    BY <2>2, <1>9, DeliversClientEnd DEF ClientIdle, Reasons, Ways
  <2>3. ASSUME NEW w \in Ways, ClientRead(w) \/ ClientWrite(w)
        PROVE  LeftOver' /\ EndMeansDelivered'
    <3>1. /\ cli.at # "over" /\ cli'.why = cli.why /\ server' = server
          /\ src'["out"] = src["out"]
      BY <2>3 DEF Shape, ClientRead, ClientWrite, Ways
    <3>2. Kept
      BY <2>3, KeptOnCopy
    <3> QED
      BY <3>1, <3>2, <1>1, <1>9, DeliversClientStep
  <2>4. ASSUME NEW w \in Ways, ClientEnds(w) PROVE LeftOver' /\ EndMeansDelivered'
    BY <2>4, <1>9, DeliversClientEnd DEF ClientEnds, Reasons, Ways
  <2> QED
    BY <1>4, <1>5, <2>1, <2>2, <2>3, <2>4 DEF ClientStep
<1>6. CASE Tick
  BY <1>6, <1>9, DeliversOutside DEF Tick
<1>7. CASE \E w \in Ways : Send(w) \/ Receive(w) \/ Turn(w)
  BY <1>7, <1>9, DeliversOutside DEF Send, Receive, Turn
<1>8. CASE UNCHANGED vars
  BY <1>8, <1>9, DeliversOutside DEF vars
<1>10. CASE \E side \in Sides : LoseTunnel(side)
  BY <1>10 DEF LoseTunnel
<1> QED
  BY <1>3, <1>4, <1>5, <1>6, <1>7, <1>8, <1>10 DEF Next

\* A sender that finished, on a connection that ended for that reason on both
\* sides while the tunnel stood, has had everything delivered (proxy.rs:35-36,
\* client.rs:391-402), for buffers and windows of any size.
THEOREM OrderlyEndDelivers == Spec => []EndMeansDelivered
<1>1. Init => Delivers
  BY DeliversInit
<1>2. Shape /\ Accounted /\ Delivers /\ [Next]_vars => Delivers'
  BY DeliversNext
<1>3. Delivers => EndMeansDelivered
  BY DEF Delivers
<1> QED
  BY <1>1, <1>2, <1>3, Sound, PTL DEF Spec

-----------------------------------------------------------------------------
(* The client's idle timer.                                                *)

\* While the loop waits, its timer counts the ticks since it last moved a chunk;
\* otherwise there is no timer.
TimerTells == /\ cli.at = "copy" => \A n \in Ticks : n < timer["client"] => ~recent[n]
              /\ cli.at # "copy" => timer["client"] = 0
              /\ cli.why # "none" => cli.at = "over"

LEMMA TimerInit == Init => TimerTells
BY DEF Init, TimerTells

LEMMA TimerNext == Shape /\ TimerTells /\ [Next]_vars => TimerTells'
<1> SUFFICES ASSUME Shape, TimerTells, [Next]_vars PROVE TimerTells'
  OBVIOUS
<1> USE BoundsAssumption
<1>1. CASE ServerStep
  BY <1>1, ServerAlone DEF TimerTells
<1>2. CASE ReadTarget \/ Dial
  <2>1. /\ cli.at \in {"target", "dial"} /\ cli'.why = cli.why
        /\ timer' = timer /\ recent' = recent
        /\ cli'.at \in {"dial", "copy"}
    BY <1>2 DEF Shape, ReadTarget, Dial
  <2> QED
    BY <2>1 DEF TimerTells, Ticks
<1>3. ASSUME NEW w \in Ways, ClientRead(w) PROVE TimerTells'
  BY <1>3 DEF Shape, TimerTells, ClientRead, Ways
<1>4. ASSUME NEW w \in Ways, ClientWrite(w) PROVE TimerTells'
  <2>1. timer'["client"] = 0 /\ cli'.at = "copy" /\ cli'.why = cli.why /\ cli.at = w
    BY <1>4 DEF Shape, TimerTells, ClientWrite, Ways
  <2> QED
    BY <2>1 DEF TimerTells, Ways, Ticks
<1>5. ASSUME NEW reason \in Reasons, ClientStops(reason) PROVE TimerTells'
  BY <1>5 DEF Shape, TimerTells, ClientStops
<1>6. CASE ClientIdle \/ TargetTimeout \/ TargetFails \/ DialFails
           \/ \E w \in Ways : ClientEnds(w)
  BY <1>5, <1>6 DEF ClientIdle, TargetTimeout, TargetFails, DialFails, ClientEnds, Reasons, Ways
<1>7. CASE Tick
  <2>1. cli' = cli /\ timer["client"] \in 0..Idle
    BY <1>7 DEF Shape, Tick
  <2>2. timer'["client"] = IF cli.at = "copy" THEN Later(timer["client"]) ELSE timer["client"]
    BY <1>7 DEF Shape, Tick
  <2>3. \A n \in Ticks : recent'[n] <=> n > 0 /\ recent[n - 1]
    BY <1>7 DEF Tick
  <2>4. ASSUME cli.at = "copy", NEW n \in Ticks, n < timer'["client"] PROVE ~recent'[n]
    <3>1. CASE n = 0
      BY <2>3, <3>1
    <3>2. CASE n > 0
      <4>1. n - 1 \in Ticks /\ n - 1 < timer["client"]
        BY <2>1, <2>2, <2>4, <3>2 DEF Later, Ticks
      <4>2. ~recent[n - 1]
        BY <2>4, <4>1 DEF TimerTells
      <4> QED
        BY <2>3, <4>2
    <3> QED
      BY <3>1, <3>2 DEF Ticks
  <2> QED
    BY <2>1, <2>2, <2>4 DEF TimerTells
<1>8. CASE \E w \in Ways : Send(w) \/ Receive(w) \/ Turn(w)
  BY <1>8 DEF TimerTells, Send, Receive, Turn
<1>9. CASE \E side \in Sides : LoseTunnel(side)
  BY <1>9 DEF TimerTells, LoseTunnel
<1>10. CASE UNCHANGED vars
  BY <1>10 DEF TimerTells, vars
<1> QED
  BY <1>1, <1>2, <1>3, <1>4, <1>6, <1>7, <1>8, <1>9, <1>10 DEF Next, ClientStep

\* client.rs:373-375: the client gives a connection up as idle only if neither
\* way moved anything for the whole timeout, whatever the timeout is.
THEOREM ClientIdleSound == Spec => ClientIdleMeansQuiet
<1>1. ASSUME Shape, TimerTells, [Next]_vars, cli'.why = "idle", cli.why = "none"
      PROVE  \A n \in Ticks : ~recent[n]
  <2>1. ClientIdle
    <3>1. ~ServerStep
      BY <1>1, ServerAlone
    <3>2. ~ReadTarget /\ ~Dial
      BY <1>1 DEF Shape, ReadTarget, Dial
    <3>3. ~TargetTimeout /\ ~TargetFails /\ ~DialFails
      BY <1>1 DEF TargetTimeout, TargetFails, DialFails, ClientStops
    <3>4. \A w \in Ways : ~ClientRead(w) /\ ~ClientWrite(w) /\ ~ClientEnds(w)
      BY <1>1 DEF Shape, ClientRead, ClientWrite, ClientEnds, ClientStops, Ways
    <3>5. /\ \A w \in Ways : ~Send(w) /\ ~Receive(w) /\ ~Turn(w)
          /\ \A side \in Sides : ~LoseTunnel(side)
          /\ ~Tick /\ ~UNCHANGED vars
      BY <1>1 DEF Send, Receive, Turn, LoseTunnel, Tick, vars
    <3> QED
      BY <1>1, <3>1, <3>2, <3>3, <3>4, <3>5 DEF Next, ClientStep
  <2>2. cli.at = "copy" /\ timer["client"] = Idle
    BY <2>1 DEF ClientIdle
  <2> QED
    BY <1>1, <2>2, BoundsAssumption DEF TimerTells, Ticks
<1>2. Shape /\ TimerTells /\ [Next]_vars =>
         [cli'.why = "idle" /\ cli.why = "none" => \A n \in Ticks : ~recent[n]]_vars
  BY <1>1
<1> QED
  BY <1>2, TimerInit, TimerNext, Sound, PTL DEF Spec, ClientIdleMeansQuiet

-----------------------------------------------------------------------------
(* The refinement: the connection is a TwoWayPipe.                         *)

Flight == [w \in Ways |-> InFlight(w)]
CutOff == {side \in {"server", "client"} :
              IF side = "server" THEN server.at = "over" ELSE cli.at = "over"}

LEMMA FlightCounted == Shape => \A w \in Ways : InFlight(w) \in Nat
BY Numbers DEF InFlight, Held

LEMMA FlightCountedNext == Shape' => \A w \in Ways : InFlight(w)' \in Nat
<1>1. (Shape => \A w \in Ways : InFlight(w) \in Nat)'
  BY FlightCounted, PTL
<1> QED
  BY <1>1

\* While nothing is given up, what is on its way changes as what is owed does.
LEMMA FlightFollows ==
    ASSUME Shape, Shape', Kept,
           server'.at = "over" <=> server.at = "over", server.at = "over" => server' = server
    PROVE  \A w \in Ways : InFlight(w)' - InFlight(w) = owed'[w] - owed[w]
<1> SUFFICES ASSUME NEW w \in Ways PROVE InFlight(w)' - InFlight(w) = owed'[w] - owed[w]
  OBVIOUS
<1>1. /\ Chunks(w) \in Nat /\ owed[w] \in Int /\ Chunks(w)' \in Nat /\ owed'[w] \in Int
      /\ owed'[w] - Chunks(w)' = owed[w] - Chunks(w)
  BY ChunksInt, ChunksIntNext DEF ChunksCounted, Kept
<1>2. CASE server.at # "over"
  BY <1>1, <1>2 DEF InFlight, Chunks
<1>3. CASE server.at = "over"
  <2>1. server'[w] = server[w] /\ server'.at = "over"
    BY <1>3
  <2>2. /\ src[w] \in Nat /\ link[w] \in Nat /\ dst[w] \in Nat
        /\ src'[w] \in Nat /\ link'[w] \in Nat /\ dst'[w] \in Nat
    BY BoundsAssumption DEF Shape
  <2>3. Chunks(w) = InFlight(w) + Held(server[w] = "write")
    BY <1>3, <2>2 DEF InFlight, Chunks, Held
  <2>4. Chunks(w)' = InFlight(w)' + Held(server[w] = "write")
    BY <2>1, <2>2 DEF InFlight, Chunks, Held
  <2>5. Held(server[w] = "write") \in Int /\ InFlight(w) \in Int /\ InFlight(w)' \in Int
    BY FlightCounted, FlightCountedNext DEF Held
  <2> QED
    BY <1>1, <2>3, <2>4, <2>5
<1> QED
  BY <1>2, <1>3

\* Nothing is put in, taken out, given up or written off.
LEMMA InsideStep ==
    ASSUME Shape, Shape', Kept, UNCHANGED <<owed, lost>>,
           server'.at = "over" <=> server.at = "over", server.at = "over" => server' = server,
           cli'.at = "over" <=> cli.at = "over"
    PROVE  UNCHANGED Pipe!vars
<1>1. \A w \in Ways : InFlight(w) \in Nat /\ InFlight(w)' \in Nat /\ owed[w] \in Int
  BY FlightCounted, FlightCountedNext, Numbers
<1>2. ASSUME NEW w \in Ways PROVE InFlight(w)' = InFlight(w)
  BY <1>1, FlightFollows
<1>3. Flight' = Flight
  BY <1>2 DEF Flight
<1>4. CutOff' = CutOff
  BY DEF CutOff
<1> QED
  BY <1>3, <1>4 DEF Pipe!vars, Flight, CutOff

\* Chunks are written off.
LEMMA BreakStep ==
    ASSUME Shape, Shape', Kept, lost' # {},
           NEW w \in Ways, NEW n \in 0..Window, owed' = [owed EXCEPT ![w] = owed[w] - n],
           server'.at = "over" <=> server.at = "over", server.at = "over" => server' = server,
           cli'.at = "over" <=> cli.at = "over"
    PROVE  Pipe!Next
<1>1. \A v \in Ways : InFlight(v) \in Nat /\ InFlight(v)' \in Nat /\ owed[v] \in Int
  BY FlightCounted, FlightCountedNext, Numbers
<1>2. \A v \in Ways : owed'[v] = IF v = w THEN owed[v] - n ELSE owed[v]
  BY DEF Shape
<1>3. \A v \in Ways : InFlight(v)' = IF v = w THEN InFlight(v) - n ELSE InFlight(v)
  <2> SUFFICES ASSUME NEW v \in Ways
               PROVE  InFlight(v)' = IF v = w THEN InFlight(v) - n ELSE InFlight(v)
    OBVIOUS
  <2>1. InFlight(v)' - InFlight(v) = owed'[v] - owed[v]
    BY FlightFollows
  <2>2. n \in Int /\ InFlight(v) \in Int /\ InFlight(v)' \in Int /\ owed[v] \in Int
    BY <1>1, BoundsAssumption
  <2>3. owed'[v] - owed[v] = IF v = w THEN 0 - n ELSE 0
    BY <1>2, <2>2
  <2> QED
    BY <2>1, <2>2, <2>3
<1>4. Flight' = [Flight EXCEPT ![w] = Flight[w] - n]
  BY <1>3 DEF Flight
<1>5. n <= Flight[w] /\ n \in 0 .. 2 * SockBuf + Window + 2
  BY <1>1, <1>3, BoundsAssumption DEF Flight
<1>6. CutOff' = CutOff
  BY DEF CutOff
<1>7. Pipe!Break(w, n)
  BY <1>4, <1>5, <1>6 DEF Pipe!Break, Flight, CutOff
<1> QED
  BY <1>5, <1>7 DEF Pipe!Next

\* What a way can hold.
LEMMA Fits == Shape => \A w \in Ways : src[w] < SockBuf => InFlight(w) < 2 * SockBuf + Window + 2
<1> SUFFICES ASSUME Shape, NEW w \in Ways, src[w] < SockBuf
             PROVE  InFlight(w) < 2 * SockBuf + Window + 2
  OBVIOUS
<1>1. src[w] \in 0..SockBuf /\ dst[w] \in 0..SockBuf /\ link[w] \in 0..Window
  BY DEF Shape
<1>2. Held(server.at # "over" /\ server[w] = "write") \in 0..1 /\ Held(cli.at = w) \in 0..1
  BY DEF Held
<1> QED
  BY <1>1, <1>2, BoundsAssumption DEF InFlight

LEMMA PutStep == ASSUME Shape, Shape', NEW w \in Ways, Send(w) PROVE Pipe!Put(w)
<1>1. /\ server' = server /\ cli' = cli /\ link' = link /\ dst' = dst /\ lost' = lost
      /\ src' = [src EXCEPT ![w] = src[w] + 1] /\ src[w] < SockBuf
      /\ owed' = [owed EXCEPT ![w] = owed[w] + 1]
  BY DEF Send
<1>2. \A v \in Ways : InFlight(v)' = IF v = w THEN InFlight(v) + 1 ELSE InFlight(v)
  <2>1. \A v \in Ways : src'[v] = IF v = w THEN src[v] + 1 ELSE src[v]
    BY <1>1 DEF Shape
  <2> QED
    BY <1>1, <2>1, Numbers DEF InFlight, Held
<1>3. Flight' = [Flight EXCEPT ![w] = Flight[w] + 1]
  BY <1>2 DEF Flight
<1>4. Flight[w] < 2 * SockBuf + Window + 2
  BY <1>1, Fits DEF Flight
<1>5. CutOff' = CutOff
  BY <1>1 DEF CutOff
<1> QED
  BY <1>1, <1>3, <1>4, <1>5 DEF Pipe!Put, Flight, CutOff

LEMMA TakeStep == ASSUME Shape, Shape', NEW w \in Ways, Receive(w) PROVE Pipe!Take(w)
<1>1. /\ server' = server /\ cli' = cli /\ link' = link /\ src' = src /\ lost' = lost
      /\ dst' = [dst EXCEPT ![w] = dst[w] - 1] /\ dst[w] > 0
      /\ owed' = [owed EXCEPT ![w] = owed[w] - 1]
  BY DEF Receive
<1>2. \A v \in Ways : InFlight(v)' = IF v = w THEN InFlight(v) - 1 ELSE InFlight(v)
  <2>1. \A v \in Ways : dst'[v] = IF v = w THEN dst[v] - 1 ELSE dst[v]
    BY <1>1 DEF Shape
  <2> QED
    BY <1>1, <2>1, Numbers DEF InFlight, Held
<1>3. Flight' = [Flight EXCEPT ![w] = Flight[w] - 1]
  BY <1>2 DEF Flight
<1>4. Flight[w] > 0
  BY <1>1, Numbers DEF Flight, InFlight, Held
<1>5. CutOff' = CutOff
  BY <1>1 DEF CutOff
<1> QED
  BY <1>1, <1>3, <1>4, <1>5 DEF Pipe!Take, Flight, CutOff

\* The server's end is given up with what its two loops hold ...
LEMMA ServerCut ==
    ASSUME Shape, Shape', NEW reason \in Reasons, server.at # "over", ServerStops(reason)
    PROVE  \E held \in SUBSET Ways : Pipe!Cut("server", held)
<1>0. PICK held \in SUBSET Ways : \A w \in Ways : w \in held <=> server[w] = "write"
  <2>1. {w \in Ways : server[w] = "write"} \in SUBSET Ways
    OBVIOUS
  <2> QED
    BY <2>1
<1>1. /\ server'.at = "over" /\ cli' = cli /\ owed' = owed /\ lost' = lost
      /\ src' = src /\ link' = link /\ dst' = dst
  BY DEF Shape, ServerStops
<1>2. \A w \in Ways : InFlight(w)' = IF w \in held THEN InFlight(w) - 1 ELSE InFlight(w)
  BY <1>0, <1>1, Numbers DEF InFlight, Held
<1>3. Flight' = [w \in Ways |-> IF w \in held THEN Flight[w] - 1 ELSE Flight[w]]
  BY <1>2 DEF Flight
<1>4. held \in SUBSET {w \in Ways : Flight[w] > 0}
  BY <1>0, Numbers DEF Flight, InFlight, Held
<1>5. "server" \notin CutOff /\ CutOff' = CutOff \cup {"server"}
  BY <1>1 DEF CutOff
<1>6. Pipe!Cut("server", held)
  BY <1>1, <1>3, <1>4, <1>5 DEF Pipe!Cut, Flight, CutOff
<1> QED
  BY <1>6

\* ... the client's with what its one loop holds.
LEMMA ClientCut ==
    ASSUME Shape, Shape', NEW reason \in Reasons, cli.at # "over", ClientStops(reason)
    PROVE  \E held \in SUBSET Ways : Pipe!Cut("client", held)
<1>0. PICK held \in SUBSET Ways : \A w \in Ways : w \in held <=> cli.at = w
  <2>1. {w \in Ways : cli.at = w} \in SUBSET Ways
    OBVIOUS
  <2> QED
    BY <2>1
<1>1. /\ cli'.at = "over" /\ owed' = owed /\ server' = server /\ lost' = lost
      /\ src' = src /\ link' = link /\ dst' = dst
  BY DEF ClientStops
<1>2. \A w \in Ways : InFlight(w)' = IF w \in held THEN InFlight(w) - 1 ELSE InFlight(w)
  <2>1. \A w \in Ways : cli'.at # w
    BY <1>1 DEF Ways
  <2> QED
    BY <1>0, <1>1, <2>1, Numbers DEF InFlight, Held
<1>3. Flight' = [w \in Ways |-> IF w \in held THEN Flight[w] - 1 ELSE Flight[w]]
  BY <1>2 DEF Flight
<1>4. held \in SUBSET {w \in Ways : Flight[w] > 0}
  BY <1>0, Numbers DEF Flight, InFlight, Held
<1>5. "client" \notin CutOff /\ CutOff' = CutOff \cup {"client"}
  BY <1>1 DEF CutOff
<1>6. \A v, w \in held : v = w
  BY <1>0
<1>7. Pipe!Cut("client", held)
  BY <1>1, <1>3, <1>4, <1>5, <1>6 DEF Pipe!Cut, Flight, CutOff
<1> QED
  BY <1>7

LEMMA PipeStep == Shape /\ Shape' /\ [Next]_vars => [Pipe!Next]_(Pipe!vars)
<1> SUFFICES ASSUME Shape, Shape', [Next]_vars PROVE Pipe!Next \/ UNCHANGED Pipe!vars
  OBVIOUS
<1>c. ASSUME NEW reason \in Reasons, cli.at # "over", ClientStops(reason) PROVE Pipe!Next
  BY <1>c, ClientCut DEF Pipe!Next
<1>s. ASSUME NEW reason \in Reasons, server.at # "over", ServerStops(reason) PROVE Pipe!Next
  BY <1>s, ServerCut DEF Pipe!Next
<1>1. CASE WriteTarget \/ ReadTarget \/ Dial
  <2>1. /\ UNCHANGED <<src, link, dst, owed, lost>>
        /\ server'.at # "over" <=> server.at # "over"
        /\ server.at = "over" => server' = server
        /\ cli'.at # "over" <=> cli.at # "over"
        /\ \A w \in Ways : server'[w] = server[w]
        /\ \A w \in Ways : (cli'.at # w /\ cli.at # w) \/ cli' = cli
    BY <1>1 DEF WriteTarget, ReadTarget, Dial, Shape, Ways
  <2>2. Kept
    BY <2>1, Numbers DEF Kept, Chunks, Held
  <2> QED
    BY <2>1, <2>2, InsideStep
<1>2. CASE WriteTargetFails
  BY <1>2, <1>s DEF WriteTargetFails, Reasons
<1>3. ASSUME NEW w \in Ways, ServerRead(w) \/ ServerWrite(w) \/ ClientRead(w) \/ ClientWrite(w)
      PROVE  Pipe!Next \/ UNCHANGED Pipe!vars
  <2>1. Kept
    BY <1>3, KeptOnCopy
  <2>2. /\ server'.at = "over" <=> server.at = "over"
        /\ server.at = "over" => server' = server
    BY <1>3 DEF ServerRead, ServerWrite, ClientRead, ClientWrite, Shape, Ways
  <2>3. cli'.at = "over" <=> cli.at = "over"
    BY <1>3 DEF ServerRead, ServerWrite, ClientRead, ClientWrite, Shape, Ways
  <2>4. lost' = lost /\ (owed' = owed \/ (lost # {} /\ owed' = [owed EXCEPT ![w] = owed[w] - 1]))
    BY <1>3 DEF ServerRead, ServerWrite, ClientRead, ClientWrite, ServerPuts, ClientPuts, IntoStream
  <2>5. CASE owed' = owed
    BY <2>1, <2>2, <2>3, <2>4, <2>5, InsideStep
  <2>6. CASE lost # {} /\ owed' = [owed EXCEPT ![w] = owed[w] - 1]
    <3>1. 1 \in 0..Window /\ lost' # {}
      BY <2>4, <2>6, BoundsAssumption
    <3> QED
      BY <2>1, <2>2, <2>3, <2>6, <3>1, BreakStep
  <2> QED
    BY <2>4, <2>5, <2>6
<1>4. ASSUME NEW w \in Ways, ServerEnds(w) PROVE Pipe!Next
  BY <1>4, <1>s DEF ServerEnds, Reasons, Ways
<1>5. ASSUME NEW w \in Ways, ServerIdle(w) PROVE Pipe!Next
  BY <1>5, <1>s DEF ServerIdle, Reasons
<1>6. ASSUME NEW w \in Ways, ClientEnds(w) PROVE Pipe!Next
  BY <1>6, <1>c DEF ClientEnds, Reasons, Ways
<1>7. CASE ClientIdle
  BY <1>7, <1>c DEF ClientIdle, Reasons
<1>8. CASE TargetTimeout \/ TargetFails \/ DialFails
  BY <1>8, <1>c DEF TargetTimeout, TargetFails, DialFails, Reasons
<1>9. ASSUME NEW w \in Ways, Send(w) \/ Receive(w) PROVE Pipe!Next
  BY <1>9, PutStep, TakeStep DEF Pipe!Next
<1>10. CASE Tick \/ (\E w \in Ways : Turn(w)) \/ UNCHANGED vars
  <2>1. UNCHANGED <<src, link, dst, server, cli, owed, lost>>
    BY <1>10 DEF Tick, Turn, vars
  <2>2. Kept
    BY <2>1 DEF Kept, Chunks, Held
  <2> QED
    BY <2>1, <2>2, InsideStep
<1>11. ASSUME NEW side \in Sides, LoseTunnel(side) PROVE Pipe!Next
  <2>1. PICK w \in Ways : \E n \in 0..link[w] : owed' = [owed EXCEPT ![w] = @ - n]
    BY <1>11 DEF LoseTunnel, Writes, Ways
  <2>2. PICK n \in 0..link[w] : owed' = [owed EXCEPT ![w] = @ - n]
    BY <2>1
  <2>3. n \in 0..Window
    BY BoundsAssumption DEF Shape
  <2>4. server' = server /\ cli' = cli /\ lost' # {}
    BY <1>11 DEF LoseTunnel
  <2>5. Kept
    BY <1>11, KeptOnLoss
  <2> QED
    BY <2>2, <2>3, <2>4, <2>5, BreakStep
<1> QED
  BY <1>1, <1>2, <1>3, <1>4, <1>5, <1>6, <1>7, <1>8, <1>9, <1>10, <1>11
     DEF Next, ServerStep, ClientStep

\* Sockets, stream and copy loops are a pipe each way, for buffers and windows
\* of any size and any timeout (proxy.rs:29-80, client.rs:376-412).
THEOREM ImplementsTwoWayPipe == Spec => PipeSpec
<1>1. Init => Pipe!Init
  BY DEF Init, Pipe!Init, InFlight, Held, Ways, Sides
<1>2. Spec => []Shape
  BY Sound, PTL
<1> QED
  BY <1>1, <1>2, PipeStep, PTL DEF Spec, PipeSpec, Pipe!Spec

\* Giving an end up drops at most one chunk of each way, at the client one in
\* all; everything else that is owed, and not written off with the tunnel, lies in
\* a buffer or in a running loop's hands.
Missing(w) == owed[w] - InFlight(w)

DropsInHand ==
    /\ \A w \in Ways : /\ Missing(w) >= 0
                       /\ Missing(w) <= Held(server.at = "over") + Held(cli.at = "over")
    /\ Missing("out") + Missing("in") <= 2 * Held(server.at = "over") + Held(cli.at = "over")

\* The same of the pipe's variables, with their types.
Gap(w) == owed[w] - Flight[w]

GapBounded ==
    /\ Flight \in [Ways -> Nat] /\ owed \in [Ways -> Nat]
    /\ \A w \in Ways : /\ Gap(w) >= 0
                       /\ Gap(w) <= Held("server" \in CutOff) + Held("client" \in CutOff)
    /\ Gap("out") + Gap("in") <= 2 * Held("server" \in CutOff) + Held("client" \in CutOff)

LEMMA GapKept ==
    ASSUME GapBounded, Flight' \in [Ways -> Nat], owed' \in [Ways -> Nat],
           \A w \in Ways : Gap(w)' = Gap(w), CutOff' = CutOff
    PROVE  GapBounded'
BY DEF GapBounded, Held, Ways

LEMMA GapStep == GapBounded /\ [Pipe!Next]_(Pipe!vars) => GapBounded'
<1> SUFFICES ASSUME GapBounded, [Pipe!Next]_(Pipe!vars) PROVE GapBounded'
  OBVIOUS
<1>0. \A w \in Ways : Flight[w] \in Nat /\ owed[w] \in Nat /\ Flight[w] <= owed[w]
  BY DEF GapBounded, Gap
<1>1. ASSUME NEW w \in Ways, Pipe!Put(w) PROVE GapBounded'
  <2>1. /\ Flight' = [Flight EXCEPT ![w] = Flight[w] + 1]
        /\ owed' = [owed EXCEPT ![w] = owed[w] + 1]
        /\ CutOff' = CutOff
    BY <1>1 DEF Pipe!Put, Flight, CutOff
  <2>2. Flight' \in [Ways -> Nat] /\ owed' \in [Ways -> Nat]
    BY <2>1 DEF GapBounded
  <2>3. \A v \in Ways : IF v = w THEN Flight'[v] = Flight[v] + 1 /\ owed'[v] = owed[v] + 1
                                 ELSE Flight'[v] = Flight[v] /\ owed'[v] = owed[v]
    BY <2>1 DEF GapBounded
  <2>4. \A v \in Ways : Gap(v)' = Gap(v)
    BY <1>0, <2>3 DEF Gap
  <2> QED
    BY <2>1, <2>2, <2>4, GapKept
<1>2. ASSUME NEW w \in Ways, Pipe!Take(w) PROVE GapBounded'
  <2>1. /\ Flight' = [Flight EXCEPT ![w] = Flight[w] - 1] /\ Flight[w] > 0
        /\ owed' = [owed EXCEPT ![w] = owed[w] - 1]
        /\ CutOff' = CutOff
    BY <1>2 DEF Pipe!Take, Flight, CutOff
  <2>2. Flight' \in [Ways -> Nat] /\ owed' \in [Ways -> Nat]
    <3>1. Flight[w] - 1 \in Nat /\ owed[w] - 1 \in Nat
      BY <1>0, <2>1
    <3> QED
      BY <2>1, <3>1 DEF GapBounded
  <2>3. \A v \in Ways : IF v = w THEN Flight'[v] = Flight[v] - 1 /\ owed'[v] = owed[v] - 1
                                 ELSE Flight'[v] = Flight[v] /\ owed'[v] = owed[v]
    BY <2>1 DEF GapBounded
  <2>4. \A v \in Ways : Gap(v)' = Gap(v)
    BY <1>0, <2>3 DEF Gap
  <2> QED
    BY <2>1, <2>2, <2>4, GapKept
<1>3. ASSUME NEW side \in {"server", "client"}, NEW held \in SUBSET Ways, Pipe!Cut(side, held)
      PROVE  GapBounded'
  <2>1. /\ side \notin CutOff /\ CutOff' = CutOff \cup {side}
        /\ held \subseteq {w \in Ways : Flight[w] > 0}
        /\ side = "client" => \A v, w \in held : v = w
        /\ Flight' = [w \in Ways |-> IF w \in held THEN Flight[w] - 1 ELSE Flight[w]]
        /\ owed' = owed
    BY <1>3 DEF Pipe!Cut, Flight, CutOff
  <2>2. \A w \in Ways : /\ Flight'[w] \in Nat
                        /\ Gap(w)' = IF w \in held THEN Gap(w) + 1 ELSE Gap(w)
                        /\ Gap(w) \in Nat
    BY <1>0, <2>1 DEF Gap
  <2>3. Flight' \in [Ways -> Nat] /\ owed' \in [Ways -> Nat]
    BY <2>1, <2>2 DEF GapBounded
  <2>4. CASE side = "server"
    <3>1. /\ Held("server" \in CutOff) = 0 /\ Held("server" \in CutOff') = 1
          /\ Held("client" \in CutOff') = Held("client" \in CutOff)
          /\ Held("client" \in CutOff) \in 0..1
      BY <2>1, <2>4 DEF Held
    <3>2. /\ Gap("out")' \in Nat /\ Gap("out")' <= Gap("out") + 1
          /\ Gap("in")' \in Nat /\ Gap("in")' <= Gap("in") + 1
          /\ Gap("out") \in Nat /\ Gap("in") \in Nat
      BY <2>2 DEF Ways
    <3>3. \A w \in Ways : Gap(w)' >= 0 /\ Gap(w)' <= 1 + Held("client" \in CutOff)
      BY <3>1, <3>2 DEF GapBounded, Ways
    <3>4. Gap("out")' + Gap("in")' <= 2 + Held("client" \in CutOff)
      BY <3>1, <3>2 DEF GapBounded
    <3> QED
      BY <2>3, <3>1, <3>3, <3>4 DEF GapBounded
  <2>5. CASE side = "client"
    <3>1. /\ Held("client" \in CutOff) = 0 /\ Held("client" \in CutOff') = 1
          /\ Held("server" \in CutOff') = Held("server" \in CutOff)
          /\ Held("server" \in CutOff) \in 0..1
      BY <2>1, <2>5 DEF Held
    <3>2. ~("out" \in held /\ "in" \in held)
      BY <2>1, <2>5
    <3> QED
      BY <2>2, <2>3, <3>1, <3>2 DEF GapBounded, Ways
  <2> QED
    BY <2>4, <2>5
<1>4. ASSUME NEW w \in Ways, NEW n \in 0 .. 2 * SockBuf + Window + 2, Pipe!Break(w, n)
      PROVE  GapBounded'
  <2>0. n \in Nat
    BY BoundsAssumption
  <2>1. /\ Flight' = [Flight EXCEPT ![w] = Flight[w] - n] /\ n <= Flight[w]
        /\ owed' = [owed EXCEPT ![w] = owed[w] - n]
        /\ CutOff' = CutOff
    BY <1>4 DEF Pipe!Break, Flight, CutOff
  <2>2. Flight' \in [Ways -> Nat] /\ owed' \in [Ways -> Nat]
    <3>1. Flight[w] - n \in Nat /\ owed[w] - n \in Nat
      BY <1>0, <2>0, <2>1
    <3> QED
      BY <2>1, <3>1 DEF GapBounded
  <2>3. \A v \in Ways : IF v = w THEN Flight'[v] = Flight[v] - n /\ owed'[v] = owed[v] - n
                                 ELSE Flight'[v] = Flight[v] /\ owed'[v] = owed[v]
    BY <2>1 DEF GapBounded
  <2>4. \A v \in Ways : Gap(v)' = Gap(v)
    BY <1>0, <2>0, <2>1, <2>3 DEF Gap
  <2> QED
    BY <2>1, <2>2, <2>4, GapKept
<1>5. CASE UNCHANGED Pipe!vars
  <2>1. Flight' = Flight /\ owed' = owed /\ CutOff' = CutOff
    BY <1>5 DEF Pipe!vars, Flight, CutOff
  <2> QED
    BY <2>1, GapKept DEF Gap, GapBounded
<1> QED
  BY <1>1, <1>2, <1>3, <1>4, <1>5 DEF Pipe!Next

\* This follows from the abstract specification alone (proxy.rs:35-45,
\* client.rs:394-412).
THEOREM PipeDropsInHand == PipeSpec => []DropsInHand
<1>1. Pipe!Init => GapBounded
  <2> SUFFICES ASSUME Pipe!Init PROVE GapBounded
    OBVIOUS
  <2>1. Flight = [w \in Ways |-> 0] /\ owed = [w \in Ways |-> 0] /\ CutOff = {}
    BY DEF Pipe!Init, Flight, CutOff
  <2> QED
    BY <2>1 DEF GapBounded, Gap, Held, Ways
<1>2. GapBounded => DropsInHand
  <2>1. \A w \in Ways : Gap(w) = Missing(w)
    BY DEF Gap, Missing, Flight
  <2>2. /\ "server" \in CutOff <=> server.at = "over"
        /\ "client" \in CutOff <=> cli.at = "over"
    BY DEF CutOff
  <2> QED
    BY <2>1, <2>2 DEF GapBounded, DropsInHand, Held, Ways
<1> QED
  BY <1>1, <1>2, GapStep, PTL DEF PipeSpec, Pipe!Spec

=============================================================================
