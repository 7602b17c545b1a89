------------------------------ MODULE StatsFeed ------------------------------
(***************************************************************************)
(* The live statistics of the dashboard: the sampler task of server.rs,    *)
(* the list of channels in `WsBroadcaster`, and one `handle_ws` task per   *)
(* dashboard connection.  The sampler builds a message each second, but    *)
(* only while it believes that somebody watches; tunnel tasks broadcast a  *)
(* `session_change` of their own, which the page ignores (useStats.js).    *)
(*                                                                         *)
(* What a message shows is the number of changes (bytes moved, sessions    *)
(* come or gone) that had happened when it was built.  A dashboard is one  *)
(* WebSocket connection; a page that reconnects is another dashboard.      *)
(* Bounds: MaxChanges changes happen, and a second does not pass while     *)
(* some dashboard has MaxInbox messages to forward.                        *)
(***************************************************************************)
EXTENDS Naturals, Sequences, SequencesExt

CONSTANTS Dashboards,   \* WebSocket connections
          IdleTicks,    \* 5: seconds between two looks for subscribers
          MaxChanges, MaxInbox

ASSUME FeedAssumption == /\ IdleTicks \in Nat /\ MaxChanges \in Nat /\ MaxInbox \in Nat \ {0}

VARIABLES
    version,   \* changes so far
    announce,  \* session_change messages tunnel tasks are about to broadcast
    sampler,   \* [at, subs, idle, msg]: the locals of stats_sampler
    senders,   \* WsBroadcaster.clients
    dash,      \* [Dashboards -> [at, inbox, view]]: handle_ws and the page
    fed,       \* dashboards that have been shown a broadcast (history)
    missed     \* checks in a row that left a live dashboard unnoticed (history)

vars == <<version, announce, sampler, senders, dash, fed, missed>>

Message == [kind : {"stats", "session_change"}, shows : 0..MaxChanges]
Stats(n) == [kind |-> "stats", shows |-> n]
SessionChange == [kind |-> "session_change", shows |-> 0]

Init == /\ version = 0
        /\ announce = 0
        /\ sampler = [at |-> "sleep", subs |-> FALSE, idle |-> 0, msg |-> 0]
        /\ senders = {}
        /\ dash = [d \in Dashboards |-> [at |-> "new", inbox |-> <<>>, view |-> 0]]
        /\ fed = {}
        /\ missed = 0

-----------------------------------------------------------------------------
(* WsBroadcaster.                                                          *)

\* A receiver lives from subscribe() until handle_ws returns.
Alive(d) == dash[d].at \in {"subscribed", "greeting", "forward"}

LiveSenders == {d \in senders : Alive(d)}

\* Both broadcasts: each live channel gets the message, the others go.
Broadcast(msg) ==
    /\ senders' = LiveSenders
    /\ dash' = [d \in Dashboards |->
                   IF d \in LiveSenders
                   THEN [dash[d] EXCEPT !.inbox = Append(@, msg)] ELSE dash[d]]

-----------------------------------------------------------------------------
(* stats_sampler: one turn of its loop per second.                         *)

\* Fault: the turns without a look are not counted.
TurnIdling ==
    /\ sampler.at = "sleep"
    /\ \A d \in Dashboards : Len(dash[d].inbox) < MaxInbox
    /\ LET look == sampler.subs \/ sampler.idle >= IdleTicks
           subs == IF look THEN LiveSenders # {} ELSE sampler.subs
       IN  /\ senders' = IF look THEN LiveSenders ELSE senders
           /\ sampler' = [sampler EXCEPT !.at = IF subs THEN "build" ELSE "sleep",
                                         !.subs = subs, !.idle = 0]
           /\ missed' = IF ~subs /\ LiveSenders # {} THEN missed + 1 ELSE 0
    /\ missed <= IdleTicks   \* (keeps the faulty state space finite)
    /\ UNCHANGED <<version, announce, dash, fed>>

\* Fault: a look does not start the count anew.
TurnUnreset ==
    /\ sampler.at = "sleep"
    /\ \A d \in Dashboards : Len(dash[d].inbox) < MaxInbox
    /\ LET look == sampler.subs \/ sampler.idle >= IdleTicks
           subs == IF look THEN LiveSenders # {} ELSE sampler.subs
       IN  /\ senders' = IF look THEN LiveSenders ELSE senders
           /\ sampler' = [sampler EXCEPT !.at = IF subs THEN "build" ELSE "sleep",
                                         !.subs = subs, !.idle = @ + 1]
           /\ missed' = IF ~subs /\ LiveSenders # {} THEN missed + 1 ELSE 0
    /\ UNCHANGED <<version, announce, dash, fed>>

\* A second has passed.  (The rates go into a chart of 120 samples; the figures
\* of a message are read when it is built.)  Subscribers are counted while
\* some are known, or after IdleTicks turns without a look.
Turn ==
    /\ sampler.at = "sleep"
    /\ \A d \in Dashboards : Len(dash[d].inbox) < MaxInbox
    /\ LET look == sampler.subs \/ sampler.idle >= IdleTicks
           subs == IF look THEN LiveSenders # {} ELSE sampler.subs
       IN  /\ senders' = IF look THEN LiveSenders ELSE senders
           /\ sampler' = [sampler EXCEPT !.at = IF subs THEN "build" ELSE "sleep",
                                         !.subs = subs,
                                         !.idle = IF look THEN 0 ELSE @ + 1]
           /\ missed' = IF ~subs /\ LiveSenders # {} THEN missed + 1 ELSE 0
    /\ UNCHANGED <<version, announce, dash, fed>>

Build ==
    /\ sampler.at = "build"
    /\ sampler' = [sampler EXCEPT !.at = "send", !.msg = version]
    /\ UNCHANGED <<version, announce, senders, dash, fed, missed>>

SendStats ==
    /\ sampler.at = "send"
    /\ Broadcast(Stats(sampler.msg))
    /\ sampler' = [sampler EXCEPT !.at = "sleep"]
    /\ UNCHANGED <<version, announce, fed, missed>>

-----------------------------------------------------------------------------
(* The rest of the server, as far as the dashboard shows it.               *)

\* Bytes have moved; or a session has come or gone, and a tunnel task, once
\* it has logged that, is going to tell everybody.
Change ==
    /\ version < MaxChanges
    /\ version' = version + 1
    /\ announce' \in {announce, announce + 1}
    /\ UNCHANGED <<sampler, senders, dash, fed, missed>>

Announce ==
    /\ announce > 0
    /\ announce' = announce - 1
    /\ \A d \in Dashboards : Len(dash[d].inbox) < MaxInbox
    /\ Broadcast(SessionChange)
    /\ UNCHANGED <<version, sampler, fed, missed>>

-----------------------------------------------------------------------------
(* handle_ws: subscribe, send a snapshot, then forward the channel.        *)

Subscribe(d) ==
    /\ dash[d].at = "new"
    /\ senders' = senders \cup {d}
    /\ dash' = [dash EXCEPT ![d].at = "subscribed"]
    /\ UNCHANGED <<version, announce, sampler, fed, missed>>

Snapshot(d) ==
    /\ dash[d].at = "subscribed"
    /\ dash' = [dash EXCEPT ![d].at = "greeting", ![d].view = version]
    /\ UNCHANGED <<version, announce, sampler, senders, fed, missed>>

Greet(d) ==
    /\ dash[d].at = "greeting"
    /\ dash' = [dash EXCEPT ![d].at = "forward"]
    /\ UNCHANGED <<version, announce, sampler, senders, fed, missed>>

\* Fault: of the messages that wait, the newest is taken first.
ForwardNewest(d) ==
    /\ dash[d].at = "forward" /\ dash[d].inbox # <<>>
    /\ LET msg == Last(dash[d].inbox)
       IN  /\ dash' = [dash EXCEPT ![d].inbox = Front(@),
                                   ![d].view = IF msg.kind = "stats" THEN msg.shows ELSE @]
           /\ fed' = IF msg.kind = "stats" THEN fed \cup {d} ELSE fed
    /\ UNCHANGED <<version, announce, sampler, senders, missed>>

Forward(d) ==
    /\ dash[d].at = "forward" /\ dash[d].inbox # <<>>
    /\ LET msg == Head(dash[d].inbox)
       IN  /\ dash' = [dash EXCEPT ![d].inbox = Tail(@),
                                   ![d].view = IF msg.kind = "stats" THEN msg.shows ELSE @]
           /\ fed' = IF msg.kind = "stats" THEN fed \cup {d} ELSE fed
    /\ UNCHANGED <<version, announce, sampler, senders, missed>>

\* The socket closes or fails: noticed while sending or receiving.
Leave(d) ==
    /\ dash[d].at \in {"greeting", "forward"}
    /\ dash' = [dash EXCEPT ![d] = [at |-> "gone", inbox |-> <<>>, view |-> 0]]
    /\ UNCHANGED <<version, announce, sampler, senders, fed, missed>>

-----------------------------------------------------------------------------
SamplerStep == Turn \/ Build \/ SendStats

Next == \/ SamplerStep \/ Change \/ Announce
        \/ \E d \in Dashboards : \/ Subscribe(d) \/ Snapshot(d) \/ Greet(d)
                                 \/ Forward(d) \/ Leave(d)

Spec == Init /\ [][Next]_vars

\* Tokio schedules the sampler and each handle_ws; a page that stays takes what
\* is sent to it.
Fairness == /\ WF_vars(SamplerStep) /\ WF_vars(Announce)
            /\ \A d \in Dashboards : WF_vars(Snapshot(d) \/ Greet(d) \/ Forward(d))

FairSpec == Spec /\ Fairness

-----------------------------------------------------------------------------
(* Properties.                                                             *)

\* Every variable has its type.
TypeOK ==
    /\ version \in 0..MaxChanges /\ announce \in 0..MaxChanges
    /\ sampler \in [at : {"sleep", "build", "send"}, subs : BOOLEAN,
                    idle : 0..IdleTicks, msg : 0..MaxChanges]
    /\ senders \subseteq Dashboards
    /\ dash \in [Dashboards ->
                   [at : {"new", "subscribed", "greeting", "forward", "gone"},
                    inbox : Seq(Message), view : 0..MaxChanges]]
    /\ fed \subseteq Dashboards /\ missed \in Nat

\* server.rs:168-170, 183-184: a dashboard that subscribes while the sampler believes
\* that nobody watches is overlooked for IdleTicks turns at most, then looked for,
\* however dashboards come and go in between.
NoticedInTime == missed <= IdleTicks

\* Once it has shown a broadcast, a dashboard never goes back to older figures
\* (the snapshot alone may be newer than the message that follows it).
ViewsAdvance ==
    [][\A d \in Dashboards : d \in fed /\ Alive(d)' => dash'[d].view >= dash[d].view]_vars

\* A dashboard that stays ends up showing what is the case.
DashboardsCatchUp ==
    <>[](\A d \in Dashboards : dash[d].at = "forward" => dash[d].view = version)

=============================================================================
