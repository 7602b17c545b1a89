---------------------------- MODULE PortExposure ----------------------------
(***************************************************************************)
(* The server side of the tunnel: which client session is registered, and  *)
(* which public port is served by which accept-loop task on behalf of      *)
(* which session.  Three kinds of tasks run concurrently and meet in       *)
(* AppState: one `handle_tunnel` task per tunnel connection, one task per  *)
(* Web UI request, and one `public_accept_loop` task per bound port.       *)
(*                                                                         *)
(* Every lock acquisition or socket call after which another task can run  *)
(* ends a step.  The write guard on the client store is held across        *)
(* persist(), so a store change is one step; so is each use of the         *)
(* sessions lock and of a session's `listeners` mutex.                     *)
(*                                                                         *)
(* Abstractions: a mapping id is drawn once, so the client and the port it *)
(* is created with are constants of it; tokens, the proxy channel's        *)
(* contents and the visitors' data belong to other modules; the order of a *)
(* client's mappings is left open; a port is refused to bind() only when   *)
(* this server already listens on it.                                      *)
(***************************************************************************)
EXTENDS Naturals, FiniteSets

CONSTANTS Clients,     \* client ids the store may hold
          Conns,       \* tunnel connections; a connection stands for its session_id
          Requests,    \* Web UI requests served at the same time
          Mappings,    \* mapping ids
          Ports,       \* public ports
          Owner,       \* [Mappings -> Clients]
          PortOf,      \* [Mappings -> Ports]
          MaxClients,  \* security.max_clients
          None

Tasks == Conns \cup Requests

ASSUME ClientsAssumption == IsFiniteSet(Clients)
ASSUME MaxClientsAssumption == MaxClients \in Nat
ASSUME OwnerAssumption == Owner \in [Mappings -> Clients]
ASSUME PortOfAssumption == PortOf \in [Mappings -> Ports]
ASSUME NoneAssumption == None \notin Clients \cup Tasks \cup Mappings
ASSUME TasksAssumption == /\ Conns \cap Requests = {}
                          /\ Tasks \cap {"map", "lost"} = {}

VARIABLES
    client,    \* [Clients -> Presence]: ClientStore.list
    mapping,   \* [Mappings -> Presence]: the mappings in it
    sessions,  \* [Clients -> Conns \cup {None}]: AppState.sessions
    conn,      \* [Conns -> [at, client]]: progress of handle_tunnel
    job,       \* [Tasks -> Job]: the listener function a task is inside
    pub,       \* [Ports -> Listener]: the accept loop bound to a port
    mishap     \* has a loop died on accept(), or a request between bind and insert?

vars == <<client, mapping, sessions, conn, job, pub, mishap>>

Presence == {"absent", "enabled", "disabled", "deleted"}
Existing == {"enabled", "disabled"}

(***************************************************************************)
(* A task inside start_client_listeners / add_listener / remove_listener / *)
(* remove_client_listeners.  `todo` are the mappings still to be handled,  *)
(* `cur` the one in hand, `arcs` the sessions whose listeners map was      *)
(* cloned out of the table, `guard` whether the task still holds a read    *)
(* guard on the client store.                                              *)
(***************************************************************************)
Job == [at     : {"idle", "start", "find", "add", "bind", "insert",
                  "unlist", "drain", "abort"},
        client : Clients \cup {None},
        cur    : Mappings \cup {None},
        todo   : SUBSET Mappings,
        arcs   : SUBSET Conns,
        guard  : BOOLEAN]

Idle == [at |-> "idle", client |-> None, cur |-> None, todo |-> {},
         arcs |-> {}, guard |-> FALSE]

(***************************************************************************)
(* A bound port.  `conn` is the session whose proxy channel it feeds;      *)
(* `handle` says where its JoinHandle is: still with the task that bound   *)
(* it, in that session's listeners map, or dropped.                        *)
(***************************************************************************)
Listener == [map    : Mappings \cup {None},
             conn   : Conns \cup {None},
             state  : {"free", "running", "aborting"},
             handle : Tasks \cup {None, "map", "lost"}]

Free == [map |-> None, conn |-> None, state |-> "free", handle |-> None]

Init ==
    /\ client = [c \in Clients |-> "absent"]
    /\ mapping = [m \in Mappings |-> "absent"]
    /\ sessions = [c \in Clients |-> None]
    /\ conn = [s \in Conns |-> [at |-> "new", client |-> None]]
    /\ job = [t \in Tasks |-> Idle]
    /\ pub = [p \in Ports |-> Free]
    /\ mishap = FALSE

-----------------------------------------------------------------------------
(* handle_tunnel and drive_server, one task per tunnel connection.         *)

Goto(s, place) == conn' = [conn EXCEPT ![s].at = place]

\* verify_token: the token names an enabled client.  A handshake that fails
\* leaves no trace and is not a step.
Verify(s, c) ==
    /\ conn[s].at = "new"
    /\ client[c] = "enabled"
    /\ conn' = [conn EXCEPT ![s] = [at |-> "verified", client |-> c]]
    /\ UNCHANGED <<client, mapping, sessions, job, pub, mishap>>

\* Limit check and insertion under one write guard.  insert() replaces the
\* client's previous entry, whose listeners map is dropped, not aborted.
Register(s) ==
    /\ conn[s].at = "verified"
    /\ IF Cardinality({c \in Clients : sessions[c] # None}) >= MaxClients
       THEN Goto(s, "gone") /\ UNCHANGED sessions
       ELSE Goto(s, "registered")
            /\ sessions' = [sessions EXCEPT ![conn[s].client] = s]
    /\ UNCHANGED <<client, mapping, job, pub, mishap>>

\* write_status(ok), then start_client_listeners.
Acknowledge(s) ==
    /\ conn[s].at = "registered"
    /\ Goto(s, "starting")
    /\ job' = [job EXCEPT ![s] = [Idle EXCEPT !.at = "start",
                                              !.client = conn[s].client]]
    /\ UNCHANGED <<client, mapping, sessions, pub, mishap>>

\* write_status(ok) fails: `?` leaves the task without touching the table.
AcknowledgeFails(s) ==
    /\ conn[s].at = "registered"
    /\ Goto(s, "failed")
    /\ UNCHANGED <<client, mapping, sessions, job, pub, mishap>>

Drive(s) ==
    /\ conn[s].at = "starting"
    /\ job[s].at = "idle"
    /\ Goto(s, "driving")
    /\ UNCHANGED <<client, mapping, sessions, job, pub, mishap>>

\* Fault: an error leaves the driver without its cleanup.
DisconnectNoCleanup(s) ==
    /\ conn[s].at = "driving"
    /\ Goto(s, "gone")
    /\ UNCHANGED <<client, mapping, sessions, job, pub, mishap>>

\* The yamux connection ends: closed by the peer, or with an error.
Disconnect(s) ==
    /\ conn[s].at = "driving"
    /\ Goto(s, "closing")
    /\ UNCHANGED <<client, mapping, sessions, job, pub, mishap>>

\* Fault: the cleanup does not compare session ids.
UnregisterAny(s) ==
    /\ conn[s].at = "closing"
    /\ Goto(s, "unregistered")
    /\ sessions' = [sessions EXCEPT ![conn[s].client] = None]
    /\ UNCHANGED <<client, mapping, job, pub, mishap>>

\* The entry goes only if it still carries this session_id.
Unregister(s) ==
    /\ conn[s].at = "closing"
    /\ Goto(s, "unregistered")
    /\ sessions' = [c \in Clients |->
                       IF c = conn[s].client /\ sessions[c] = s
                       THEN None ELSE sessions[c]]
    /\ UNCHANGED <<client, mapping, job, pub, mishap>>

\* drive_server returns: proxy_rx is dropped, the proxy channel is closed.
DropChannel(s) ==
    /\ conn[s].at = "unregistered"
    /\ Goto(s, "gone")
    /\ UNCHANGED <<client, mapping, sessions, job, pub, mishap>>

ChannelClosed(s) == conn[s].at \in {"gone", "failed"}

-----------------------------------------------------------------------------
(* listener.rs: the functions shared by tunnel tasks and Web UI requests.  *)

\* The loop of start_client_listeners goes on, or the function returns.
Continue(j) == IF j.todo = {} THEN Idle
               ELSE [j EXCEPT !.at = "add", !.cur = None, !.arcs = {}]

\* The enabled mappings are copied out of the store and the guard released.
\* (The mappings of a deleted client are gone with it.)
StartClientListeners(t) ==
    /\ job[t].at = "start"
    /\ job' = [job EXCEPT ![t] =
                  Continue([@ EXCEPT !.todo =
                      {m \in Mappings : /\ Owner[m] = job[t].client
                                        /\ mapping[m] = "enabled"}])]
    /\ UNCHANGED <<client, mapping, sessions, conn, pub, mishap>>

\* Fault: the session is taken without looking at the client id.
LookupAnySession(t) ==
    /\ job[t].at = "add"
    /\ \E m \in job[t].todo, c \in Clients :
          /\ sessions[c] # None
          /\ job' = [job EXCEPT ![t].at = "bind", ![t].cur = m,
                                ![t].todo = @ \ {m}, ![t].arcs = {sessions[c]}]
    /\ UNCHANGED <<client, mapping, sessions, conn, pub, mishap>>

\* Fault: the client is assumed to be online.
LookupUnchecked(t) ==
    /\ job[t].at = "add"
    /\ \E m \in job[t].todo :
          job' = [job EXCEPT ![t].at = "bind", ![t].cur = m, ![t].todo = @ \ {m},
                             ![t].arcs = {sessions[job[t].client]}]
    /\ UNCHANGED <<client, mapping, sessions, conn, pub, mishap>>

\* add_listener: proxy_tx and the listeners map come from one SessionInfo.
LookupSession(t) ==
    /\ job[t].at = "add"
    /\ \E m \in job[t].todo :
          LET s    == sessions[job[t].client]
              rest == [job[t] EXCEPT !.todo = @ \ {m}]
          IN  job' = [job EXCEPT ![t] =
                         IF s = None THEN Continue(rest)
                         ELSE [rest EXCEPT !.at = "bind", !.cur = m, !.arcs = {s}]]
    /\ UNCHANGED <<client, mapping, sessions, conn, pub, mishap>>

\* add_listener: bind the public port and spawn its accept loop.
BindPort(t) ==
    /\ job[t].at = "bind"
    /\ LET p == PortOf[job[t].cur]
       IN  IF pub[p].state = "free"
           THEN \E s \in job[t].arcs :
                   /\ pub' = [pub EXCEPT ![p] = [map |-> job[t].cur, conn |-> s,
                                                 state |-> "running", handle |-> t]]
                   /\ job' = [job EXCEPT ![t].at = "insert"]
           ELSE /\ job' = [job EXCEPT ![t] = Continue(@)]
                /\ UNCHANGED pub
    /\ UNCHANGED <<client, mapping, sessions, conn, mishap>>

\* add_listener: the handle goes into the listeners map.  A handle already
\* there under the same mapping id is dropped, which detaches its task.
InsertHandle(t) ==
    /\ job[t].at = "insert"
    /\ pub' = [pub EXCEPT ![PortOf[job[t].cur]].handle =
                  IF @ = t THEN "map"
                  ELSE IF /\ @ = "map"
                          /\ pub[PortOf[job[t].cur]].map = job[t].cur
                          /\ pub[PortOf[job[t].cur]].conn \in job[t].arcs
                       THEN "lost" ELSE @]
    /\ job' = [job EXCEPT ![t] = Continue(@)]
    /\ UNCHANGED <<client, mapping, sessions, conn, mishap>>

\* remove_listener: the listeners maps of all sessions are cloned.
SnapshotSessions(r) ==
    /\ job[r].at = "unlist"
    /\ job' = [job EXCEPT ![r].at = "abort",
                          ![r].arcs = {sessions[c] : c \in Clients} \ {None}]
    /\ UNCHANGED <<client, mapping, sessions, conn, pub, mishap>>

\* remove_client_listeners: that of one session, to be emptied.
SnapshotClientSession(r) ==
    /\ job[r].at = "drain"
    /\ job' = [job EXCEPT ![r].at = "abort",
                          ![r].todo = Mappings,
                          ![r].arcs = {sessions[job[r].client]} \ {None}]
    /\ UNCHANGED <<client, mapping, sessions, conn, pub, mishap>>

\* Fault: the map is emptied but the tasks are not aborted.
ForgetHandles(r) ==
    /\ job[r].at = "abort"
    /\ pub' = [p \in Ports |->
                 IF pub[p].handle = "map" /\ pub[p].conn \in job[r].arcs
                    /\ pub[p].map \in job[r].todo
                 THEN [pub[p] EXCEPT !.handle = "lost"] ELSE pub[p]]
    /\ job' = [job EXCEPT ![r] = Idle]
    /\ UNCHANGED <<client, mapping, sessions, conn, mishap>>

\* Both: take the handles found in those maps and abort their tasks.
AbortHandles(r) ==
    /\ job[r].at = "abort"
    /\ pub' = [p \in Ports |->
                 IF /\ pub[p].handle = "map"
                    /\ pub[p].conn \in job[r].arcs
                    /\ pub[p].map \in job[r].todo
                 THEN [pub[p] EXCEPT !.state = "aborting", !.handle = "lost"]
                 ELSE pub[p]]
    /\ job' = [job EXCEPT ![r] = Idle]
    /\ UNCHANGED <<client, mapping, sessions, conn, mishap>>

-----------------------------------------------------------------------------
(* public_accept_loop.  A visitor whose request is taken, timed out or     *)
(* dropped at the connection limit changes nothing here.                   *)

\* send() fails on a closed channel: the loop ends and the socket closes.
VisitorFindsChannelClosed(p) ==
    /\ pub[p].state = "running"
    /\ ChannelClosed(pub[p].conn)
    /\ pub' = [pub EXCEPT ![p] = Free]
    /\ UNCHANGED <<client, mapping, sessions, conn, job, mishap>>

\* accept() fails: the loop ends for good.
AcceptError(p) ==
    /\ pub[p].state = "running"
    /\ pub' = [pub EXCEPT ![p] = Free]
    /\ mishap' = TRUE
    /\ UNCHANGED <<client, mapping, sessions, conn, job>>

\* The runtime drops an aborted task, and with it the socket, some time later.
AbortTakesEffect(p) ==
    /\ pub[p].state = "aborting"
    /\ pub' = [pub EXCEPT ![p] = Free]
    /\ UNCHANGED <<client, mapping, sessions, conn, job, mishap>>

-----------------------------------------------------------------------------
(* Web UI requests.  The first step changes the store under its write      *)
(* guard, which must wait for every read guard; if persist() then fails    *)
(* the change stays in memory and the handler returns without the rest.    *)

\* Fault: the read guard is dropped before the body of `if let`.
NobodyReads == TRUE

StoreFree == \A t \in Tasks : ~job[t].guard

Handle(r, j) ==
    /\ job[r].at = "idle"
    /\ StoreFree
    /\ \/ job' = [job EXCEPT ![r] = j]
       \/ UNCHANGED job
    /\ UNCHANGED <<sessions, conn, pub, mishap>>

CreateClient(r, c) ==
    /\ client[c] = "absent"
    /\ client' = [client EXCEPT ![c] = "enabled"]
    /\ UNCHANGED mapping
    /\ Handle(r, Idle)

EnableClient(r, c) ==
    /\ client[c] \in Existing
    /\ client' = [client EXCEPT ![c] = "enabled"]
    /\ UNCHANGED mapping
    /\ Handle(r, [Idle EXCEPT !.at = "start", !.client = c])

DisableClient(r, c) ==
    /\ client[c] \in Existing
    /\ client' = [client EXCEPT ![c] = "disabled"]
    /\ UNCHANGED mapping
    /\ Handle(r, [Idle EXCEPT !.at = "drain", !.client = c])

DeleteClient(r, c) ==
    /\ client[c] \in Existing
    /\ client' = [client EXCEPT ![c] = "deleted"]
    /\ mapping' = [m \in Mappings |->
                      IF Owner[m] = c /\ mapping[m] \in Existing
                      THEN "deleted" ELSE mapping[m]]
    /\ Handle(r, [Idle EXCEPT !.at = "drain", !.client = c])

\* remote_port_taken: the port belongs to a mapping of some client.
PortTaken(p) == \E m \in Mappings : PortOf[m] = p /\ mapping[m] \in Existing

CreateMapping(r, m) ==
    /\ mapping[m] = "absent"
    /\ ~PortTaken(PortOf[m])
    /\ client[Owner[m]] \in Existing
    /\ mapping' = [mapping EXCEPT ![m] = "enabled"]
    /\ UNCHANGED client
    /\ Handle(r, [Idle EXCEPT !.at = "add", !.client = Owner[m], !.todo = {m}])

EnableMapping(r, m) ==
    /\ mapping[m] \in Existing
    /\ mapping' = [mapping EXCEPT ![m] = "enabled"]
    /\ UNCHANGED client
    /\ Handle(r, [Idle EXCEPT !.at = "find", !.client = Owner[m], !.todo = {m}])

\* update_mapping looks the mapping up again; the read guard lives as long as
\* the `if let` body, across add_listener.
FindMapping(r) ==
    /\ job[r].at = "find"
    /\ job' = [job EXCEPT ![r] =
                  IF \A m \in @.todo : mapping[m] \in Existing
                  THEN [@ EXCEPT !.at = "add", !.guard = TRUE] ELSE Idle]
    /\ UNCHANGED <<client, mapping, sessions, conn, pub, mishap>>

DisableMapping(r, m) ==
    /\ mapping[m] \in Existing
    /\ mapping' = [mapping EXCEPT ![m] = "disabled"]
    /\ UNCHANGED client
    /\ Handle(r, [Idle EXCEPT !.at = "unlist", !.todo = {m}])

DeleteMapping(r, m) ==
    /\ mapping[m] \in Existing
    /\ mapping' = [mapping EXCEPT ![m] = "deleted"]
    /\ UNCHANGED client
    /\ Handle(r, [Idle EXCEPT !.at = "unlist", !.todo = {m}])

\* The browser goes away: the server drops the handler's future where it
\* waits.  A JoinHandle not yet inserted is dropped with it.
RequestDropped(r) ==
    /\ job[r].at # "idle"
    /\ job' = [job EXCEPT ![r] = Idle]
    /\ pub' = [p \in Ports |->
                 IF pub[p].handle = r THEN [pub[p] EXCEPT !.handle = "lost"] ELSE pub[p]]
    /\ mishap' = (mishap \/ job[r].at = "insert")
    /\ UNCHANGED <<client, mapping, sessions, conn>>

-----------------------------------------------------------------------------
JobStep(t) == \/ StartClientListeners(t) \/ LookupSession(t) \/ BindPort(t)
              \/ InsertHandle(t) \/ SnapshotSessions(t)
              \/ SnapshotClientSession(t) \/ AbortHandles(t) \/ FindMapping(t)

ConnStep(s) == \/ Register(s) \/ Acknowledge(s) \/ AcknowledgeFails(s)
               \/ Drive(s) \/ Unregister(s) \/ DropChannel(s)

WebRequest(r) ==
    \/ \E c \in Clients : \/ CreateClient(r, c) \/ EnableClient(r, c)
                          \/ DisableClient(r, c) \/ DeleteClient(r, c)
    \/ \E m \in Mappings : \/ CreateMapping(r, m) \/ EnableMapping(r, m)
                           \/ DisableMapping(r, m) \/ DeleteMapping(r, m)

Next == \/ \E t \in Tasks : JobStep(t)
        \/ \E s \in Conns : ConnStep(s) \/ Disconnect(s)
        \/ \E s \in Conns, c \in Clients : Verify(s, c)
        \/ \E r \in Requests : WebRequest(r) \/ RequestDropped(r)
        \/ \E p \in Ports : \/ VisitorFindsChannelClosed(p) \/ AcceptError(p)
                            \/ AbortTakesEffect(p)

Spec == Init /\ [][Next]_vars

-----------------------------------------------------------------------------
(* Properties.                                                             *)

\* Every variable has its type.
TypeOK ==
    /\ client \in [Clients -> Presence]
    /\ mapping \in [Mappings -> Presence]
    /\ sessions \in [Clients -> Conns \cup {None}]
    /\ conn \in [Conns -> [at     : {"new", "verified", "registered", "starting", "driving",
                                    "closing", "unregistered", "gone", "failed"},
                           client : Clients \cup {None}]]
    /\ job \in [Tasks -> Job]
    /\ pub \in [Ports -> Listener]
    /\ mishap \in BOOLEAN

\* An entry of the session table belongs to the client that authenticated on
\* its connection, and to a handle_tunnel task that will still run the
\* cleanup, save one whose write_status(ok) failed (listener.rs:144).
SessionEntryBacked ==
    \A c \in Clients : sessions[c] # None =>
        /\ conn[sessions[c]].client = c
        /\ conn[sessions[c]].at \in {"registered", "starting", "driving", "closing", "failed"}

\* A bound port only ever forwards visitors to the client that owns the
\* mapping it was bound for, however sessions were replaced meanwhile
\* (add_listener uses proxy_tx and listeners of one SessionInfo).
VisitorsReachOwner ==
    \A p \in Ports : pub[p].state # "free" =>
        /\ PortOf[pub[p].map] = p
        /\ conn[pub[p].conn].client = Owner[pub[p].map]

\* A listener accepting visitors for a session that is registered and open
\* can be stopped: its handle is in that session's listeners map or on
\* its way there, whatever connections and requests did at the same time.
HandleReachable ==
    mishap \/ \A p \in Ports :
        /\ pub[p].state = "running"
        /\ sessions[Owner[pub[p].map]] = pub[p].conn
        /\ ~ChannelClosed(pub[p].conn)
        => pub[p].handle # "lost"

\* While update_mapping enables a mapping, nobody deletes that mapping: the
\* read guard outlives add_listener, so no listener is started for a mapping
\* that was deleted in between (routes.rs:208-210).
GuardedEnable ==
    \A r \in Requests : job[r].guard =>
        \A m \in job[r].todo \cup ({job[r].cur} \ {None}) : mapping[m] \in Existing

\* session.rs:18-19, README.md:113: the accept loops end with their session, so
\* a client that reconnects (README.md:59: by itself, no manual intervention) is
\* served again.  Once every listener function has returned, no accept loop of
\* a session that is over keeps the port of an enabled mapping from the new one.
ReconnectedClientServed ==
    (\A t \in Tasks : job[t] = Idle) =>
        \A m \in Mappings :
            LET s == sessions[Owner[m]]
            IN  /\ mapping[m] = "enabled"
                /\ s # None /\ conn[s].at = "driving"
                /\ pub[PortOf[m]].state = "running"
                => conn[pub[PortOf[m]].conn].at # "gone"

\* The session table of this server is a SessionTable.
Table == INSTANCE SessionTable WITH
    table  <- sessions,
    seen   <- {s \in Conns : conn[s].at \notin {"new", "verified"}},
    closed <- {s \in Conns : conn[s].at \in {"closing", "unregistered", "gone", "failed"}}

\* One slot per client, never more than max_clients, and a late cleanup of a
\* replaced connection leaves its successor's entry alone.
TableSpec == Table!Spec

=============================================================================
