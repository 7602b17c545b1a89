------------------------- MODULE PortExposureProofs -------------------------
(***************************************************************************)
(* Proofs about PortExposure for every number of clients, connections,     *)
(* requests, mappings and ports.  The inductive invariant is built in      *)
(* layers; each layer is proved from the ones before it.                   *)
(***************************************************************************)
EXTENDS PortExposure, FiniteSetTheorems, TLAPS

\* A connection past Verify names the client it authenticated as.
Authenticated == \A s \in Conns : conn[s].at # "new" => conn[s].client \in Clients

\* A task inside a listener function that needs a client has one.
JobHasClient == \A t \in Tasks :
    job[t].at \in {"start", "find", "add", "bind", "insert", "drain"}
        => job[t].client \in Clients

Typed == TypeOK /\ Authenticated /\ JobHasClient

\* Continue keeps a job well-formed and its client, whatever loop it is in.
LEMMA ContinueType ==
    ASSUME NEW j \in Job
    PROVE  /\ Continue(j) \in Job
           /\ Continue(j).at \in {"idle", "add"}
           /\ Continue(j).at = "add" => Continue(j).client = j.client
  BY DEF Continue, Job, Idle

LEMMA IdleType == Idle \in Job /\ Free \in Listener
  BY DEF Idle, Job, Free, Listener

LEMMA TypedInit == Init => Typed
<1> SUFFICES ASSUME Init PROVE Typed
  OBVIOUS
<1> USE DEF Init
<1>1. TypeOK
  BY IdleType DEF TypeOK, Presence
<1>2. Authenticated /\ JobHasClient
  BY DEF Authenticated, JobHasClient, Idle
<1> QED
  BY <1>1, <1>2 DEF Typed

\* What a task's job may become without leaving the invariant.
GoodJob(j) ==
    /\ j \in Job
    /\ j.at \in {"start", "find", "add", "bind", "insert", "drain"} => j.client \in Clients

LEMMA TypedConnStep ==
    ASSUME Typed, NEW s \in Conns, ConnStep(s) \/ Disconnect(s) \/ \E c \in Clients : Verify(s, c)
    PROVE  Typed'
<1> USE DEF Typed, TypeOK, Authenticated, JobHasClient, Goto
<1>1. CASE Register(s)
  BY <1>1 DEF Register
<1>2. CASE Acknowledge(s)
  <2>1. [Idle EXCEPT !.at = "start", !.client = conn[s].client] \in Job
    BY <1>2, IdleType DEF Acknowledge, Job, Idle
  <2>2. job' \in [Tasks -> Job]
    BY <1>2, <2>1 DEF Acknowledge
  <2>3. JobHasClient'
    BY <1>2 DEF Acknowledge, Tasks, Idle
  <2> QED
    BY <1>2, <2>2, <2>3 DEF Acknowledge
<1>3. CASE AcknowledgeFails(s)
  BY <1>3 DEF AcknowledgeFails
<1>4. CASE Drive(s)
  BY <1>4 DEF Drive
<1>5. CASE Unregister(s)
  BY <1>5 DEF Unregister
<1>6. CASE DropChannel(s)
  BY <1>6 DEF DropChannel
<1>7. CASE Disconnect(s)
  BY <1>7 DEF Disconnect
<1>8. CASE \E c \in Clients : Verify(s, c)
  BY <1>8 DEF Verify
<1> QED
  BY <1>1, <1>2, <1>3, <1>4, <1>5, <1>6, <1>7, <1>8 DEF ConnStep

LEMMA TypedJobStep ==
    ASSUME Typed, NEW t \in Tasks, JobStep(t)
    PROVE  Typed'
<1> USE DEF Typed, TypeOK, Authenticated
<1> job[t] \in Job
  OBVIOUS
<1>1. SUFFICES ASSUME pub' \in [Ports -> Listener],
                      job' = [job EXCEPT ![t] = job'[t]],
                      GoodJob(job'[t]),
                      UNCHANGED <<client, mapping, sessions, conn, mishap>>
               PROVE  Typed'
  <2>1. CASE StartClientListeners(t)
    <3> DEFINE j == [job[t] EXCEPT !.todo = {m \in Mappings : /\ Owner[m] = job[t].client
                                                             /\ mapping[m] = "enabled"}]
    <3>1. j \in Job /\ j.client = job[t].client
      BY DEF Job
    <3>2. GoodJob(Continue(j))
      BY <2>1, <3>1, ContinueType DEF GoodJob, StartClientListeners, JobHasClient
    <3> QED
      BY <2>1, <3>2, <1>1 DEF StartClientListeners
  <2>2. CASE LookupSession(t)
    <3>1. PICK m \in job[t].todo :
            LET s    == sessions[job[t].client]
                rest == [job[t] EXCEPT !.todo = @ \ {m}]
            IN  job' = [job EXCEPT ![t] =
                         IF s = None THEN Continue(rest)
                         ELSE [rest EXCEPT !.at = "bind", !.cur = m, !.arcs = {s}]]
      BY <2>2 DEF LookupSession
    <3> DEFINE rest == [job[t] EXCEPT !.todo = @ \ {m}]
    <3>2. rest \in Job /\ rest.client = job[t].client /\ job[t].client \in Clients
      BY <2>2 DEF Job, LookupSession, JobHasClient
    <3>3. m \in Mappings
      BY DEF Job
    <3>4. CASE sessions[job[t].client] = None
      <4>1. GoodJob(Continue(rest))
        BY <3>2, ContinueType DEF GoodJob
      <4> QED
        BY <2>2, <3>1, <3>4, <4>1, <1>1 DEF LookupSession
    <3>5. CASE sessions[job[t].client] # None
      <4>1. GoodJob([rest EXCEPT !.at = "bind", !.cur = m,
                                 !.arcs = {sessions[job[t].client]}])
        BY <3>2, <3>3, <3>5 DEF GoodJob, Job
      <4> QED
        BY <2>2, <3>1, <3>5, <4>1, <1>1 DEF LookupSession
    <3> QED
      BY <3>4, <3>5
  <2>3. CASE BindPort(t)
    <3>1. GoodJob([job[t] EXCEPT !.at = "insert"]) /\ GoodJob(Continue(job[t]))
      BY <2>3, ContinueType DEF BindPort, GoodJob, Job, JobHasClient
    <3>2. CASE pub[PortOf[job[t].cur]].state = "free"
      <4>1. PICK a \in job[t].arcs :
              /\ pub' = [pub EXCEPT ![PortOf[job[t].cur]] =
                            [map |-> job[t].cur, conn |-> a,
                             state |-> "running", handle |-> t]]
              /\ job' = [job EXCEPT ![t].at = "insert"]
        BY <2>3, <3>2 DEF BindPort
      <4>2. a \in Conns /\ job[t].cur \in Mappings \cup {None}
        BY DEF Job
      <4>3. pub' \in [Ports -> Listener]
        BY <4>1, <4>2 DEF Listener
      <4> QED
        BY <2>3, <3>1, <4>1, <4>3, <1>1 DEF BindPort
    <3>3. CASE pub[PortOf[job[t].cur]].state # "free"
      BY <2>3, <3>1, <3>3, <1>1 DEF BindPort
    <3> QED
      BY <3>2, <3>3
  <2>4. CASE InsertHandle(t)
    <3>1. GoodJob(Continue(job[t]))
      BY <2>4, ContinueType DEF InsertHandle, GoodJob, JobHasClient
    <3> DEFINE q == PortOf[job[t].cur]
    <3>2. PICK h \in {pub[q].handle, "map", "lost"} : pub' = [pub EXCEPT ![q].handle = h]
      BY <2>4 DEF InsertHandle
    <3>3. q \in Ports => [pub[q] EXCEPT !.handle = h] \in Listener
      BY DEF Listener
    <3>4. pub' \in [Ports -> Listener]
      <4> HIDE DEF q
      <4> QED BY <3>2, <3>3
    <3> QED
      BY <2>4, <3>1, <3>4, <1>1 DEF InsertHandle
  <2>5. CASE SnapshotSessions(t)
    <3> DEFINE arcs == {sessions[c] : c \in Clients} \ {None}
    <3>1. arcs \in SUBSET Conns
      <4>1. \A c \in Clients : sessions[c] \in Conns \cup {None}
        OBVIOUS
      <4> QED BY <4>1
    <3>2. GoodJob([job[t] EXCEPT !.at = "abort", !.arcs = arcs])
      <4> HIDE DEF arcs
      <4> QED BY <3>1 DEF GoodJob, Job
    <3> QED
      BY <2>5, <3>2, <1>1 DEF SnapshotSessions
  <2>6. CASE SnapshotClientSession(t)
    <3>1. job[t].client \in Clients
      BY <2>6 DEF SnapshotClientSession, JobHasClient
    <3> DEFINE arcs == {sessions[job[t].client]} \ {None}
    <3>2. arcs \in SUBSET Conns
      BY <3>1
    <3>3. GoodJob([job[t] EXCEPT !.at = "abort", !.todo = Mappings, !.arcs = arcs])
      <4> HIDE DEF arcs
      <4> QED BY <3>2 DEF GoodJob, Job
    <3> QED
      BY <2>6, <3>3, <1>1 DEF SnapshotClientSession
  <2>7. CASE AbortHandles(t)
    <3>1. GoodJob(Idle)
      BY IdleType DEF GoodJob, Idle
    <3>2. pub' \in [Ports -> Listener]
      BY <2>7 DEF AbortHandles, Listener
    <3> QED
      BY <2>7, <3>1, <3>2, <1>1 DEF AbortHandles
  <2>8. CASE FindMapping(t)
    <3>1. GoodJob([job[t] EXCEPT !.at = "add", !.guard = TRUE]) /\ GoodJob(Idle)
      BY <2>8, IdleType DEF GoodJob, Job, Idle, FindMapping, JobHasClient
    <3> QED
      BY <2>8, <3>1, <1>1 DEF FindMapping
  <2> QED
    BY <2>1, <2>2, <2>3, <2>4, <2>5, <2>6, <2>7, <2>8 DEF JobStep
<1>2. job' \in [Tasks -> Job]
  BY <1>1 DEF GoodJob
<1>3. JobHasClient'
  BY <1>1 DEF GoodJob, JobHasClient
<1> QED
  BY <1>1, <1>2, <1>3

\* Handle starts the given job or none.
LEMMA TypedHandle ==
    ASSUME Typed, NEW r \in Requests, NEW j, GoodJob(j), Handle(r, j),
           client' \in [Clients -> Presence], mapping' \in [Mappings -> Presence]
    PROVE  Typed'
<1> USE DEF Typed, TypeOK, Authenticated, Handle
<1>1. r \in Tasks
  BY DEF Tasks
<1>2. job' \in [Tasks -> Job]
  BY <1>1 DEF GoodJob
<1>3. JobHasClient'
  BY <1>1 DEF GoodJob, JobHasClient
<1> QED
  BY <1>2, <1>3

LEMMA TypedRequest ==
    ASSUME Typed, NEW r \in Requests, WebRequest(r)
    PROVE  Typed'
<1> USE DEF Typed, TypeOK, Presence
<1> USE OwnerAssumption
<1>1. ASSUME NEW c \in Clients, CreateClient(r, c) PROVE Typed'
  <2>1. GoodJob(Idle)
    BY IdleType DEF GoodJob, Idle
  <2> QED
    BY <1>1, <2>1, TypedHandle DEF CreateClient
<1>2. ASSUME NEW c \in Clients, EnableClient(r, c) PROVE Typed'
  <2>1. GoodJob([Idle EXCEPT !.at = "start", !.client = c])
    BY DEF GoodJob, Idle, Job
  <2> QED
    BY <1>2, <2>1, TypedHandle DEF EnableClient
<1>3. ASSUME NEW c \in Clients, DisableClient(r, c) \/ DeleteClient(r, c) PROVE Typed'
  <2>1. GoodJob([Idle EXCEPT !.at = "drain", !.client = c])
    BY DEF GoodJob, Idle, Job
  <2>2. CASE DisableClient(r, c)
    BY <2>2, <2>1, TypedHandle DEF DisableClient
  <2>3. CASE DeleteClient(r, c)
    BY <2>3, <2>1, TypedHandle DEF DeleteClient
  <2> QED
    BY <1>3, <2>2, <2>3
<1>4. ASSUME NEW m \in Mappings, CreateMapping(r, m) PROVE Typed'
  <2>1. GoodJob([Idle EXCEPT !.at = "add", !.client = Owner[m], !.todo = {m}])
    BY DEF GoodJob, Idle, Job
  <2> QED
    BY <1>4, <2>1, TypedHandle DEF CreateMapping
<1>5. ASSUME NEW m \in Mappings, EnableMapping(r, m) PROVE Typed'
  <2>1. GoodJob([Idle EXCEPT !.at = "find", !.client = Owner[m], !.todo = {m}])
    BY DEF GoodJob, Idle, Job
  <2> QED
    BY <1>5, <2>1, TypedHandle DEF EnableMapping
<1>6. ASSUME NEW m \in Mappings, DisableMapping(r, m) \/ DeleteMapping(r, m) PROVE Typed'
  <2>1. GoodJob([Idle EXCEPT !.at = "unlist", !.todo = {m}])
    BY DEF GoodJob, Idle, Job
  <2>2. CASE DisableMapping(r, m)
    BY <2>2, <2>1, TypedHandle DEF DisableMapping
  <2>3. CASE DeleteMapping(r, m)
    BY <2>3, <2>1, TypedHandle DEF DeleteMapping
  <2> QED
    BY <1>6, <2>2, <2>3
<1> QED
  BY <1>1, <1>2, <1>3, <1>4, <1>5, <1>6 DEF WebRequest

LEMMA TypedRest ==
    ASSUME Typed,
           \/ \E r \in Requests : RequestDropped(r)
           \/ \E p \in Ports : \/ VisitorFindsChannelClosed(p) \/ AcceptError(p)
                               \/ AbortTakesEffect(p)
    PROVE  Typed'
<1> USE DEF Typed, TypeOK, Authenticated
<1>1. ASSUME NEW r \in Requests, RequestDropped(r) PROVE Typed'
  <2>1. job' \in [Tasks -> Job]
    BY <1>1, IdleType DEF RequestDropped, Tasks
  <2>2. JobHasClient'
    BY <1>1 DEF RequestDropped, JobHasClient, Idle, Tasks
  <2>3. pub' \in [Ports -> Listener]
    BY <1>1 DEF RequestDropped, Listener
  <2>4. mishap' \in BOOLEAN
    BY <1>1 DEF RequestDropped
  <2> QED
    BY <1>1, <2>1, <2>2, <2>3, <2>4 DEF RequestDropped
<1>2. ASSUME NEW p \in Ports,
             VisitorFindsChannelClosed(p) \/ AcceptError(p) \/ AbortTakesEffect(p)
      PROVE  Typed'
  <2>1. pub' = [pub EXCEPT ![p] = Free] /\ mishap' \in BOOLEAN
        /\ UNCHANGED <<client, mapping, sessions, conn, job>>
    BY <1>2 DEF VisitorFindsChannelClosed, AcceptError, AbortTakesEffect
  <2>2. pub' \in [Ports -> Listener]
    BY <2>1, IdleType
  <2> QED
    BY <2>1, <2>2 DEF JobHasClient
<1> QED
  BY <1>1, <1>2

LEMMA TypedStep == Typed /\ [Next]_vars => Typed'
<1> SUFFICES ASSUME Typed, [Next]_vars PROVE Typed'
  OBVIOUS
<1>1. CASE \E t \in Tasks : JobStep(t)
  BY <1>1, TypedJobStep
<1>2. CASE \E s \in Conns : ConnStep(s) \/ Disconnect(s) \/ \E c \in Clients : Verify(s, c)
  BY <1>2, TypedConnStep
<1>3. CASE \E r \in Requests : WebRequest(r)
  BY <1>3, TypedRequest
<1>4. CASE \/ \E r \in Requests : RequestDropped(r)
           \/ \E p \in Ports : \/ VisitorFindsChannelClosed(p) \/ AcceptError(p)
                               \/ AbortTakesEffect(p)
  BY <1>4, TypedRest
<1>5. CASE UNCHANGED vars
  BY <1>5 DEF vars, Typed, TypeOK, Authenticated, JobHasClient
<1> QED
  BY <1>1, <1>2, <1>3, <1>4, <1>5 DEF Next

LEMMA AlwaysTyped == Spec => []Typed
  BY TypedInit, TypedStep, PTL DEF Spec

\* Every variable keeps its type, and with it every session named in the
\* table, in a job or by a listener is a connection of this server.
THEOREM TypeCorrect == Spec => []TypeOK
<1>1. Typed => TypeOK
  BY DEF Typed
<1> QED
  BY <1>1, AlwaysTyped, PTL

-----------------------------------------------------------------------------
(* The session table.                                                      *)

\* A step of handle_tunnel: the only kind that touches conn and sessions.
TunnelStep(s) == ConnStep(s) \/ Disconnect(s) \/ \E c \in Clients : Verify(s, c)

LEMMA JobStepFrame ==
    ASSUME NEW t, JobStep(t)
    PROVE  UNCHANGED <<client, mapping, sessions, conn, mishap>>
  BY DEF JobStep, StartClientListeners, LookupSession, BindPort, InsertHandle,
         SnapshotSessions, SnapshotClientSession, AbortHandles, FindMapping

LEMMA RequestFrame ==
    ASSUME NEW r, WebRequest(r)
    PROVE  UNCHANGED <<sessions, conn, pub, mishap>>
  BY DEF WebRequest, Handle, CreateClient, EnableClient, DisableClient, DeleteClient,
         CreateMapping, EnableMapping, DisableMapping, DeleteMapping

LEMMA OnlyTunnels ==
    ASSUME [Next]_vars
    PROVE  (\E s \in Conns : TunnelStep(s)) \/ UNCHANGED <<sessions, conn>>
<1>1. CASE \E t \in Tasks : JobStep(t)
  BY <1>1, JobStepFrame
<1>2. CASE \E r \in Requests : WebRequest(r)
  BY <1>2, RequestFrame
<1>3. CASE \E r \in Requests : RequestDropped(r)
  BY <1>3 DEF RequestDropped
<1>4. CASE \E p \in Ports : \/ VisitorFindsChannelClosed(p) \/ AcceptError(p)
                           \/ AbortTakesEffect(p)
  BY <1>4 DEF VisitorFindsChannelClosed, AcceptError, AbortTakesEffect
<1> QED
  BY <1>1, <1>2, <1>3, <1>4 DEF Next, vars, TunnelStep

LEMMA EntryStep == Typed /\ SessionEntryBacked /\ [Next]_vars => SessionEntryBacked'
<1> SUFFICES ASSUME Typed, SessionEntryBacked, [Next]_vars PROVE SessionEntryBacked'
  OBVIOUS
<1> USE NoneAssumption DEF SessionEntryBacked, Typed, TypeOK, Authenticated, Goto, Tasks
<1>1. CASE UNCHANGED <<sessions, conn>>
  BY <1>1
<1>2. ASSUME NEW s \in Conns, TunnelStep(s) PROVE SessionEntryBacked'
  <2>1. CASE Register(s)
    BY <2>1 DEF Register
  <2>2. CASE Acknowledge(s)
    BY <2>2 DEF Acknowledge
  <2>3. CASE AcknowledgeFails(s)
    BY <2>3 DEF AcknowledgeFails
  <2>4. CASE Drive(s)
    BY <2>4 DEF Drive
  <2>5. CASE Unregister(s)
    BY <2>5 DEF Unregister
  <2>6. CASE DropChannel(s)
    BY <2>6 DEF DropChannel
  <2>7. CASE Disconnect(s)
    BY <2>7 DEF Disconnect
  <2>8. CASE \E c \in Clients : Verify(s, c)
    BY <2>8 DEF Verify
  <2> QED
    BY <1>2, <2>1, <2>2, <2>3, <2>4, <2>5, <2>6, <2>7, <2>8 DEF TunnelStep, ConnStep
<1> QED
  BY <1>1, <1>2, OnlyTunnels

\* Every entry of the session table belongs to the client that authenticated
\* on its connection and to a task that has still to clean up, or to one
\* whose write_status(ok) failed.
THEOREM EntriesBacked == Spec => []SessionEntryBacked
<1>1. Init => SessionEntryBacked
  BY DEF Init, SessionEntryBacked
<1> QED
  BY <1>1, EntryStep, AlwaysTyped, PTL DEF Spec

\* Counting in SessionTable is counting here.
LEMMA SameCardinality == \A S : Table!Cardinality(S) = Cardinality(S)
  BY DEF Table!Cardinality, Cardinality

\* The server's session table implements SessionTable: a slot is taken only
\* below max_clients, and given back only for the connection that holds it.
THEOREM ImplementsSessionTable == Spec => TableSpec
<1>1. Init => Table!Init
  BY DEF Init, Table!Init
<1>2. Typed /\ SessionEntryBacked /\ [Next]_vars => [Table!Next]_(Table!vars)
  <2> SUFFICES ASSUME Typed, SessionEntryBacked, [Next]_vars
               PROVE  Table!Next \/ UNCHANGED Table!vars
    OBVIOUS
  <2> USE NoneAssumption DEF Typed, TypeOK, Authenticated, SessionEntryBacked, Goto, Tasks
  <2> DEFINE Seen   == {s \in Conns : conn[s].at \notin {"new", "verified"}}
             Closed == {s \in Conns : conn[s].at \in {"closing", "unregistered", "gone", "failed"}}
  <2>1. CASE UNCHANGED <<sessions, conn>>
    BY <2>1 DEF Table!vars
  <2>2. ASSUME NEW s \in Conns, TunnelStep(s)
        PROVE  Table!Next \/ UNCHANGED Table!vars
    <3>1. CASE Register(s)
      <4>1. CASE Cardinality({c \in Clients : sessions[c] # None}) >= MaxClients
        <5>1. conn' = [conn EXCEPT ![s].at = "gone"] /\ conn[s].at = "verified"
              /\ UNCHANGED sessions
          BY <3>1, <4>1 DEF Register
        <5>2. s \notin Seen /\ Seen' = Seen \cup {s} /\ Closed' = Closed \cup {s}
          BY <5>1
        <5>3. Table!Cardinality(Table!Occupied(sessions)) >= MaxClients
          BY <4>1, SameCardinality DEF Table!Occupied
        <5>4. Table!Refuse(s)
          BY <5>1, <5>2, <5>3, Zenon DEF Table!Refuse
        <5> QED
          BY <5>4 DEF Table!Next
      <4>2. CASE ~(Cardinality({c \in Clients : sessions[c] # None}) >= MaxClients)
        <5>1. Table!Cardinality(Table!Occupied(sessions)) < MaxClients
          BY <4>2, SameCardinality, FS_Subset, FS_CardinalityType, ClientsAssumption,
             MaxClientsAssumption DEF Table!Occupied
        <5>2. conn' = [conn EXCEPT ![s].at = "registered"] /\ conn[s].at = "verified"
              /\ sessions' = [sessions EXCEPT ![conn[s].client] = s]
          BY <3>1, <4>2 DEF Register
        <5>3. s \notin Seen /\ Seen' = Seen \cup {s} /\ Closed' = Closed
          BY <5>2
        <5>4. conn[s].client \in Clients
          BY <5>2
        <5>5. Table!Occupy(conn[s].client, s)
          BY <5>1, <5>2, <5>3, Zenon DEF Table!Occupy
        <5> QED
          BY <5>4, <5>5 DEF Table!Next
      <4> QED
        BY <4>1, <4>2
    <3>2. CASE AcknowledgeFails(s) \/ Disconnect(s)
      <4>1. Table!Close(s)
        BY <3>2 DEF AcknowledgeFails, Disconnect, Table!Close
      <4> QED
        BY <4>1 DEF Table!Next
    <3>3. CASE Unregister(s)
      <4>1. CASE sessions[conn[s].client] = s
        <5>1. conn' = [conn EXCEPT ![s].at = "unregistered"] /\ conn[s].at = "closing"
          BY <3>3 DEF Unregister
        <5>2. s \in Closed /\ Seen' = Seen /\ Closed' = Closed
          BY <5>1
        <5>3. conn[s].client \in Clients
          BY <5>1
        <5>4. sessions' = [sessions EXCEPT ![conn[s].client] = None]
          <6>1. sessions' = [c \in Clients |->
                               IF c = conn[s].client THEN None ELSE sessions[c]]
            BY <3>3, <4>1 DEF Unregister
          <6> QED
            BY <5>3, <6>1
        <5>5. Table!Vacate(conn[s].client)
          BY <4>1, <5>2, <5>4, Zenon DEF Table!Vacate
        <5> QED
          BY <5>3, <5>5 DEF Table!Next
      <4>2. CASE sessions[conn[s].client] # s
        BY <3>3, <4>2 DEF Unregister, Table!vars
      <4> QED
        BY <4>1, <4>2
    <3>4. CASE Acknowledge(s) \/ Drive(s) \/ DropChannel(s)
      BY <3>4 DEF Acknowledge, Drive, DropChannel, Table!vars
    <3>5. CASE \E c \in Clients : Verify(s, c)
      BY <3>5 DEF Verify, Table!vars
    <3> QED
      BY <2>2, <3>1, <3>2, <3>3, <3>4, <3>5 DEF TunnelStep, ConnStep
  <2> QED
    BY <2>1, <2>2, OnlyTunnels
<1> QED
  BY <1>1, <1>2, AlwaysTyped, EntriesBacked, PTL DEF Spec, TableSpec, Table!Spec

-----------------------------------------------------------------------------
(* What is proved of the table is then true of the server.                 *)

TableProofs == INSTANCE SessionTableProofs WITH
    table  <- sessions,
    seen   <- {s \in Conns : conn[s].at \notin {"new", "verified"}},
    closed <- {s \in Conns : conn[s].at \in {"closing", "unregistered", "gone", "failed"}}

\* The two instances take their cardinalities from modules of their own.
LEMMA SameSizes == \A S : /\ TableProofs!Cardinality(S) = Cardinality(S)
                          /\ Table!Cardinality(S) = Cardinality(S)
                          /\ TableProofs!IsFiniteSet(S) = IsFiniteSet(S)
<1>1. \A S : TableProofs!Cardinality(S) = Cardinality(S)
  BY DEF TableProofs!Cardinality, Cardinality
<1>2. \A S : TableProofs!IsFiniteSet(S) = IsFiniteSet(S)
  BY DEF TableProofs!IsFiniteSet, IsFiniteSet
<1> QED
  BY <1>1, <1>2, SameCardinality

\* Never more than max_clients entries in the session table.
MaxClientsHold == Cardinality({c \in Clients : sessions[c] # None}) <= MaxClients

\* However connections replace each other and whatever clean-ups are late, the
\* server keeps to security.max_clients (listener.rs:117-142): a fact about the
\* abstract table, carried over by the refinement.
THEOREM ServerCapped == Spec => []MaxClientsHold
<1>1. TableProofs!Sane
  BY SameSizes, ClientsAssumption, MaxClientsAssumption, NoneAssumption
     DEF TableProofs!Sane, Tasks
<1>2. TableProofs!Spec => []TableProofs!Capped
  BY <1>1, TableProofs!CapHolds
<1>3. Table!Init => TableProofs!Init
  BY DEF Table!Init, TableProofs!Init
<1>4. [Table!Next]_(Table!vars) => [TableProofs!Next]_(TableProofs!vars)
  <2>0. Table!Occupied(sessions) = TableProofs!Occupied(sessions)
    BY DEF Table!Occupied, TableProofs!Occupied
  <2>1. ASSUME NEW s \in Conns PROVE /\ Table!Refuse(s) => TableProofs!Refuse(s)
                                     /\ Table!Close(s) => TableProofs!Close(s)
    BY <2>0, SameSizes DEF Table!Refuse, TableProofs!Refuse, Table!Close, TableProofs!Close
  <2>2. ASSUME NEW c \in Clients PROVE Table!Vacate(c) => TableProofs!Vacate(c)
    BY DEF Table!Vacate, TableProofs!Vacate
  <2>3. ASSUME NEW c \in Clients, NEW s \in Conns
        PROVE  Table!Occupy(c, s) => TableProofs!Occupy(c, s)
    BY <2>0, SameSizes DEF Table!Occupy, TableProofs!Occupy
  <2> QED
    BY <2>1, <2>2, <2>3 DEF Table!Next, TableProofs!Next, Table!vars, TableProofs!vars
<1>5. TableProofs!Capped => MaxClientsHold
  BY SameSizes DEF TableProofs!Capped, TableProofs!Occupied, MaxClientsHold
<1> QED
  BY <1>2, <1>3, <1>4, <1>5, ImplementsSessionTable, PTL
     DEF TableSpec, Table!Spec, TableProofs!Spec

-----------------------------------------------------------------------------
(* Who a listener works for.                                               *)

Entered(s, cn) == cn[s].at \notin {"new", "verified"}

\* A job only handles mappings of its client, on sessions of that client.
JobFine(j, mp, cn) ==
    /\ j.at \in {"find", "add", "bind", "insert"} =>
          \A m \in j.todo : Owner[m] = j.client /\ mp[m] # "absent"
    /\ j.at \in {"bind", "insert"} =>
          /\ j.cur \in Mappings
          /\ Owner[j.cur] = j.client
          /\ mp[j.cur] # "absent"
          /\ \A s \in j.arcs : cn[s].client = j.client /\ Entered(s, cn)

ListenerFine(l, p, mp, cn) ==
    /\ l.state = "free" => l.conn = None
    /\ l.state # "free" =>
        /\ l.map \in Mappings
        /\ l.conn \in Conns
        /\ PortOf[l.map] = p
        /\ mp[l.map] # "absent"
        /\ cn[l.conn].client = Owner[l.map]
        /\ Entered(l.conn, cn)

Owned == /\ \A t \in Tasks : JobFine(job[t], mapping, conn)
         /\ \A p \in Ports : ListenerFine(pub[p], p, mapping, conn)

\* A connection past Register keeps its client, and once closed stays closed.
LEMMA ConnMonotone ==
    ASSUME Typed, [Next]_vars, NEW s \in Conns, Entered(s, conn)
    PROVE  /\ Entered(s, conn')
           /\ conn'[s].client = conn[s].client
           /\ conn[s].at \in {"gone", "failed"} => conn'[s].at \in {"gone", "failed"}
<1> USE DEF Entered, Typed, TypeOK, Goto
<1>1. CASE UNCHANGED conn
  BY <1>1
<1>2. ASSUME NEW u \in Conns, TunnelStep(u)
      PROVE  /\ Entered(s, conn')
             /\ conn'[s].client = conn[s].client
             /\ conn[s].at \in {"gone", "failed"} => conn'[s].at \in {"gone", "failed"}
  <2>1. CASE Register(u)
    BY <2>1 DEF Register
  <2>2. CASE \E c \in Clients : Verify(u, c)
    BY <2>2 DEF Verify
  <2>3. CASE Acknowledge(u) \/ AcknowledgeFails(u) \/ Drive(u)
    BY <2>3 DEF Acknowledge, AcknowledgeFails, Drive
  <2>4. CASE Unregister(u) \/ DropChannel(u) \/ Disconnect(u)
    BY <2>4 DEF Unregister, DropChannel, Disconnect
  <2> QED
    BY <1>2, <2>1, <2>2, <2>3, <2>4 DEF TunnelStep, ConnStep
<1> QED
  BY <1>1, <1>2, OnlyTunnels

\* Only requests touch the store.
LEMMA OnlyRequests ==
    ASSUME [Next]_vars
    PROVE  (\E r \in Requests : WebRequest(r)) \/ UNCHANGED <<client, mapping>>
<1>1. CASE \E t \in Tasks : JobStep(t)
  BY <1>1, JobStepFrame
<1>2. CASE \E s \in Conns : TunnelStep(s)
  BY <1>2 DEF TunnelStep, ConnStep, Verify, Register, Acknowledge, AcknowledgeFails, Drive,
              Disconnect, Unregister, DropChannel
<1>3. CASE \E r \in Requests : RequestDropped(r)
  BY <1>3 DEF RequestDropped
<1>4. CASE \E p \in Ports : \/ VisitorFindsChannelClosed(p) \/ AcceptError(p)
                           \/ AbortTakesEffect(p)
  BY <1>4 DEF VisitorFindsChannelClosed, AcceptError, AbortTakesEffect
<1> QED
  BY <1>1, <1>2, <1>3, <1>4 DEF Next, vars, TunnelStep

\* A mapping that was created is never forgotten, and a deleted one never
\* comes back.
LEMMA StoreStep ==
    ASSUME Typed, [Next]_vars
    PROVE  /\ \A m \in Mappings : mapping[m] # "absent" => mapping'[m] # "absent"
           /\ \A m \in Mappings : mapping[m] = "deleted" => mapping'[m] = "deleted"
<1> DEFINE Goal == /\ \A m \in Mappings : mapping[m] # "absent" => mapping'[m] # "absent"
                   /\ \A m \in Mappings : mapping[m] = "deleted" => mapping'[m] = "deleted"
        <1> USE DEF Typed, TypeOK, Presence, Existing
<1>1. CASE UNCHANGED mapping
  BY <1>1
<1>2. ASSUME NEW r \in Requests, NEW c \in Clients,
             CreateClient(r, c) \/ EnableClient(r, c) \/ DisableClient(r, c)
      PROVE  Goal
  BY <1>2 DEF CreateClient, EnableClient, DisableClient
<1>3. ASSUME NEW r \in Requests, NEW c \in Clients, DeleteClient(r, c) PROVE Goal
  <2>1. \A m \in Mappings : mapping'[m] = mapping[m] \/ (mapping[m] \in Existing /\ mapping'[m] = "deleted")
    BY <1>3 DEF DeleteClient
  <2> QED
    BY <2>1
<1>4. ASSUME NEW r \in Requests, NEW m \in Mappings, CreateMapping(r, m) PROVE Goal
  BY <1>4 DEF CreateMapping
<1>5. ASSUME NEW r \in Requests, NEW m \in Mappings,
             EnableMapping(r, m) \/ DisableMapping(r, m) \/ DeleteMapping(r, m)
      PROVE  Goal
  BY <1>5 DEF EnableMapping, DisableMapping, DeleteMapping
<1> QED
  BY <1>1, <1>2, <1>3, <1>4, <1>5, OnlyRequests DEF WebRequest

LEMMA JobFineKept ==
    ASSUME Typed, [Next]_vars, NEW j \in Job, JobFine(j, mapping, conn)
    PROVE  JobFine(j, mapping', conn')
<1>1. \A m \in j.todo : m \in Mappings
  BY DEF Job
<1>2. \A s \in j.arcs : s \in Conns
  BY DEF Job
<1> QED
  BY <1>1, <1>2, ConnMonotone, StoreStep DEF JobFine

LEMMA ListenerFineKept ==
    ASSUME Typed, [Next]_vars, NEW p \in Ports, NEW l,
           ListenerFine(l, p, mapping, conn)
    PROVE  ListenerFine(l, p, mapping', conn')
  BY ConnMonotone, StoreStep DEF ListenerFine

\* A task between jobs, or past the listener loop, has nothing to answer for.
LEMMA ContinueFine ==
    ASSUME NEW j \in Job, NEW mp, NEW cn, j.at \in {"add", "bind", "insert"},
           JobFine(j, mp, cn)
    PROVE  JobFine(Continue(j), mp, cn)
  BY DEF JobFine, Continue, Job, Idle

LEMMA OwnedJobStep ==
    ASSUME Typed, SessionEntryBacked, Owned, NEW t \in Tasks, JobStep(t)
    PROVE  /\ \A u \in Tasks : JobFine(job'[u], mapping, conn)
           /\ \A p \in Ports : ListenerFine(pub'[p], p, mapping, conn)
<1> USE DEF Typed, TypeOK, Owned
<1>j. job[t] \in Job /\ JobFine(job[t], mapping, conn)
  OBVIOUS
<1>0. SUFFICES ASSUME JobFine(job'[t], mapping, conn),
                      job' = [job EXCEPT ![t] = job'[t]],
                      \A p \in Ports : ListenerFine(pub'[p], p, mapping, conn)
               PROVE  \A u \in Tasks : JobFine(job'[u], mapping, conn)
  <2>1. CASE StartClientListeners(t)
    <3> DEFINE j == [job[t] EXCEPT !.todo = {m \in Mappings : /\ Owner[m] = job[t].client
                                                             /\ mapping[m] = "enabled"}]
    <3>1. JobFine(Continue(j), mapping, conn)
      BY <2>1 DEF StartClientListeners, JobFine, Continue, Job, Idle
    <3> QED
      BY <2>1, <3>1, <1>0 DEF StartClientListeners
  <2>2. CASE LookupSession(t)
    <3>1. PICK m \in job[t].todo :
            LET s    == sessions[job[t].client]
                rest == [job[t] EXCEPT !.todo = @ \ {m}]
            IN  job' = [job EXCEPT ![t] =
                         IF s = None THEN Continue(rest)
                         ELSE [rest EXCEPT !.at = "bind", !.cur = m, !.arcs = {s}]]
      BY <2>2 DEF LookupSession
    <3> DEFINE rest == [job[t] EXCEPT !.todo = @ \ {m}]
               s == sessions[job[t].client]
    <3>2. rest \in Job /\ rest.at = "add" /\ JobFine(rest, mapping, conn)
      BY <2>2, <1>j DEF Job, LookupSession, JobFine
    <3>3. m \in Mappings /\ Owner[m] = job[t].client /\ mapping[m] # "absent"
          /\ job[t].client \in Clients
      BY <2>2, <1>j DEF Job, JobFine, LookupSession, JobHasClient
    <3>4. CASE s = None
      <4>1. JobFine(Continue(rest), mapping, conn)
        <5> HIDE DEF rest
        <5> QED BY <3>2, ContinueFine
      <4> QED
        BY <2>2, <3>1, <3>4, <4>1, <1>0 DEF LookupSession
    <3>5. CASE s # None
      <4>1. conn[s].client = job[t].client /\ Entered(s, conn)
        BY <3>3, <3>5 DEF SessionEntryBacked, Entered
      <4>2. JobFine([rest EXCEPT !.at = "bind", !.cur = m, !.arcs = {s}], mapping, conn)
        BY <3>2, <3>3, <4>1 DEF JobFine, Job
      <4> QED
        BY <2>2, <3>1, <3>5, <4>2, <1>0 DEF LookupSession
    <3> QED
      BY <3>4, <3>5
  <2>3. CASE BindPort(t)
    <3>1. JobFine([job[t] EXCEPT !.at = "insert"], mapping, conn)
      BY <2>3, <1>j DEF BindPort, JobFine, Job
    <3>2. JobFine(Continue(job[t]), mapping, conn)
      BY <2>3, <1>j, ContinueFine DEF BindPort
    <3>3. CASE pub[PortOf[job[t].cur]].state = "free"
      <4> DEFINE q == PortOf[job[t].cur]
      <4>1. PICK a \in job[t].arcs :
              /\ pub' = [pub EXCEPT ![q] = [map |-> job[t].cur, conn |-> a,
                                            state |-> "running", handle |-> t]]
              /\ job' = [job EXCEPT ![t].at = "insert"]
        BY <2>3, <3>3 DEF BindPort
      <4>2. ListenerFine([map |-> job[t].cur, conn |-> a, state |-> "running",
                          handle |-> t], q, mapping, conn)
        BY <2>3, <1>j DEF BindPort, JobFine, ListenerFine, Job
      <4>3. \A p \in Ports : ListenerFine(pub'[p], p, mapping, conn)
        BY <4>1, <4>2
      <4> QED
        BY <2>3, <3>1, <4>1, <4>3, <1>0 DEF BindPort
    <3>4. CASE pub[PortOf[job[t].cur]].state # "free"
      BY <2>3, <3>2, <3>4, <1>0 DEF BindPort
    <3> QED
      BY <3>3, <3>4
  <2>4. CASE InsertHandle(t)
    <3>1. JobFine(Continue(job[t]), mapping, conn)
      BY <2>4, <1>j, ContinueFine DEF InsertHandle
    <3>2. \A p \in Ports : /\ pub'[p].state = pub[p].state
                           /\ pub'[p].map = pub[p].map
                           /\ pub'[p].conn = pub[p].conn
      BY <2>4 DEF InsertHandle, Listener
    <3>3. \A p \in Ports : ListenerFine(pub'[p], p, mapping, conn)
      BY <3>2 DEF ListenerFine
    <3> QED
      BY <2>4, <3>1, <3>3, <1>0 DEF InsertHandle
  <2>5. CASE SnapshotSessions(t) \/ SnapshotClientSession(t)
    <3>1. job' = [job EXCEPT ![t] = job'[t]] /\ job'[t].at = "abort"
      BY <2>5, <1>j DEF SnapshotSessions, SnapshotClientSession, Job
    <3> QED
      BY <2>5, <3>1, <1>0 DEF SnapshotSessions, SnapshotClientSession, JobFine
  <2>6. CASE AbortHandles(t)
    <3>1. \A p \in Ports : ListenerFine(pub'[p], p, mapping, conn)
      <4> SUFFICES ASSUME NEW p \in Ports
                   PROVE  ListenerFine(pub'[p], p, mapping, conn)
        OBVIOUS
      <4>1. pub'[p] = pub[p] \/ (pub[p].handle = "map" /\ pub[p].conn \in job[t].arcs /\
               pub'[p] = [pub[p] EXCEPT !.state = "aborting", !.handle = "lost"])
        BY <2>6 DEF AbortHandles
      <4>2. pub[p].conn \in job[t].arcs => pub[p].state # "free"
        BY NoneAssumption DEF ListenerFine, Job, Tasks
      <4> QED
        BY <4>1, <4>2 DEF Listener, ListenerFine
    <3>2. JobFine(Idle, mapping, conn)
      BY DEF JobFine, Idle
    <3> QED
      BY <2>6, <3>1, <3>2, <1>0 DEF AbortHandles
  <2>7. CASE FindMapping(t)
    <3>1. JobFine([job[t] EXCEPT !.at = "add", !.guard = TRUE], mapping, conn)
          /\ JobFine(Idle, mapping, conn)
      BY <2>7, <1>j DEF FindMapping, JobFine, Job, Idle
    <3> QED
      BY <2>7, <3>1, <1>0 DEF FindMapping
  <2> QED
    BY <2>1, <2>2, <2>3, <2>4, <2>5, <2>6, <2>7 DEF JobStep
<1> QED
  BY <1>0

LEMMA OwnedRequest ==
    ASSUME Typed, Owned, NEW r \in Requests, WebRequest(r)
    PROVE  \A t \in Tasks : JobFine(job'[t], mapping', conn')
<1> SUFFICES ASSUME NEW t \in Tasks PROVE JobFine(job'[t], mapping', conn')
  OBVIOUS
<1> USE DEF Typed, TypeOK, Owned
<1>1. CASE job'[t] = job[t]
  <2>1. [Next]_vars
    BY DEF Next
  <2> QED
    BY <1>1, <2>1, JobFineKept
<1>2. CASE job'[t] # job[t]
  <2>h. ASSUME NEW j, Handle(r, j) PROVE job'[t] = j
    BY <1>2, <2>h DEF Handle
  <2>1. ASSUME NEW c \in Clients PROVE
          CreateClient(r, c) \/ EnableClient(r, c) \/ DisableClient(r, c) \/ DeleteClient(r, c)
            => job'[t].at \in {"idle", "start", "drain"}
    <3>1. CreateClient(r, c) => job'[t] = Idle
      BY <2>h DEF CreateClient
    <3>2. EnableClient(r, c) => job'[t] = [Idle EXCEPT !.at = "start", !.client = c]
      BY <2>h DEF EnableClient
    <3>3. DisableClient(r, c) \/ DeleteClient(r, c)
            => job'[t] = [Idle EXCEPT !.at = "drain", !.client = c]
      BY <2>h DEF DisableClient, DeleteClient
    <3>4. /\ Idle.at = "idle"
          /\ [Idle EXCEPT !.at = "start", !.client = c].at = "start"
          /\ [Idle EXCEPT !.at = "drain", !.client = c].at = "drain"
      BY DEF Idle
    <3> QED
      BY <3>1, <3>2, <3>3, <3>4
  <2>2. ASSUME NEW m \in Mappings PROVE
          DisableMapping(r, m) \/ DeleteMapping(r, m) => job'[t].at = "unlist"
    <3>1. DisableMapping(r, m) \/ DeleteMapping(r, m)
            => job'[t] = [Idle EXCEPT !.at = "unlist", !.todo = {m}]
      BY <2>h DEF DisableMapping, DeleteMapping
    <3> QED
      BY <3>1 DEF Idle
  <2>3. ASSUME NEW m \in Mappings, CreateMapping(r, m) \/ EnableMapping(r, m)
        PROVE  JobFine(job'[t], mapping', conn')
    <3>1. job'[t] \in {[Idle EXCEPT !.at = "add", !.client = Owner[m], !.todo = {m}],
                       [Idle EXCEPT !.at = "find", !.client = Owner[m], !.todo = {m}]}
      BY <2>3, <2>h DEF CreateMapping, EnableMapping
    <3>2. mapping'[m] # "absent"
      BY <2>3 DEF CreateMapping, EnableMapping
    <3> DEFINE add == [Idle EXCEPT !.at = "add", !.client = Owner[m], !.todo = {m}]
               fnd == [Idle EXCEPT !.at = "find", !.client = Owner[m], !.todo = {m}]
    <3>3. JobFine(add, mapping', conn') /\ JobFine(fnd, mapping', conn')
      <4>1. add.at = "add" /\ add.todo = {m} /\ add.client = Owner[m]
        BY DEF Idle
      <4>2. fnd.at = "find" /\ fnd.todo = {m} /\ fnd.client = Owner[m]
        BY DEF Idle
      <4> HIDE DEF add, fnd
      <4> QED
        BY <3>2, <4>1, <4>2 DEF JobFine
    <3> HIDE DEF add, fnd
    <3> QED
      BY <3>1, <3>3 DEF add, fnd
  <2>4. job'[t].at \in {"idle", "start", "drain", "unlist"} => JobFine(job'[t], mapping', conn')
    BY DEF JobFine
  <2> QED
    BY <2>1, <2>2, <2>3, <2>4 DEF WebRequest
<1> QED
  BY <1>1, <1>2

LEMMA OwnedStep == Typed /\ SessionEntryBacked /\ Owned /\ [Next]_vars => Owned'
<1> SUFFICES ASSUME Typed, SessionEntryBacked, Owned, [Next]_vars PROVE Owned'
  OBVIOUS
<1> DEFINE Jobs == \A t \in Tasks : JobFine(job'[t], mapping', conn')
           Pubs == \A p \in Ports : ListenerFine(pub'[p], p, mapping', conn')
<1>k. /\ UNCHANGED job => Jobs
      /\ UNCHANGED pub => Pubs
  BY JobFineKept, ListenerFineKept DEF Owned, Typed, TypeOK
<1>1. CASE \E t \in Tasks : JobStep(t)
  BY <1>1, OwnedJobStep, JobStepFrame DEF Owned
<1>2. CASE \E s \in Conns : TunnelStep(s)
  <2>1. CASE UNCHANGED <<job, pub>>
    BY <2>1, <1>k DEF Owned
  <2>2. ASSUME NEW s \in Conns, Acknowledge(s) PROVE Owned'
    <3>1. UNCHANGED pub
      BY <2>2 DEF Acknowledge
    <3>2. ASSUME NEW t \in Tasks PROVE JobFine(job'[t], mapping', conn')
      <4>1. job'[t] = job[t] \/ job'[t].at = "start"
        BY <2>2 DEF Acknowledge, Idle, Typed, TypeOK
      <4>2. CASE job'[t] = job[t]
        BY <4>2, JobFineKept DEF Owned, Typed, TypeOK
      <4>3. CASE job'[t].at = "start"
        BY <4>3 DEF JobFine
      <4> QED
        BY <4>1, <4>2, <4>3
    <3> QED
      BY <3>1, <3>2, <1>k DEF Owned
  <2> QED
    BY <1>2, <2>1, <2>2 DEF TunnelStep, ConnStep, Verify, Register, AcknowledgeFails, Drive,
       Disconnect, Unregister, DropChannel
<1>3. CASE \E r \in Requests : WebRequest(r)
  BY <1>3, <1>k, OwnedRequest, RequestFrame DEF Owned
<1>4. ASSUME NEW r \in Requests, RequestDropped(r) PROVE Owned'
  <2>1. \A t \in Tasks : job'[t] \in {job[t], Idle}
    BY <1>4 DEF RequestDropped, Typed, TypeOK
  <2>2. \A t \in Tasks : JobFine(job'[t], mapping, conn)
    BY <2>1 DEF JobFine, Idle, Owned
  <2>3. \A p \in Ports : /\ pub'[p].state = pub[p].state
                         /\ pub'[p].map = pub[p].map
                         /\ pub'[p].conn = pub[p].conn
    BY <1>4 DEF RequestDropped, Typed, TypeOK, Listener
  <2>4. \A p \in Ports : ListenerFine(pub'[p], p, mapping, conn)
    BY <2>3 DEF ListenerFine, Owned
  <2> QED
    BY <1>4, <2>2, <2>4 DEF RequestDropped, Owned
<1>5. ASSUME NEW p \in Ports,
             VisitorFindsChannelClosed(p) \/ AcceptError(p) \/ AbortTakesEffect(p)
      PROVE  Owned'
  <2>1. UNCHANGED <<mapping, conn, job>> /\ pub' = [pub EXCEPT ![p] = Free]
    BY <1>5 DEF VisitorFindsChannelClosed, AcceptError, AbortTakesEffect
  <2>2. ListenerFine(Free, p, mapping, conn)
    BY DEF ListenerFine, Free
  <2>3. \A q \in Ports : ListenerFine(pub'[q], q, mapping, conn)
    BY <2>1, <2>2 DEF Owned, Typed, TypeOK
  <2> QED
    BY <1>k, <2>1, <2>3 DEF Owned
<1>6. CASE UNCHANGED vars
  BY <1>6, <1>k DEF vars, Owned
<1> QED
  BY <1>1, <1>2, <1>3, <1>4, <1>5, <1>6 DEF Next, TunnelStep

LEMMA AlwaysOwned == Spec => []Owned
<1>1. Init => Owned
  BY DEF Init, Owned, JobFine, ListenerFine, Idle, Free, Existing
<1> QED
  BY <1>1, OwnedStep, AlwaysTyped, EntriesBacked, PTL DEF Spec

\* A public port only ever forwards to the client that owns the mapping the
\* port was bound for.
THEOREM VisitorsSafe == Spec => []VisitorsReachOwner
<1>1. Owned => VisitorsReachOwner
  BY DEF Owned, ListenerFine, VisitorsReachOwner
<1> QED
  BY <1>1, AlwaysOwned, PTL

-----------------------------------------------------------------------------
(* The read guard of update_mapping.                                       *)

GuardFine(j, mp) ==
    /\ j.at = "find" => j.cur = None
    /\ j.guard => /\ j.at \in {"add", "bind", "insert"}
                  /\ \A m \in j.todo \cup ({j.cur} \ {None}) : mp[m] \in Existing

Guarded == \A t \in Tasks : GuardFine(job[t], mapping)

LEMMA GuardJobStep ==
    ASSUME Typed, Guarded, NEW t \in Tasks, JobStep(t)
    PROVE  GuardFine(job'[t], mapping)
<1> USE DEF Typed, TypeOK
<1>j. job[t] \in Job /\ GuardFine(job[t], mapping)
  BY DEF Guarded
<1>c. \A j \in Job : GuardFine(j, mapping) => GuardFine(Continue(j), mapping)
  BY DEF GuardFine, Continue, Job, Idle
<1>i. GuardFine(Idle, mapping)
  BY DEF GuardFine, Idle
<1>1. CASE StartClientListeners(t)
  <2>1. ~job[t].guard
    BY <1>1, <1>j DEF StartClientListeners, GuardFine
  <2> DEFINE j == [job[t] EXCEPT !.todo = {m \in Mappings : /\ Owner[m] = job[t].client
                                                           /\ mapping[m] = "enabled"}]
  <2>2. j \in Job /\ ~j.guard /\ j.at = "start"
    BY <1>1, <1>j, <2>1 DEF Job, StartClientListeners
  <2>3. GuardFine(Continue(j), mapping)
    <3> HIDE DEF j
    <3> QED BY <1>c, <2>2 DEF GuardFine
  <2> QED
    BY <1>1, <2>3 DEF StartClientListeners
<1>2. CASE LookupSession(t)
  <2>1. PICK m \in job[t].todo :
          LET s    == sessions[job[t].client]
              rest == [job[t] EXCEPT !.todo = @ \ {m}]
          IN  job' = [job EXCEPT ![t] =
                       IF s = None THEN Continue(rest)
                       ELSE [rest EXCEPT !.at = "bind", !.cur = m, !.arcs = {s}]]
    BY <1>2 DEF LookupSession
  <2> DEFINE rest == [job[t] EXCEPT !.todo = @ \ {m}]
             s == sessions[job[t].client]
  <2>2. rest \in Job /\ GuardFine(rest, mapping)
    BY <1>j DEF Job, GuardFine
  <2>3. GuardFine(Continue(rest), mapping)
    <3> HIDE DEF rest
    <3> QED BY <1>c, <2>2
  <2>4. GuardFine([rest EXCEPT !.at = "bind", !.cur = m, !.arcs = {s}], mapping)
    BY <1>j DEF Job, GuardFine
  <2> QED
    BY <2>1, <2>3, <2>4
<1>3. CASE BindPort(t)
  <2>1. GuardFine([job[t] EXCEPT !.at = "insert"], mapping)
    BY <1>j DEF Job, GuardFine
  <2> QED
    BY <1>3, <1>j, <1>c, <2>1 DEF BindPort
<1>4. CASE InsertHandle(t)
  BY <1>4, <1>j, <1>c DEF InsertHandle
<1>5. CASE SnapshotSessions(t) \/ SnapshotClientSession(t)
  <2>1. ~job[t].guard
    BY <1>5, <1>j DEF SnapshotSessions, SnapshotClientSession, GuardFine
  <2>2. job'[t].guard = job[t].guard /\ job'[t].at = "abort"
    BY <1>5, <1>j DEF SnapshotSessions, SnapshotClientSession, Job
  <2> QED
    BY <2>1, <2>2 DEF GuardFine
<1>6. CASE AbortHandles(t)
  BY <1>6, <1>i DEF AbortHandles
<1>7. CASE FindMapping(t)
  <2>1. (\A m \in job[t].todo : mapping[m] \in Existing)
          => GuardFine([job[t] EXCEPT !.at = "add", !.guard = TRUE], mapping)
    BY <1>7, <1>j DEF Job, GuardFine, FindMapping
  <2> QED
    BY <1>7, <1>i, <2>1 DEF FindMapping
<1> QED
  BY <1>1, <1>2, <1>3, <1>4, <1>5, <1>6, <1>7 DEF JobStep

\* A request's first step waits for every guard, and its new job has none.
LEMMA GuardRequest ==
    ASSUME Typed, Guarded, NEW r \in Requests, WebRequest(r)
    PROVE  Guarded'
<1> SUFFICES ASSUME NEW t \in Tasks PROVE GuardFine(job'[t], mapping')
  BY DEF Guarded
<1> USE DEF Typed, TypeOK
<1>f. StoreFree
  BY DEF WebRequest, Handle, CreateClient, EnableClient, DisableClient, DeleteClient,
         CreateMapping, EnableMapping, DisableMapping, DeleteMapping
<1>1. CASE job'[t] = job[t]
  BY <1>f, <1>1 DEF StoreFree, GuardFine, Guarded
<1>2. CASE job'[t] # job[t]
  <2>h. ASSUME NEW j, Handle(r, j) PROVE job'[t] = j
    BY <1>2, <2>h DEF Handle
  <2>1. ASSUME NEW c \in Clients PROVE
          CreateClient(r, c) \/ EnableClient(r, c) \/ DisableClient(r, c) \/ DeleteClient(r, c)
            => ~job'[t].guard /\ job'[t].cur = None
    <3>1. CreateClient(r, c) => job'[t] = Idle
      BY <2>h DEF CreateClient
    <3>2. EnableClient(r, c) => job'[t] = [Idle EXCEPT !.at = "start", !.client = c]
      BY <2>h DEF EnableClient
    <3>3. DisableClient(r, c) \/ DeleteClient(r, c)
            => job'[t] = [Idle EXCEPT !.at = "drain", !.client = c]
      BY <2>h DEF DisableClient, DeleteClient
    <3> DEFINE Quiet(j) == ~j.guard /\ j.cur = None
    <3>4. /\ Quiet(Idle)
          /\ Quiet([Idle EXCEPT !.at = "start", !.client = c])
          /\ Quiet([Idle EXCEPT !.at = "drain", !.client = c])
      BY DEF Idle
    <3>5. CreateClient(r, c) \/ EnableClient(r, c) \/ DisableClient(r, c) \/ DeleteClient(r, c)
            => Quiet(job'[t])
      <4> HIDE DEF Quiet
      <4> QED BY <3>1, <3>2, <3>3, <3>4
    <3> QED
      BY <3>5
  <2>2. ASSUME NEW m \in Mappings PROVE
          CreateMapping(r, m) \/ EnableMapping(r, m) \/ DisableMapping(r, m) \/ DeleteMapping(r, m)
            => ~job'[t].guard /\ job'[t].cur = None
    <3>1. CreateMapping(r, m)
            => job'[t] = [Idle EXCEPT !.at = "add", !.client = Owner[m], !.todo = {m}]
      BY <2>h DEF CreateMapping
    <3>2. EnableMapping(r, m)
            => job'[t] = [Idle EXCEPT !.at = "find", !.client = Owner[m], !.todo = {m}]
      BY <2>h DEF EnableMapping
    <3>3. DisableMapping(r, m) \/ DeleteMapping(r, m)
            => job'[t] = [Idle EXCEPT !.at = "unlist", !.todo = {m}]
      BY <2>h DEF DisableMapping, DeleteMapping
    <3> DEFINE Quiet(j) == ~j.guard /\ j.cur = None
    <3>4. /\ Quiet([Idle EXCEPT !.at = "add", !.client = Owner[m], !.todo = {m}])
          /\ Quiet([Idle EXCEPT !.at = "find", !.client = Owner[m], !.todo = {m}])
          /\ Quiet([Idle EXCEPT !.at = "unlist", !.todo = {m}])
      BY DEF Idle
    <3>5. CreateMapping(r, m) \/ EnableMapping(r, m) \/ DisableMapping(r, m) \/ DeleteMapping(r, m)
            => Quiet(job'[t])
      <4> HIDE DEF Quiet
      <4> QED BY <3>1, <3>2, <3>3, <3>4
    <3> QED
      BY <3>5
  <2> QED
    BY <2>1, <2>2 DEF WebRequest, GuardFine
<1> QED
  BY <1>1, <1>2

LEMMA GuardStep == Typed /\ Guarded /\ [Next]_vars => Guarded'
<1> SUFFICES ASSUME Typed, Guarded, [Next]_vars PROVE Guarded'
  OBVIOUS
<1> USE DEF Typed, TypeOK
<1>1. ASSUME NEW t \in Tasks, JobStep(t) PROVE Guarded'
  <2>1. \A u \in Tasks \ {t} : job'[u] = job[u]
    BY <1>1 DEF JobStep, StartClientListeners, LookupSession, BindPort, InsertHandle,
         SnapshotSessions, SnapshotClientSession, AbortHandles, FindMapping
  <2> QED
    BY <1>1, <2>1, GuardJobStep, JobStepFrame DEF Guarded
<1>2. ASSUME NEW s \in Conns, Acknowledge(s) PROVE Guarded'
  BY <1>2 DEF Acknowledge, Guarded, GuardFine, Idle
<1>3. CASE \E r \in Requests : WebRequest(r)
  BY <1>3, GuardRequest
<1>4. ASSUME NEW r \in Requests, RequestDropped(r) PROVE Guarded'
  BY <1>4 DEF RequestDropped, Guarded, GuardFine, Idle
<1>5. CASE UNCHANGED <<job, mapping>>
  BY <1>5 DEF Guarded
<1> QED
  BY <1>1, <1>2, <1>3, <1>4, <1>5
     DEF Next, vars, ConnStep, Verify, Register, AcknowledgeFails, Drive, Disconnect,
         Unregister, DropChannel, VisitorFindsChannelClosed, AcceptError, AbortTakesEffect

\* While a mapping is being enabled under the read guard it is not deleted.
THEOREM EnableSafe == Spec => []GuardedEnable
<1>1. Init => Guarded
  BY DEF Init, Guarded, GuardFine, Idle
<1>2. Guarded => GuardedEnable
  BY DEF Guarded, GuardFine, GuardedEnable, Tasks
<1> QED
  BY <1>1, <1>2, GuardStep, AlwaysTyped, PTL DEF Spec

-----------------------------------------------------------------------------
(* Where the handle of a listener is.                                      *)

\* Only a connection that is being acknowledged runs a listener function, and
\* a task that binds does so for one session.
TasksFine ==
    /\ \A s \in Conns : conn[s].at # "starting" => job[s].at = "idle"
    /\ \A t \in Tasks : job[t].at \in {"bind", "insert"} => \E s \in Conns : job[t].arcs = {s}

\* A handle that a task holds is that of the listener it has just bound.
HeldFine == \A p \in Ports :
    /\ pub[p].state = "free" => pub[p].handle = None
    /\ pub[p].handle \in Tasks =>
          /\ pub[p].state = "running"
          /\ job[pub[p].handle].at = "insert"
          /\ job[pub[p].handle].cur = pub[p].map
          /\ pub[p].conn \in job[pub[p].handle].arcs

\* A task about to insert a handle either still has its listener running or
\* lost it because the session's channel was closed.
InsertFine == mishap \/ \A t \in Tasks : job[t].at = "insert" =>
    \/ pub[PortOf[job[t].cur]].handle = t
    \/ \A s \in job[t].arcs : ChannelClosed(s)

LostFine == mishap \/ \A p \in Ports :
    pub[p].state = "running" /\ pub[p].handle = "lost" =>
        ChannelClosed(pub[p].conn) \/ sessions[Owner[pub[p].map]] # pub[p].conn

Handled == TasksFine /\ HeldFine /\ InsertFine /\ LostFine

\* A request starts no job in the middle of binding.
LEMMA RequestJob ==
    ASSUME Typed, NEW r \in Requests, WebRequest(r)
    PROVE  /\ job[r].at = "idle"
           /\ \A u \in Tasks \ {r} : job'[u] = job[u]
           /\ job'[r].at \notin {"bind", "insert"}
<1> USE DEF Typed, TypeOK
<1>1. job[r].at = "idle"
  BY DEF WebRequest, Handle, CreateClient, EnableClient, DisableClient, DeleteClient,
     CreateMapping, EnableMapping, DisableMapping, DeleteMapping
<1>2. PICK j : Handle(r, j) /\ j.at \notin {"bind", "insert"}
  <2>1. \A c \in Clients :
          /\ Idle.at \notin {"bind", "insert"}
          /\ [Idle EXCEPT !.at = "start", !.client = c].at = "start"
          /\ [Idle EXCEPT !.at = "drain", !.client = c].at = "drain"
    BY DEF Idle
  <2>2. \A m \in Mappings :
          /\ [Idle EXCEPT !.at = "add", !.client = Owner[m], !.todo = {m}].at = "add"
          /\ [Idle EXCEPT !.at = "find", !.client = Owner[m], !.todo = {m}].at = "find"
          /\ [Idle EXCEPT !.at = "unlist", !.todo = {m}].at = "unlist"
    BY DEF Idle
  <2>3. \A a \in {"start", "drain", "add", "find", "unlist"} : a \notin {"bind", "insert"}
    OBVIOUS
  <2>4. ASSUME NEW c \in Clients,
               CreateClient(r, c) \/ EnableClient(r, c) \/ DisableClient(r, c) \/ DeleteClient(r, c)
        PROVE  \E j : Handle(r, j) /\ j.at \notin {"bind", "insert"}
    BY <2>1, <2>3, <2>4 DEF CreateClient, EnableClient, DisableClient, DeleteClient
  <2>5. ASSUME NEW m \in Mappings,
               CreateMapping(r, m) \/ EnableMapping(r, m) \/ DisableMapping(r, m) \/ DeleteMapping(r, m)
        PROVE  \E j : Handle(r, j) /\ j.at \notin {"bind", "insert"}
    BY <2>2, <2>3, <2>5 DEF CreateMapping, EnableMapping, DisableMapping, DeleteMapping
  <2> QED
    BY <2>4, <2>5 DEF WebRequest
<1>3. job' = [job EXCEPT ![r] = j] \/ job' = job
  BY <1>2 DEF Handle
<1> QED
  BY <1>1, <1>2, <1>3 DEF Tasks

LEMMA TasksStep == Typed /\ TasksFine /\ [Next]_vars => TasksFine'
<1> SUFFICES ASSUME Typed, TasksFine, [Next]_vars PROVE TasksFine'
  OBVIOUS
<1> USE TasksAssumption, NoneAssumption DEF Typed, TypeOK, TasksFine
<1>1. ASSUME NEW t \in Tasks, JobStep(t) PROVE TasksFine'
  <2>1. /\ job[t].at # "idle" /\ UNCHANGED conn
        /\ \A u \in Tasks \ {t} : job'[u] = job[u]
    BY <1>1 DEF JobStep, StartClientListeners, LookupSession, BindPort, InsertHandle,
         SnapshotSessions, SnapshotClientSession, AbortHandles, FindMapping
  <2>2. \A s \in Conns : conn'[s].at # "starting" => job'[s].at = "idle"
    BY <2>1 DEF Tasks
  <2>3. job'[t].at \in {"bind", "insert"} => \E s \in Conns : job'[t].arcs = {s}
    <3> job[t] \in Job
      OBVIOUS
    <3>c. \A j \in Job : Continue(j).at \in {"idle", "add"}
      BY ContinueType
    <3>1. CASE StartClientListeners(t)
      <4> DEFINE j == [job[t] EXCEPT !.todo = {m \in Mappings : /\ Owner[m] = job[t].client
                                                               /\ mapping[m] = "enabled"}]
      <4>1. j \in Job
        BY DEF Job
      <4>2. Continue(j).at \in {"idle", "add"}
        <5> HIDE DEF j
        <5> QED BY <4>1, <3>c
      <4> QED
        BY <3>1, <4>2 DEF StartClientListeners
    <3>2. CASE LookupSession(t)
      <4>1. PICK m \in job[t].todo :
              LET s    == sessions[job[t].client]
                  rest == [job[t] EXCEPT !.todo = @ \ {m}]
              IN  job' = [job EXCEPT ![t] =
                           IF s = None THEN Continue(rest)
                           ELSE [rest EXCEPT !.at = "bind", !.cur = m, !.arcs = {s}]]
        BY <3>2 DEF LookupSession
      <4> DEFINE rest == [job[t] EXCEPT !.todo = @ \ {m}]
                 s == sessions[job[t].client]
      <4>2. rest \in Job
        BY DEF Job
      <4>3. Continue(rest).at \in {"idle", "add"}
        <5> HIDE DEF rest
        <5> QED BY <4>2, <3>c
      <4>4. [rest EXCEPT !.at = "bind", !.cur = m, !.arcs = {s}].arcs = {s}
        BY DEF Job
      <4>5. s # None => s \in Conns
        BY <3>2 DEF LookupSession, JobHasClient
      <4> QED
        BY <4>1, <4>3, <4>4, <4>5
    <3>3. CASE BindPort(t)
      <4>1. [job[t] EXCEPT !.at = "insert"].arcs = job[t].arcs
        BY DEF Job
      <4>2. Continue(job[t]).at \in {"idle", "add"}
        BY <3>c
      <4>3. job'[t] = [job[t] EXCEPT !.at = "insert"] \/ job'[t] = Continue(job[t])
        BY <3>3 DEF BindPort
      <4>4. job[t].at = "bind"
        BY <3>3 DEF BindPort
      <4> QED
        BY <4>1, <4>2, <4>3, <4>4
    <3>4. CASE InsertHandle(t)
      BY <3>4, <3>c DEF InsertHandle
    <3>5. CASE SnapshotSessions(t) \/ SnapshotClientSession(t)
      <4>1. job'[t].at = "abort"
        BY <3>5 DEF SnapshotSessions, SnapshotClientSession, Job
      <4> QED
        BY <4>1
    <3>6. CASE AbortHandles(t)
      BY <3>6 DEF AbortHandles, Idle
    <3>7. CASE FindMapping(t)
      <4>1. [job[t] EXCEPT !.at = "add", !.guard = TRUE].at = "add"
        BY DEF Job
      <4> QED
        BY <3>7, <4>1 DEF FindMapping, Idle
    <3> QED
      BY <1>1, <3>1, <3>2, <3>3, <3>4, <3>5, <3>6, <3>7 DEF JobStep
  <2> QED
    BY <2>1, <2>2, <2>3
<1>2. ASSUME NEW s \in Conns, TunnelStep(s) PROVE TasksFine'
  <2> USE DEF Goto
  <2>1. CASE Acknowledge(s)
    BY <2>1 DEF Acknowledge, Idle, Tasks
  <2>2. CASE Drive(s)
    BY <2>2 DEF Drive
  <2>3. CASE \E c \in Clients : Verify(s, c)
    BY <2>3 DEF Verify
  <2>4. CASE Register(s)
    BY <2>4 DEF Register
  <2>5. CASE AcknowledgeFails(s) \/ Disconnect(s) \/ Unregister(s) \/ DropChannel(s)
    BY <2>5 DEF AcknowledgeFails, Disconnect, Unregister, DropChannel
  <2> QED
    BY <1>2, <2>1, <2>2, <2>3, <2>4, <2>5 DEF TunnelStep, ConnStep
<1>3. ASSUME NEW r \in Requests, WebRequest(r) PROVE TasksFine'
  BY <1>3, RequestJob, RequestFrame DEF Tasks
<1>4. ASSUME NEW r \in Requests, RequestDropped(r) PROVE TasksFine'
  BY <1>4 DEF RequestDropped, Idle, Tasks
<1>5. CASE UNCHANGED <<job, conn>>
  BY <1>5
<1> QED
  BY <1>1, <1>2, <1>3, <1>4, <1>5
     DEF Next, vars, TunnelStep, VisitorFindsChannelClosed, AcceptError, AbortTakesEffect

\* Only a connection that has not entered yet can take a slot.
LEMMA NoReentry ==
    ASSUME Typed, [Next]_vars, NEW c \in Clients, NEW s \in Conns,
           Entered(s, conn), sessions'[c] = s
    PROVE  sessions[c] = s
<1> USE NoneAssumption DEF Entered, Typed, TypeOK
<1>1. CASE UNCHANGED sessions
  BY <1>1
<1>2. ASSUME NEW u \in Conns, Register(u) PROVE sessions[c] = s
  BY <1>2 DEF Register
<1>3. ASSUME NEW u \in Conns, Unregister(u) PROVE sessions[c] = s
  BY <1>3 DEF Unregister, Tasks
<1> QED
  BY <1>1, <1>2, <1>3, OnlyTunnels
     DEF TunnelStep, ConnStep, Verify, Acknowledge, AcknowledgeFails, Drive, Disconnect,
         DropChannel

HandlesOnly == HeldFine /\ InsertFine /\ LostFine

\* A step that leaves the ports alone, and every task that is inserting.
LEMMA QuietHandles ==
    ASSUME Typed, Owned, Handled, [Next]_vars, UNCHANGED <<pub, mishap>>,
           \A t \in Tasks : job'[t] = job[t] \/ (job[t].at # "insert" /\ job'[t].at # "insert")
    PROVE  HandlesOnly'
<1>1. HeldFine'
  BY DEF Handled, HeldFine
<1>2. InsertFine'
  <2> SUFFICES ASSUME ~mishap, NEW t \in Tasks, job'[t].at = "insert",
                      pub[PortOf[job[t].cur]].handle # t, NEW s \in job[t].arcs
               PROVE  ChannelClosed(s)'
    BY DEF InsertFine
  <2>1. job[t].at = "insert" /\ s \in Conns
    BY DEF Typed, TypeOK, Job
  <2>2. Entered(s, conn) /\ ChannelClosed(s)
    BY <2>1 DEF Handled, InsertFine, Owned, JobFine
  <2> QED
    BY <2>1, <2>2, ConnMonotone DEF ChannelClosed
<1>3. LostFine'
  <2> SUFFICES ASSUME ~mishap, NEW p \in Ports, pub[p].state = "running",
                      pub[p].handle = "lost",
                      sessions'[Owner[pub[p].map]] = pub[p].conn
               PROVE  ChannelClosed(pub[p].conn)'
    BY DEF LostFine
  <2>1. pub[p].conn \in Conns /\ Entered(pub[p].conn, conn) /\ Owner[pub[p].map] \in Clients
    BY OwnerAssumption DEF Owned, ListenerFine
  <2>2. sessions[Owner[pub[p].map]] = pub[p].conn
    BY <2>1, NoReentry
  <2>3. ChannelClosed(pub[p].conn)
    BY <2>2 DEF Handled, LostFine
  <2> QED
    BY <2>1, <2>3, ConnMonotone DEF ChannelClosed
<1> QED
  BY <1>1, <1>2, <1>3 DEF HandlesOnly

\* Binding hands the new handle to the task that bound.
LEMMA BindHandles ==
    ASSUME Typed, Owned, Handled, NEW t \in Tasks, BindPort(t),
           pub[PortOf[job[t].cur]].state = "free"
    PROVE  HandlesOnly'
<1> DEFINE q == PortOf[job[t].cur]
<1>1. PICK a \in job[t].arcs :
        /\ pub' = [pub EXCEPT ![q] = [map |-> job[t].cur, conn |-> a,
                                      state |-> "running", handle |-> t]]
        /\ job' = [job EXCEPT ![t].at = "insert"]
  BY DEF BindPort
<1>2. /\ q \in Ports /\ job[t] \in Job /\ job[t].at = "bind"
      /\ UNCHANGED <<mapping, conn, sessions, mishap>>
  BY PortOfAssumption DEF BindPort, Owned, JobFine, Typed, TypeOK
<1>3. /\ pub'[q] = [map |-> job[t].cur, conn |-> a, state |-> "running", handle |-> t]
      /\ \A p \in Ports \ {q} : pub'[p] = pub[p]
  BY <1>1, <1>2 DEF Typed, TypeOK
<1>4. /\ job'[t] = [job[t] EXCEPT !.at = "insert"]
      /\ \A u \in Tasks \ {t} : job'[u] = job[u]
  BY <1>1 DEF Typed, TypeOK
<1>5. /\ job'[t].at = "insert" /\ job'[t].cur = job[t].cur /\ job'[t].arcs = job[t].arcs
  BY <1>2, <1>4 DEF Job
<1>6. pub[q].handle \notin Tasks
  BY <1>2, NoneAssumption DEF Handled, HeldFine
<1> HIDE DEF q
<1>7. HeldFine'
  <2>1. ASSUME NEW p \in Ports PROVE
          /\ pub'[p].state = "free" => pub'[p].handle = None
          /\ pub'[p].handle \in Tasks =>
                /\ pub'[p].state = "running"
                /\ job'[pub'[p].handle].at = "insert"
                /\ job'[pub'[p].handle].cur = pub'[p].map
                /\ pub'[p].conn \in job'[pub'[p].handle].arcs
    <3>1. CASE p = q
      BY <1>3, <1>5, <3>1
    <3>2. CASE p # q
      <4>1. pub'[p] = pub[p]
        BY <1>3, <3>2
      <4>2. pub[p].handle # t
        BY <1>2 DEF Handled, HeldFine
      <4> QED
        BY <1>4, <4>1, <4>2 DEF Handled, HeldFine
    <3> QED
      BY <3>1, <3>2
  <2> QED
    BY <2>1 DEF HeldFine
<1>8. InsertFine'
  <2>1. ASSUME ~mishap, NEW u \in Tasks, job'[u].at = "insert"
        PROVE  pub'[PortOf[job'[u].cur]].handle = u \/ \A s \in job'[u].arcs : ChannelClosed(s)
    <3>1. CASE u = t
      BY <1>3, <1>5, <3>1 DEF q
    <3>2. CASE u # t
      <4>1. job'[u] = job[u]
        BY <1>4, <3>2
      <4>2. PortOf[job[u].cur] \in Ports
        BY <2>1, <4>1, PortOfAssumption DEF Owned, JobFine
      <4>3. pub[PortOf[job[u].cur]].handle = u => PortOf[job[u].cur] # q
        BY <1>6
      <4> QED
        BY <1>3, <2>1, <4>1, <4>2, <4>3 DEF Handled, InsertFine
    <3> QED
      BY <3>1, <3>2
  <2> QED
    BY <1>2, <2>1 DEF InsertFine, ChannelClosed
<1>9. LostFine'
  <2>1. t # "lost"
    BY TasksAssumption
  <2> QED
    BY <1>2, <1>3, <2>1 DEF LostFine, Handled, ChannelClosed
<1> QED
  BY <1>7, <1>8, <1>9 DEF HandlesOnly

\* Inserting a handle can displace another one only on a closed session.
LEMMA InsertHandles ==
    ASSUME Typed, Owned, Handled, NEW t \in Tasks, InsertHandle(t)
    PROVE  HandlesOnly'
<1> DEFINE q == PortOf[job[t].cur]
<1>1. /\ q \in Ports /\ job[t] \in Job /\ job[t].at = "insert"
      /\ UNCHANGED <<mapping, conn, sessions, mishap>>
  BY PortOfAssumption DEF InsertHandle, Owned, JobFine, Typed, TypeOK
<1>2. /\ job'[t].at \in {"idle", "add"}
      /\ \A u \in Tasks \ {t} : job'[u] = job[u]
  BY <1>1, ContinueType DEF InsertHandle, Typed, TypeOK
<1>3. PICK h : /\ pub' = [pub EXCEPT ![q].handle = h]
               /\ \/ pub[q].handle = t /\ h = "map"
                  \/ /\ pub[q].handle = "map" /\ h = "lost" /\ t # "map"
                     /\ pub[q].conn \in job[t].arcs
                  \/ pub[q].handle # t /\ h = pub[q].handle
  BY TasksAssumption DEF InsertHandle
<1>4. /\ pub[q] \in Listener
      /\ pub'[q] = [pub[q] EXCEPT !.handle = h]
      /\ \A p \in Ports \ {q} : pub'[p] = pub[p]
  BY <1>1, <1>3 DEF Typed, TypeOK
<1>5. /\ pub'[q].handle = h /\ pub'[q].map = pub[q].map
      /\ pub'[q].state = pub[q].state /\ pub'[q].conn = pub[q].conn
  BY <1>4 DEF Listener
<1>6. \A p \in Ports : pub[p].handle = t => p = q
  BY DEF Handled, HeldFine, Owned, ListenerFine
<1>7. h # t /\ (h \in Tasks => pub[q].handle = h) /\ "map" \notin Tasks /\ "lost" \notin Tasks
  BY <1>3, TasksAssumption
<1>f. pub[q].state = "free" => h = None
  BY <1>1, <1>3, NoneAssumption DEF Handled, HeldFine, Owned, ListenerFine, Typed, TypeOK, Job, Tasks
<1> HIDE DEF q
<1>8. HeldFine'
  <2>1. ASSUME NEW p \in Ports PROVE
          /\ pub'[p].state = "free" => pub'[p].handle = None
          /\ pub'[p].handle \in Tasks =>
                /\ pub'[p].state = "running"
                /\ job'[pub'[p].handle].at = "insert"
                /\ job'[pub'[p].handle].cur = pub'[p].map
                /\ pub'[p].conn \in job'[pub'[p].handle].arcs
    <3>1. CASE p = q
      BY <3>1, <1>1, <1>2, <1>5, <1>7, <1>f DEF Handled, HeldFine
    <3>2. CASE p # q
      BY <3>2, <1>2, <1>4, <1>6 DEF Handled, HeldFine
    <3> QED
      BY <3>1, <3>2
  <2> QED
    BY <2>1 DEF HeldFine
<1>9. InsertFine'
  <2>1. ASSUME ~mishap, NEW u \in Tasks, job'[u].at = "insert"
        PROVE  pub'[PortOf[job'[u].cur]].handle = u \/ \A s \in job'[u].arcs : ChannelClosed(s)
    <3>1. u # t /\ job'[u] = job[u]
      BY <1>2, <2>1
    <3>2. PortOf[job[u].cur] \in Ports
      BY <2>1, <3>1, PortOfAssumption DEF Owned, JobFine
    <3>3. pub[q].handle = u => h = u
      BY <1>3, <1>7, <3>1
    <3>4. pub[PortOf[job[u].cur]].handle = u \/ \A s \in job[u].arcs : ChannelClosed(s)
      BY <2>1, <3>1 DEF Handled, InsertFine
    <3>5. pub[PortOf[job[u].cur]].handle = u => pub'[PortOf[job[u].cur]].handle = u
      BY <1>4, <1>5, <3>2, <3>3
    <3> QED
      BY <3>1, <3>4, <3>5
  <2> QED
    BY <1>1, <2>1 DEF InsertFine, ChannelClosed
<1>10. LostFine'
  <2> SUFFICES ASSUME ~mishap, NEW p \in Ports, pub'[p].state = "running",
                      pub'[p].handle = "lost"
               PROVE  ChannelClosed(pub'[p].conn) \/ sessions[Owner[pub'[p].map]] # pub'[p].conn
    BY <1>1 DEF LostFine, ChannelClosed
  <2>1. CASE p = q /\ pub[q].handle # "lost"
    <3>1. pub[q].conn \in job[t].arcs /\ pub[q].handle # t
      BY <1>3, <1>5, <1>7, <2>1
    <3>2. ChannelClosed(pub[q].conn)
      BY <1>1, <3>1 DEF Handled, InsertFine, q
    <3> QED
      BY <1>5, <2>1, <3>2
  <2>2. CASE ~(p = q /\ pub[q].handle # "lost")
    <3>1. pub'[p].map = pub[p].map /\ pub'[p].conn = pub[p].conn
          /\ pub[p].state = "running" /\ pub[p].handle = "lost"
      BY <1>4, <1>5, <2>2
    <3> QED
      BY <3>1 DEF Handled, LostFine
  <2> QED
    BY <2>1, <2>2
<1> QED
  BY <1>8, <1>9, <1>10 DEF HandlesOnly

\* Aborting takes handles out of the maps only.
LEMMA AbortHandlesKept ==
    ASSUME Typed, Owned, Handled, NEW t \in Tasks, AbortHandles(t)
    PROVE  HandlesOnly'
<1>1. /\ job[t].at = "abort" /\ job'[t].at = "idle"
      /\ \A u \in Tasks \ {t} : job'[u] = job[u]
      /\ UNCHANGED <<conn, sessions, mishap>>
  BY DEF AbortHandles, Idle, Typed, TypeOK
<1>2. ASSUME NEW p \in Ports
      PROVE  \/ pub'[p] = pub[p]
             \/ pub[p].handle = "map" /\ pub[p].conn \in job[t].arcs
                /\ pub'[p].state = "aborting" /\ pub'[p].handle = "lost"
  BY DEF AbortHandles, Listener, Typed, TypeOK
<1>3. "map" \notin Tasks /\ "lost" \notin Tasks
  BY TasksAssumption
<1>4. HeldFine'
  BY <1>1, <1>2, <1>3 DEF Handled, HeldFine
<1>5. InsertFine'
  <2> SUFFICES ASSUME ~mishap, NEW u \in Tasks, job'[u].at = "insert"
               PROVE  pub'[PortOf[job'[u].cur]].handle = u \/ \A s \in job'[u].arcs : ChannelClosed(s)
    BY <1>1 DEF InsertFine, ChannelClosed
  <2>1. job'[u] = job[u] /\ PortOf[job[u].cur] \in Ports
    BY <1>1, PortOfAssumption DEF Owned, JobFine
  <2> QED
    BY <1>2, <1>3, <2>1 DEF Handled, InsertFine
<1>6. LostFine'
  BY <1>1, <1>2 DEF Handled, LostFine, ChannelClosed
<1> QED
  BY <1>4, <1>5, <1>6 DEF HandlesOnly

\* A request dropped while it holds a handle is a mishap.
LEMMA DroppedHandles ==
    ASSUME Typed, Owned, Handled, NEW r \in Requests, RequestDropped(r)
    PROVE  HandlesOnly'
<1>1. /\ job'[r].at = "idle" /\ r \in Tasks
      /\ \A u \in Tasks \ {r} : job'[u] = job[u]
      /\ UNCHANGED <<conn, sessions>>
      /\ mishap' = (mishap \/ job[r].at = "insert")
  BY DEF RequestDropped, Idle, Typed, TypeOK, Tasks
<1>2. ASSUME NEW p \in Ports
      PROVE  /\ pub[p].handle # r => pub'[p] = pub[p]
             /\ pub[p].handle = r => /\ pub'[p].handle = "lost"
                                     /\ pub'[p].state = pub[p].state
                                     /\ job[r].at = "insert" /\ pub[p].state = "running"
  BY <1>1 DEF RequestDropped, Listener, Typed, TypeOK, Handled, HeldFine
<1>3. "lost" \notin Tasks
  BY TasksAssumption
<1>4. HeldFine'
  BY <1>1, <1>2, <1>3 DEF Handled, HeldFine
<1>5. InsertFine'
  <2> SUFFICES ASSUME ~mishap, job[r].at # "insert", NEW u \in Tasks, job'[u].at = "insert"
               PROVE  pub'[PortOf[job'[u].cur]].handle = u \/ \A s \in job'[u].arcs : ChannelClosed(s)
    BY <1>1 DEF InsertFine, ChannelClosed
  <2>1. job'[u] = job[u] /\ PortOf[job[u].cur] \in Ports /\ u # r
    BY <1>1, PortOfAssumption DEF Owned, JobFine
  <2> QED
    BY <1>2, <2>1 DEF Handled, InsertFine
<1>6. LostFine'
  BY <1>1, <1>2 DEF Handled, LostFine, ChannelClosed
<1> QED
  BY <1>4, <1>5, <1>6 DEF HandlesOnly

\* A port is released by its own loop, or after an abort.
LEMMA ReleasedHandles ==
    ASSUME Typed, Owned, Handled, NEW p \in Ports,
           VisitorFindsChannelClosed(p) \/ AcceptError(p) \/ AbortTakesEffect(p)
    PROVE  HandlesOnly'
<1>1. /\ pub' = [pub EXCEPT ![p] = Free]
      /\ UNCHANGED <<conn, sessions, job>>
      /\ mishap => mishap'
      /\ mishap' \/ pub[p].state = "aborting"
                 \/ (pub[p].state = "running" /\ ChannelClosed(pub[p].conn))
  BY DEF VisitorFindsChannelClosed, AcceptError, AbortTakesEffect
<1>2. /\ pub'[p].state = "free" /\ pub'[p].handle = None
      /\ \A q \in Ports \ {p} : pub'[q] = pub[q]
  BY <1>1 DEF Free, Typed, TypeOK
<1>3. None \notin Tasks
  BY NoneAssumption
<1>4. HeldFine'
  BY <1>1, <1>2, <1>3 DEF Handled, HeldFine
<1>5. InsertFine'
  <2> SUFFICES ASSUME ~mishap', NEW u \in Tasks, job[u].at = "insert",
                      pub'[PortOf[job[u].cur]].handle # u
               PROVE  \A s \in job[u].arcs : ChannelClosed(s)
    BY <1>1 DEF InsertFine, ChannelClosed
  <2>1. ~mishap /\ PortOf[job[u].cur] \in Ports
    BY <1>1, PortOfAssumption DEF Owned, JobFine
  <2>2. CASE PortOf[job[u].cur] # p \/ pub[p].handle # u
    BY <1>2, <2>1, <2>2 DEF Handled, InsertFine
  <2>3. CASE PortOf[job[u].cur] = p /\ pub[p].handle = u
    <3>1. pub[p].conn \in job[u].arcs /\ pub[p].state = "running"
      BY <2>3 DEF Handled, HeldFine
    <3>2. PICK s \in Conns : job[u].arcs = {s}
      BY DEF Handled, TasksFine
    <3> QED
      BY <1>1, <3>1, <3>2
  <2> QED
    BY <2>2, <2>3
<1>6. LostFine'
  BY <1>1, <1>2 DEF Handled, LostFine, ChannelClosed
<1> QED
  BY <1>4, <1>5, <1>6 DEF HandlesOnly

LEMMA HandledStep == Typed /\ Owned /\ Handled /\ [Next]_vars => Handled'
<1> SUFFICES ASSUME Typed, Owned, Handled, [Next]_vars PROVE Handled'
  OBVIOUS
<1> USE DEF Typed, TypeOK
<1>t. TasksFine'
  BY TasksStep DEF Handled
<1>1. ASSUME NEW t \in Tasks, JobStep(t) PROVE HandlesOnly'
  <2> DEFINE Others == \A u \in Tasks \ {t} : job'[u] = job[u]
  <2>j. job[t] \in Job /\ UNCHANGED mishap
    BY <1>1, JobStepFrame
  <2>1. CASE StartClientListeners(t)
    <3> DEFINE j == [job[t] EXCEPT !.todo = {m \in Mappings : /\ Owner[m] = job[t].client
                                                             /\ mapping[m] = "enabled"}]
    <3>1. j \in Job
      BY <2>j DEF Job
    <3>2. Continue(j).at \in {"idle", "add"}
      <4> HIDE DEF j
      <4> QED BY <3>1, ContinueType
    <3>3. job'[t].at # "insert" /\ job[t].at # "insert" /\ Others /\ UNCHANGED pub
      BY <2>1, <3>2 DEF StartClientListeners
    <3> QED
      BY <2>j, <3>3, QuietHandles
  <2>2. CASE LookupSession(t)
    <3>1. PICK m \in job[t].todo :
            LET s    == sessions[job[t].client]
                rest == [job[t] EXCEPT !.todo = @ \ {m}]
            IN  job' = [job EXCEPT ![t] =
                         IF s = None THEN Continue(rest)
                         ELSE [rest EXCEPT !.at = "bind", !.cur = m, !.arcs = {s}]]
      BY <2>2 DEF LookupSession
    <3> DEFINE rest == [job[t] EXCEPT !.todo = @ \ {m}]
               s == sessions[job[t].client]
    <3>2. rest \in Job
      BY <2>j DEF Job
    <3>3. Continue(rest).at \in {"idle", "add"}
      <4> HIDE DEF rest
      <4> QED BY <3>2, ContinueType
    <3>4. [rest EXCEPT !.at = "bind", !.cur = m, !.arcs = {s}].at = "bind"
      BY <2>j DEF Job
    <3>5. job'[t].at # "insert" /\ job[t].at # "insert" /\ Others /\ UNCHANGED pub
      BY <2>2, <3>1, <3>3, <3>4 DEF LookupSession
    <3> QED
      BY <2>j, <3>5, QuietHandles
  <2>3. CASE BindPort(t) /\ pub[PortOf[job[t].cur]].state = "free"
    BY <2>3, BindHandles
  <2>4. CASE BindPort(t) /\ pub[PortOf[job[t].cur]].state # "free"
    <3>1. Continue(job[t]).at \in {"idle", "add"}
      BY <2>j, ContinueType
    <3>2. job'[t].at # "insert" /\ job[t].at # "insert" /\ Others /\ UNCHANGED pub
      BY <2>4, <3>1 DEF BindPort
    <3> QED
      BY <2>j, <3>2, QuietHandles
  <2>5. CASE InsertHandle(t)
    BY <2>5, InsertHandles
  <2>6. CASE SnapshotSessions(t) \/ SnapshotClientSession(t)
    <3>1. job'[t].at = "abort" /\ job[t].at # "insert" /\ Others /\ UNCHANGED pub
      BY <2>j, <2>6 DEF SnapshotSessions, SnapshotClientSession, Job
    <3> QED
      BY <2>j, <3>1, QuietHandles
  <2>7. CASE AbortHandles(t)
    BY <2>7, AbortHandlesKept
  <2>8. CASE FindMapping(t)
    <3>1. [job[t] EXCEPT !.at = "add", !.guard = TRUE].at = "add" /\ Idle.at = "idle"
      BY <2>j DEF Job, Idle
    <3>2. job'[t].at # "insert" /\ job[t].at # "insert" /\ Others /\ UNCHANGED pub
      BY <2>8, <3>1 DEF FindMapping
    <3> QED
      BY <2>j, <3>2, QuietHandles
  <2> QED
    BY <1>1, <2>1, <2>2, <2>3, <2>4, <2>5, <2>6, <2>7, <2>8 DEF JobStep
<1>2. ASSUME NEW s \in Conns, TunnelStep(s) PROVE HandlesOnly'
  <2>1. UNCHANGED <<pub, mishap>>
    BY <1>2 DEF TunnelStep, ConnStep, Verify, Register, Acknowledge, AcknowledgeFails, Drive,
              Disconnect, Unregister, DropChannel
  <2>2. CASE UNCHANGED job
    BY <2>1, <2>2, QuietHandles
  <2>3. CASE Acknowledge(s)
    <3>1. job[s].at = "idle" /\ job'[s].at = "start" /\ \A u \in Tasks \ {s} : job'[u] = job[u]
      BY <2>3 DEF Acknowledge, Handled, TasksFine, Idle, Tasks
    <3> QED
      BY <2>1, <3>1, QuietHandles
  <2> QED
    BY <1>2, <2>2, <2>3 DEF TunnelStep, ConnStep, Verify, Register, AcknowledgeFails, Drive,
       Disconnect, Unregister, DropChannel
<1>3. ASSUME NEW r \in Requests, WebRequest(r) PROVE HandlesOnly'
  <2>1. UNCHANGED <<pub, mishap>>
    BY <1>3, RequestFrame
  <2>2. job'[r].at # "insert" /\ job[r].at # "insert" /\ \A u \in Tasks \ {r} : job'[u] = job[u]
    BY <1>3, RequestJob
  <2> QED
    BY <2>1, <2>2, QuietHandles
<1>4. ASSUME NEW r \in Requests, RequestDropped(r) PROVE HandlesOnly'
  BY <1>4, DroppedHandles
<1>5. ASSUME NEW p \in Ports,
             VisitorFindsChannelClosed(p) \/ AcceptError(p) \/ AbortTakesEffect(p)
      PROVE  HandlesOnly'
  BY <1>5, ReleasedHandles
<1>6. ASSUME UNCHANGED vars PROVE HandlesOnly'
  <2>1. UNCHANGED <<pub, mishap>> /\ \A t \in Tasks : job'[t] = job[t]
    BY <1>6 DEF vars
  <2> QED
    BY <2>1, QuietHandles
<1> QED
  BY <1>t, <1>1, <1>2, <1>3, <1>4, <1>5, <1>6 DEF Next, TunnelStep, Handled, HandlesOnly

LEMMA AlwaysHandled == Spec => []Handled
<1>1. Init => Handled
  BY NoneAssumption DEF Init, Handled, TasksFine, HeldFine, InsertFine, LostFine, Idle, Free, Tasks
<1> QED
  BY <1>1, HandledStep, AlwaysTyped, AlwaysOwned, PTL DEF Spec

\* A listener that accepts visitors for a session that is registered and open
\* can always be stopped, unless accept() failed or a request was dropped
\* between bind and insert.
THEOREM ListenersStoppable == Spec => []HandleReachable
<1>1. Handled => HandleReachable
  BY DEF Handled, LostFine, HandleReachable
<1> QED
  BY <1>1, AlwaysHandled, PTL

=============================================================================
