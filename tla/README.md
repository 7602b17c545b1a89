# MiniMask: a TLA+ verification project

MiniMask is a self-hosted TCP tunnel. A *server* with a public address accepts
*tunnel clients* over one long-lived, optionally TLS-protected connection each;
an administrator maps public ports of the server to addresses on a client's
network, and visitors of such a port are forwarded through a yamux stream of
the client's connection. This directory holds TLA+ models of the parts of the
program whose correctness depends on the order in which things happen, TLC
configurations that check them on small instances, and TLAPS proofs of the main
results for every size of the instance.

All paths below are relative to the repository root (`src/src/...` is the Rust
crate).

## 1. Inventory

| Component | State it keeps | Operations | Interacts with |
|---|---|---|---|
| Client store (`state.rs` `ClientStore`, `web/routes.rs`) | clients and their mappings, in memory under an `RwLock` and in `clients.json` | create, enable, disable, delete a client or mapping; regenerate a token; `persist` | listeners (hot reload), handshake (`verify_token`) |
| Session table (`SessionStore`) | one `SessionInfo` per connected client: session id, proxy channel, listeners map | insert (handshake), remove (cleanup), read by the listener functions | tunnel tasks, Web UI requests |
| Tunnel task (`tunnel/listener.rs` `handle_tunnel`, `tunnel/session.rs` `drive_server`) | progress of one connection | TLS accept, handshake, registration, driving yamux, cleanup | session table, store, proxy channel |
| Public listeners (`add_listener`, `remove_listener`, `public_accept_loop`) | bound sockets, join handles in the session's listeners map | bind, spawn, abort, accept, forward | session table, proxy channel |
| Proxy engine (`session.rs` select loop, `tunnel/proxy.rs`) | bounded channel, connection counters, two copy directions | enqueue with 200 ms timeout, open stream, copy, idle timeout | listeners, statistics |
| Tunnel client (`client.rs`) | back-off, cancellation token, tunnel | connect, handshake, serve streams, reconnect | server, GUI |
| Client GUI (`gui.rs`) | current run, shown state, reconnect counter, event channel | start, stop, pump events | tunnel client |
| Persistence (`ClientStore::persist`, `AuthStore`) | the file, its temporary file, memory | write, rename, load at start | store requests, crash |
| Audit log (`AuditLogStore`) | ring of 500 entries, log file and one backup | add, rotate, list | every handler |
| Statistics (`Stats`, `server.rs` sampler, `web/ws.rs`) | counters, 120-sample history, subscribers | sample each second, broadcast, subscribe | dashboard |
| Start-up and shutdown (`server.rs` `run`) | secrets, certificates, files | create on first start, drain 2 s on exit | everything |
| Login (`web/auth.rs`, `util.rs` JWT) | none on the server (stateless JWT) | login, `require_auth`, logout | auth store |
| Wire protocol (`tunnel/protocol.rs`) | none | write and read handshake, status, target | tunnel task, client |
| Web UI (`web-ui/`), `web/embed.rs`, `error.rs`, `main.rs`, `config.rs`, TLS set-up in `util.rs` | - | rendering, parsing, static files | - |

What makes it hard: one server process runs many tokio tasks (a task per tunnel
connection, per bound port, per proxied visitor, per Web UI request) that meet
in shared state behind locks which are released between the steps of an
operation. Connections are replaced by reconnects while the old one is still
being cleaned up. Persisting can fail or be cut short by a crash. Several
things end only when something else happens (an accept loop ends at the next
visitor, an aborted task when the runtime drops it). Timeouts race answers.

What makes each component correct:

* *Session table*: one slot per client, never more than `max_clients`; the late
  cleanup of a replaced connection does not evict its successor.
* *Public listeners*: a visitor reaches only the client that owns the mapping;
  a listener in service can always be stopped; a deleted mapping does not come
  back.
* *Requests*: every handler gets through the locks, whatever the others do; no two
  mappings get one public port.
* *Proxy engine*: counters return to zero, the channel never blocks an accept
  loop for good, no visitor is both dropped and served; on a connection no chunk
  is lost or doubled while the tunnel stands, an orderly end then delivers
  everything, the end of one side or of the tunnel reaches the other, and only an
  idle connection is closed as idle.
* *Tunnel client and GUI*: stopping ends the tunnel; the back-off follows the
  results of the attempts; what the GUI shows is what
  the client last reported; an old run never speaks for a new one.
* *Persistence*: the file is always a complete earlier state; an acknowledged
  change survives a crash; file and memory agree when nothing is in progress.
* *Audit log*: a line leaves the disk only when a full file of newer ones is there;
  the ring holds the newest entries.
* *Statistics*: a dashboard that has just subscribed is noticed, its figures never
  go back, and in the end they are the present ones.
* *Start-up*: what one life of the server creates, tokens, cookies and pinned
  certificates included, is good in the next; a death half-way does not keep
  the next start from succeeding.



## 2. Plan

Order of the modules, most important behaviour first. All but one are written.

| # | Module | Part | State |
|---|---|---|---|
| 1 | `SessionTable` | what the session table promises (abstract) | written, proved |
| 2 | `PortExposure` | session table, listeners, tunnel tasks, Web UI requests | written, implements 1, proved |
| 3 | `StoreFile` | `clients.json` and `auth.json` on disk | written, implements 11, proved |
| 4 | `SupervisedClient` | tunnel client, cancellation, GUI | written, proved |
| 5 | `ProxyPool` | channel, driver, streams, connection counter | written, implements 12, proved |
| 6 | `ProxiedStream` | one visitor's connection through both copy loops | written, implements 13, proved |
| 7 | `AuditLog` | ring and file, rotation by concurrent appenders | written, proved as part of 9 |
| 8 | `StatsFeed` | sampler, subscribers, dashboards | written, proved |
| 9 | `StartUp` | the server's life: files of the first start, serving, drain, exit; EXTENDS `AuditLog` | written, proved |
| 10 | `Handshake` | both sides of the handshake and their timeouts | not written, see section 7 |
| 11 | `DurableSet` | what a store kept in a file promises (abstract) | written |
| 12 | `VisitorQueue` | what a session promises its visitors (abstract) | written |
| 13 | `TwoWayPipe` | what a proxied connection promises its endpoints (abstract) | written |
| 14 | `HandlerLocks` | the locks that all handlers of 2 share, and who waits for whom | written, checked |
| 15 | `PortRemovals` | 2 with a memory of the mappings that were removed | written, checked |

`HandlerLocks` looks at the handlers of `PortExposure` from the side of their locks:
there a lock is taken and given back in one step and only the guard that outlives
a call is kept, here a handler is nothing but its lock operations.
`StartUp` composes with `AuditLog` because every life of the server logs, and the
log's files are what one life leaves to the next. `ProxiedStream` details what
is one step ("serve a visitor") in `ProxyPool`, `ProxyPool` what is one channel in
`PortExposure`; these seams are described below rather than composed, since the
product of the state spaces is out of reach and the interfaces are narrow: a
channel that is open or closed, a visitor's connection that ends.

## 3. The modules and the code

### PortExposure and SessionTable

The server's tasks that meet in `AppState`: one `handle_tunnel` task per tunnel
connection, one task per Web UI request, one `public_accept_loop` per port.

| Variable | In the code |
|---|---|
| `client`, `mapping` | `ClientStore.list`: absent, enabled, disabled or deleted |
| `sessions` | `AppState.sessions`; a connection stands for its `session_id` |
| `conn` | how far `handle_tunnel` and `drive_server` of a connection have come |
| `job` | the listener function (`start_client_listeners`, `add_listener`, `remove_listener`, `remove_client_listeners`) a task is inside, with its local variables |
| `pub` | per port: the accept loop bound to it, the session it feeds, and where its `JoinHandle` is |
| `mishap` | history: has a loop died on an `accept()` error, or a request been dropped between bind and insertion of the handle? |

A step ends wherever the task gives up a lock or awaits something after which
another task may have run. A store change is one step (the write guard is held
across `persist()`), with two outcomes: persisted, then the listener calls
follow; or failed, then memory keeps the change and the handler returns. The
read guard that `update_mapping` holds in its `if let` is the field `guard` of
a job; writers wait for it (`StoreFree`). An accept loop ends when a visitor
finds the channel closed, on an `accept()` error, or when the runtime gets round
to dropping an aborted task.

`SessionTable` is the abstract side: one slot per client, at most `MaxClients`
in use, a slot is vacated only for the connection that occupies it and only
after that connection has closed. `PortExposure` instantiates it as `Table`
(`table <- sessions`, `seen` and `closed` computed from `conn`), and
`TableSpec == Table!Spec` is both model-checked and proved.

`PortRemovals` adds the history variable `removed`: the deleted mappings whose
`remove_listener` (or whose client's `remove_client_listeners`) has run to its end.
`RemovedStaysClosed` speaks of them, and fails, see section 5.

### HandlerLocks

The tasks that use `AppState.clients` and `AppState.sessions` (`RwLock`s) and the
`listeners` of a session (`Mutex`): each handler of `web/routes.rs` that does, the
handshake and the clean-up of a tunnel task. A handler is the sequence of its
operations: take a lock, give it back, look the port up, push or delete a mapping,
wait for the disk or for a socket. `rest` is what a handler still has to do,
`queue` who waits for a lock, `held` the guards alive, `uses` how many mappings of
the store have the public port. The locks are tokio's: first come, first served, a
reader behind a waiting writer waits. A guard lives as long as in the code (edition
2024): for one statement or block in all places but two, the write guard of a
store change, which is held across `persist()`, and the read guard of
`update_mapping`'s `if let`, which is held across `add_listener`. Any handler may
leave at any operation (an error, an early return, a dropped request); its guards
and its places in queues go with it. What `PortExposure` says about the effect of
a handler is left out, so handlers here may take branches the data would not allow;
both properties hold all the same.

### StoreFile

`load`, `persist` and what may interrupt them, for both stores: `GuardHeld` is
TRUE for `ClientStore` (persisting under the write guard), FALSE for `AuthStore`
(the guard is released first). A store is the set of changes it contains; a
file is an inode, so a writer that holds the temporary file open follows it
through another's rename. `fs::write` is two steps (open with truncation, write)
because the blocking pool runs them to the end even when the request is dropped.
`mishap` records that a request was dropped inside `persist`, or that the
process died while the file was first created; the durability properties except
such histories, and they do fail in them: a dropped request gives up the guard
while its write goes on, and the next change truncates the temporary file under
it.

`DurableSet` is the abstract side: a change is begun, becomes durable in one
step together with all that memory holds, and only then is acknowledged; one that is not durable may
be answered with an error; a crash takes memory back to what is durable. `StoreFile`
instantiates it as `Durable`: `durable` is what the next start would read
(`OnFile`), `open` the requests under way, and `broken` the mishaps, after which
nothing is promised. Truncating, writing and their errors are stutters of it,
the rename is `Commit`.

### SupervisedClient

`run_supervised` (loop head, `select!` with the cancellation, judging the
result, back-off), `CancelToken` with its two separate steps on either side
(store the flag, notify; load the flag, register), the event channel, and the
GUI's `start`, `stop`, `on_exit` and `pump_events`. Each press of "connect" is a
run with a task, token and channel of its own. The back-off is counted in
doublings (`TopLevel` is 6 in the code). `run_once` is reduced to its outcomes.
`results` is history: what the attempts so far came to. `backoff` is reset or
doubled after the sleep: `WaitsEarned` says exactly which results the back-off
answers to at an attempt, and which in the wait before it. In a wait the last
result does not count yet, so that the wait after a dropped tunnel is the one
earlier failures earned; the comments promise another (section 5).

### ProxyPool

One client's session: its accept loops (`public_accept_loop`: limit check, send
with the 200 ms timeout), the proxy channel, `drive_server`'s `select!`, the
streams of the yamux connection, and the spawned tasks with the counter. What
yamux does is external and modelled from its use: a stream is acknowledged, or
given back, only in `poll_next_inbound`, and `poll_new_outbound` gives an error at
`max_num_streams` and stays pending while `MaxUnacked` streams await
acknowledgement. `LoopEnds` stands for `remove_listener`'s abort and for an
`accept()` error; `PortExposure` says when they happen.

`VisitorQueue` is the abstract side: a line of bounded length, served in order, a
bounded number at a time, until the session stops. The line (`InLine`) is the
visitor the driver has in its hands, if any, and behind him the channel, hence
one place more than the channel has; a visitor in his loop's hands is still
outside. So `Receive` is a stutter, a successful `send` is `Admit`, and every way to
lose a visitor before that (limit, timeout, closed channel, aborted loop) is
`TurnAway`.

### ProxiedStream

A visitor's connection from socket to socket: `proxy_connection` with its two
`copy_count` loops in one `select!` on the server (`tunnel/proxy.rs`), the yamux
stream, `handle_client_stream` with `copy_bidirectional_idle` on the client
(`client.rs`), and the local service. "out" is the way to the local service, "in"
the way back. Per way `src`, `link` and `dst` count the chunks in the first
socket, in the stream and in the last socket; a loop that is at "write" holds
one more. `server` and `cli` say how far the two tasks are, and why they ended.

The two sides differ, and the model keeps that: the server's loops each have an
idle timer that runs while *their* read waits, and one of them can go on while
the other waits to write; the client's loop has one timer for both ways and does
nothing else while it is inside `write_all`. What a stream or socket does is
external and modelled from its use: it holds a bounded number of chunks, gives
what it holds before it reports the end, and fails the writes of a peer that
has gone. A half-close (`shutdown` of one way) is not passed on by this code:
the end of one way ends both, which `EndMeansDelivered` takes into account by
speaking of the way that ended.

The tunnel under the stream may be lost (`LoseTunnel`). Each side drops its yamux
connection when it notices, in either order and at any time: what had not reached
that side is gone, and its copy loop, after what had arrived, reads an *orderly
end*, as yamux gives it (`Ok(0)`, `proxy.rs:71-73`); its writes fail. A side that
has not noticed yet goes on writing, to nobody. `heard` says whose end of the stream
the other side was told of while the tunnel could carry it. So after a lost
tunnel both sides may end "in order" with chunks missing, and neither the visitor
nor the local service can tell; this is why `EndMeansDelivered` is about
connections whose tunnel stood. A timer that nobody waits on any more is dropped
with its read, and so has no value (0).

`owed` and `recent` are history: chunks sent, and neither received nor gone with
the tunnel; and in which of the last `Idle` ticks the client's loop moved something.

`TwoWayPipe` is the abstract side: per way a number of chunks in flight and the
number owed. They part only when an end is given up with chunks in its hands: one
of each way at the server, where two loops run, one in all at the client, whose
one loop serves both ways. Once the tunnel is lost the pipe is broken, and what was
in the middle of it may be written off. `flight` is what the buffers and the running loops of a
way hold together (`InFlight`), so the copy loops' reads and writes are stutters,
whatever order they come in. Chunks that lie in a buffer when a task ends stay in
flight, although there may be nobody left to carry them on: `EndMeansDelivered`
says when there are none.

### AuditLog and StartUp

`AuditLog` is `AuditLogStore.add`: the entry goes into the ring under the mutex,
then, without it, the file is looked at, renamed if it is too large, opened for
appending and written to. Several tasks may be at different steps. A file is
named by the entry whose task created it, so a task that opened it before it was
renamed writes into the backup. A line is the unit of size. tokio's `File` hands
a write to the blocking pool and returns; the line reaches the disk later
(`pending`), and not at all if the process ends first. `audit.log` and the backup
(`with_extension("log.1")`) are the two names. When two appends both decide to
rename, the second replaces the backup the first has just made with a file that
may hold a single line; `raced` records that a rename met another append
half-way, and `RotationKeepsNewest` excepts such histories (it fails in them).

`StartUp` is `run` in `server.rs` together with what it leaves on the disk:
`config.toml`, the JWT secret, the pepper, and the four certificate files are
created in place (`fs::write`: create or truncate, then fill) or read back, in
the code's order; then the stores are loaded, the first audit entry is added,
the TLS acceptor is built, the server serves, drains and exits. A file is
absent, empty, or holds what start number n wrote. The process may die at every
step, and any write may fail. `mishap` records that a start was cut short while a
file was being filled, or while a complete set of certificates was being
replaced file by file: those are the histories in which a later start fails or
takes unrelated files for a set. `ensure_ca_and_server_cert` makes all four files
anew when one is missing, so an operator who removes one (`RemoveCert`; to have
them renewed, or just to take the CA's key off the machine) changes the CA that
clients have pinned. An empty secret is accepted by the code and is a value like
any other in the model. TLS is taken to be on, and `jwt_secret` to be unset in
the configuration, as by default. `clients.json` and `auth.json` are `StoreFile`'s.

### StatsFeed

The sampler's loop (`stats_sampler` in `server.rs`): a turn per second, in which it
counts subscribers only if it knows of some or after `IdleTicks` turns without a
look, and if there are any builds a message and broadcasts it; the list of
senders in `WsBroadcaster`, from which a dead channel goes when it is next
counted or sent to; `handle_ws`: subscribe, snapshot, send it, forward; and the
`session_change` messages which tunnel tasks broadcast at any time and the page
ignores. What a message shows is the number of changes so far, so that one
message can be called newer than another. `fed` and `missed` are history: who has
shown a broadcast, and for how many turns in a row somebody was overlooked.

### MC modules

`MCPortExposure`, `MCHandlerLocks`, `MCStoreFile`, `MCSupervisedClient`, `MCProxyPool`,
`MCProxiedStream`, `MCStatsFeed` and `MCStartUp` only declare the values of the
instances and the symmetry sets. Definitions whose
comment begins with "Fault:" are deliberately wrong variants of the action that
follows them. No specification uses them; replacing the action by its variant
makes the property named in `PROJECT.json` ("mutants") fail, which shows that
the property watches that piece of code.

## 4. The runs

| Run | Shows | Instance |
|---|---|---|
| `port_ownership` | types; every session entry is backed by a task that will clean up; visitors reach only the owner of the mapping; a listener in service can always be stopped; the read guard of `update_mapping` protects its mapping; `PortExposure` implements `SessionTable` | 2 clients, each with a mapping for the same port, 2 connections, 1 administrator and the store changes of a second, `MaxClients` 2 |
| `handler_locks` | every handler gets through the locks; no two mappings get one port; who has left holds nothing | 3 handlers of any kind at a time |
| `clients_file` | the file is whole; what was acknowledged is in it; `StoreFile` implements `DurableSet` | 3 changes, 4 inodes |
| `client_supervision` | badge and counter follow the client; one live tunnel; the back-off grows with every failure, is capped, and forgets the failures after a tunnel, one wait late; stopping ends the tunnel | 2 runs, 3 attempts each, back-off doubles twice |
| `proxy_pool` | exact counter; `ProxyPool` implements `VisitorQueue` (served in turn, within the limits, never dropped and served); accept loops return; the end of a session lets every visitor go | 4 visitors, 2 ports, channel of 1, limit 1, 2 streams, 1 unacknowledged |
| `proxied_stream` | `ProxiedStream` implements `TwoWayPipe` (no chunk is doubled, none lost while the tunnel stands); an orderly end then delivers everything; the client's idle timer; a hung service does not hold the server; the end of either side, or of the tunnel, reaches the other | sockets and window of 1 chunk, idle after 1 tick |
| `dashboard_feed` | a new dashboard is noticed in time; shown figures never go back; who stays ends up with the last ones | 2 dashboards, look every 5 turns, 3 changes, inbox of 2 |
| `server_restart` | secrets, certificates and pins survive; a start fails only after one that was cut short; the audit files keep the newest entries | 3 starts, 2 logging tasks, ring of 2, files of 1 line, 3 entries |
| `stale_copy` | violation: a deleted mapping is exposed again | 1 client, 1 mapping, 1 connection, 1 request |
| `reconnect` | violation: the port of an ended session is not free for the new one | 1 client, 2 connections, 1 request |
| `auth_file` | violation: two password changes, the older one ends up on disk | 2 changes |
| `driver_stall` | violation: the driver waits for what it does not read | 3 visitors |

**Bounds.** Two connections are what a late clean-up needs (the old one and its
successor). A refusal at `max_clients` would need a third; it is covered by the
proofs instead (`ImplementsSessionTable` and `ServerCapped` hold for any numbers).
Two requests are what a race of handlers needs. Of the second one `port_ownership` has what it does to
the store (changes that fail to be persisted, and those no listener function
follows), beside the first as long as there is one tunnel (`SecondRequestShort`, an action
constraint), which is what the read guard has to keep out; two listener functions at a time
come from a request and the tunnel tasks. The proofs have no such bound. One port suffices
because ports interact only by being the same. A mapping id is drawn once, so a
mapping goes from absent to deleted and never back; likewise a connection, a
change, a visitor or a run of the client is used up. That is also why every
cfg but that of `handler_locks` says `CHECK_DEADLOCK FALSE`: when all of them are used up, nothing is left
to do. In `StoreFile` four inodes are as many as three
changes can need at a time (the file, two still open, a fresh temporary one). In `SupervisedClient`
`MaxAttempts` bounds the attempts of a run; three are enough for two failures, with which the back-off
reaches its cap, followed by a tunnel, and for a tunnel followed by two failures;
`BackoffSound` covers any number. In `HandlerLocks` three
handlers are a holder, a writer queued behind it, and a reader behind that; every
handler may begin again, so nothing is used up and deadlock is checked. In `ProxyPool` a channel of one, one unacknowledged stream and two
streams put every limit within the reach of four visitors; with more room the
limits would not be met. In `ProxiedStream` buffers of one chunk are full as soon as
they are not empty; one tick of idle time makes the timers race every other
step. Endpoints act, ticks pass and the tunnel is lost only while one of the
tasks they could matter to is there. `StatsFeed` has the code's own five turns between two looks. In `StartUp`
a rotation at every line makes three entries lose one; three starts are a first
one, one that is cut short, and one that has to cope with both; the theorems
cover larger files, more entries and more starts.

**Symmetry** is used in safety runs only: connections, the two clients of `port_ownership`
each with its mapping, changes,
inodes and logging tasks where nothing tells them apart are interchangeable.
Runs with liveness properties have none. The refinements in `port_ownership` and
`clients_file` are checked under symmetry, too: they are safety properties (no
abstract side has fairness), and they do not tell connections, changes or inodes
apart. All four refinements are proved as well, so nothing rests on this.

**Fairness.** The runtime schedules tasks that can run, hence weak fairness of
the steps of tasks that are not waiting for anybody outside: a handler that is not
waiting for a lock (`HandlerLocks`; the locks' queues do the rest); the supervisor, the GUI thread, and an attempt's outcome,
which the timeouts of `run_once` guarantee (`SupervisedClient`); send with its
timeout, the driver, the start and end of tasks (`ProxyPool`); the server's two
copy loops, each by itself, the client's loop, and time, and that the second side
notices once the first has lost the tunnel, by its end of file or a keepalive
(`ProxiedStream`; this takes a driver that polls its connection, so not one stuck as
in `driver_stall`); the
sampler, a tunnel task that is about to broadcast, and `handle_ws` of a page that
stays (`StatsFeed`). Nothing is
assumed of peers, visitors, administrators and users: a tunnel may stay up for
ever, no visitor need come, nobody need press a button. The exceptions are a
visitor in `ProxiedStream` who, as long as he has neither hung nor closed, reads
what he is sent, and in `ProxyPool`: the peer acknowledges what it is sent (this only makes the
violation found by `driver_stall` stronger), and a proxied connection ends once
its tunnel is gone. The latter holds because reads from the dropped stream
end; if the task is at that moment writing to a visitor who does not read, the
other direction ends it, by the write error of the next byte or by its idle
timeout. Every leads-to property has been seen to fail when the step it relies
on is broken.

## 5. Where the code and its documentation differ

* **A reconnected client may not be served** (`reconnect`). Accept loops end only
  when a visitor finds the channel closed; the port stays bound until then, and
  the new session's bind fails. After that visitor nobody listens on the port.
* **A deleted mapping may be exposed again** (`stale_copy`). `add_listener` works from
  a copy of the mapping (`start_client_listeners`, `create_mapping`) and holds no
  guard: a deletion in between runs `remove_listener`, finds no handle, and returns;
  then the copy is bound, or its handle put into the map. Nothing in the Web UI names
  the mapping any more, and its port is held until the client is disabled, deleted
  or disconnected. `update_mapping` is safe (`GuardedEnable`).
* **`auth.json` may keep an older password** (`auth_file`): the guard is released
  before persisting, and the writers share one temporary file. As long as no two
  changes overlap the file does keep up (`PasswordsInTurn`).
* **The driver may wait for ever** (`driver_stall`), see `ProxyPool` above. This
  one rests on yamux's limit of unacknowledged streams, which is not part of
  the repository.

For these four a run shows the behaviour. Two more differences need no model to be
seen; `PROJECT.json` names them as hazards.

* **The wait after a tunnel is not brief.** Of a connection that was successful and
  closed later `client.rs:204-206` says that "we still back off briefly but reset to the
  initial value", and lines 218-219 that "the next reconnect attempt is fast". The wait is computed and
  slept (lines 207-215) before the back-off is reset (line 220): after failures that grew
  it, a client whose tunnel was up for hours waits up to 30 s when the tunnel drops. The
  reset shows one wait later. `WaitsEarned` states exactly this, wait by wait.
* **A busy connection can be closed as idle.** `tunnel/mod.rs:33-36` says that a connection
  "that transfers no data for this duration is forcibly closed". The server times
  each direction apart (`ServerIdle`), and either timer ends both, so a transfer that goes one
  way only is cut after five minutes. The client's loop does what is documented
  (`ClientIdleMeansQuiet`).

Three more remarks, on which no document says otherwise. A disabled client can
be given listeners (`create_mapping` and `update_mapping` look at the mapping's
flag, not at the client's); the steps are in `PortExposure`. `cancel()` can be
missed when it comes between the load of the flag and the registration of the
waiter; the step is in `SupervisedClient`, where it is harmless because the GUI
shuts the runtime down anyway (`StopEndsTunnel`). And a local service that stops
reading can hold the client's task in `write_all`, which has no timeout;
`EndReachesPeer` excepts exactly this case, while the server's end is released
(`HungServiceReleased`).

`PROJECT.json` quotes the lines concerned. Its list of hazards also names
those no property covers, with the reason; among them that a failed
`write_status(ok)` leaves an entry that counts against `max_clients` until the
same client reconnects, which it cannot when the table is full.

## 6. What is proved

All theorems hold for every value of the constants under the named assumptions
of the modules (finite sets of clients or visitors, natural bounds, functions
of the right type, distinct null values).

**`PortExposureProofs`** proves every safety property of `PortExposure` that the
passing runs check, and the refinement. None of the invariants is inductive
alone; they are proved in layers, each using the ones before it:

1. `Typed`: the types, and that a job at work has a client (`TypeCorrect`);
2. every occupied slot belongs to a connection of that client that is not yet
   unregistered (`EntriesBacked`): the clean-up compares session ids, hence a
   vacated slot never belonged to someone else. `ImplementsSessionTable` follows
   action by action, with a stutter for what does not touch the table;
3. `Owned`: what a job carries is consistent: the mappings in it belong to its client,
   the sessions it cloned belong to the client they were found under, and a
   bound port's record agrees with its mapping (`VisitorsSafe`);
4. `Guarded`: a job under a read guard names existing mappings only (`EnableSafe`), because
   every store change waits for the guard;
5. `Handled`: where a handle is: with the task that bound the port while it is at "insert",
   or in the session's map, unless the port is being released, its session
   was replaced or its channel is closed (`ListenersStoppable`).

**`SessionTableProofs`**: the abstract table keeps to `MaxClients` (`CapHolds`).
`PortExposureProofs` instantiates this theorem and carries it over by the
refinement: so does the server (`ServerCapped`). In the runs the cap is no smaller
than the number of clients, so it is the proof that speaks of smaller ones.

**`StoreFileProofs`**: types for both kinds of store (`StoreTypeCorrect`). All the
rest follows from one condition, `InTurn`: no two changes are inside `persist` at a
time, up to the excepted histories. Under it, of any store, the file lags behind
memory by exactly what the one writer carries or by failed changes
(`FileFollows`), and nobody has touched the temporary file since it was opened
(`Held`); hence the store implements `DurableSet` (`TurnsAreDurable`: every step is a
step of it or a stutter, a crash included), and the file holds the password in
force whenever nothing is under way (`PasswordsInTurn`). A store that holds its guard across
`persist` keeps to `InTurn` by itself (`GuardInTurn`), and so `clients.json` has it all
without a condition: `ImplementsDurableSet`, `ClientsFileWhole`,
`ClientsFileDurable`, `ClientsFileCurrent`. For `auth.json` the run `auth_file` shows that
the condition can fail, and `PasswordsInTurn` that, outside those histories, nothing else can.
`DurableSetKeeps` is about the abstract side: acknowledged changes stay durable,
and memory is ahead only by failed changes and the open one.

**`ProxyPoolProofs`**: types including the channel's capacity (`PoolTypeCorrect`),
hand-over (`HandOverSafe`), and the exact counter (`CounterSafe`). `Held` ties the
visitors' places to the channel and is inductive; the counter needs it because
the visitor taken out of the channel must not be a counted one.
`ImplementsVisitorQueue` needs in addition that whoever is served has a stream
until the connection goes (`Streamed`): yamux limits streams, the abstract side
limits visitors. From the abstract side it then follows that no more than
`max_num_streams` are served at a time (`ServedBounded`), however many slipped past
the limit check in `public_accept_loop` while the counter lagged behind.

**`SupervisedClientProofs`** proves the five invariants of `SupervisedClient`. `Linked`
says how a run's task, its token and the GUI belong together: a run nobody has
told to stop is the one on screen and at work, and between flag and
notification the GUI is still busy with it (`TypeCorrect`, `OneTunnel`). `Rounds`
says what the task's own variables remember of the results so far: the level is
earned by all of them at an attempt, by all but the last from its end until the
next (`BackoffSound`, from three lemmas on what one more result changes); `Badge` adds to the state on screen the reports on their way
(`BadgeSound`, `CounterSound`).

**`ProxiedStreamProofs`**: `Accounted` says that what is owed is on the way, exactly
while both tasks run and at least afterwards (`StreamsLossless`); `Delivers` adds
which task may end first for a way, and that it then leaves nothing behind as long
as the tunnel stands (`OrderlyEndDelivers`); `TimerTells` that the client's timer never exceeds the
time since its last chunk (`ClientIdleSound`). Types hold for any buffer sizes
(`TypeCorrect`). `ImplementsTwoWayPipe` adds which steps move chunks and that they
keep the sum; `PipeDropsInHand` follows from the abstract side: three chunks at
most are dropped when both ends are given up, two of one way and one of the other
(TLC reaches that case), and nothing else that is owed has left the pipe, save
what is written off with a lost tunnel.

**`StatsFeedProofs`**: `Looking`: the sampler has overlooked somebody no more often
than it has turned since its last look (`NoticeSound`). `Ascending`: what a
dashboard shows, what waits in its channel in order, what the sampler has
built, and the present are one ascending line, but for the snapshot before the
first broadcast (`ViewsSound`).

**`StartUpProofs`**: `Kept` says, for every step of `run`, which files are those of
the present start and which are not there yet, that a secret something was made
with is in its file and nobody is writing it, and that a certificate set is of
one start or incomplete, but for mishaps (`SecretsSafe`, `CaSafe`, `PinsSafe`,
`StartsSafe`). `LogKept` says of the audit log that an entry is in one place only
(`Distinct`) and, as long as no two appends have met at a rotation, that every
write goes to the file that has the name, that whoever is about to rename it is
right in that it is full, and that it holds the end of what was written (`Tidy`).
`RotationSound` follows by counting: what a rename removes is older than the full
file it leaves.

**Only model-checked**: the liveness properties (`RequestsFinish`,
`StopEndsTunnel`, `LoopsReturn`, `VisitorsReleased`,
`HungServiceReleased`, `EndReachesPeer`, `DashboardsCatchUp`), which the prover does
not reach, and the two invariants of `HandlerLocks`.

## 7. What is not modelled

* *Presentation*: the Web UI, `web/embed.rs`, the layout and settings file of the
  GUI, logging, error texts (`error.rs`), the command line (`main.rs`).
* *Parsing and cryptography*: `config.rs`, tokens, password hashes, JWTs,
  certificates and TLS in `util.rs`. A token either names an enabled client or
  it does not; `require_auth` keeps no state.
* *Power failures*: nothing is synced to disk, so only process crashes are
  modelled.
* *`regenerate_token`* changes neither listeners nor sessions; read-only handlers
  change nothing.
* *The handshake's reads, writes and timeouts*: on both sides a straight line
  without shared state, in which every wait but the server's `write_status` has its
  timeout; `PortExposure` has its outcomes, `SupervisedClient` the client's.
* *Panics*: a task of the server that panics is not modelled; the counter of a
  connection, for one, is only right as long as the task that serves it returns.
* *A client that goes away as a whole*: its copy tasks are dropped with its runtime;
  the server sees this as the loss of the tunnel, the local service as a closed
  socket.
* *Half-close*: the code does not pass it on, so neither does `ProxiedStream`.
* *The figures themselves*: rates and the chart's samples are arithmetic on
  counters; `StatsFeed` tells only which are newer.
* *Compositions*: a request that outlives the drain inside `persist` is in
  `StoreFile` as a dropped request, not composed with `StartUp`.
