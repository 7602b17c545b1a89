---------------------------- MODULE HandlerLocks ----------------------------
(***************************************************************************)
(* The locks that tunnel tasks and Web UI requests share: `clients` and    *)
(* `sessions`, the RwLocks of AppState, and `listeners`, the Mutex of a    *)
(* session.  A handler is the sequence of the lock operations and waits it *)
(* still has to go through; PortExposure says what it does in between.     *)
(*                                                                         *)
(* tokio's locks are fair: who asks joins the lock's queue, and a reader   *)
(* behind a waiting writer waits too.                                      *)
(*                                                                         *)
(* Abstractions: one session's `listeners` stands for all of them (a       *)
(* handler holds one at a time), one mapping for the loop of               *)
(* start_client_listeners, one public port for the ports.                  *)
(***************************************************************************)
EXTENDS Naturals, Sequences, FiniteSets

CONSTANT Tasks   \* handlers running at the same time

ASSUME TasksAssumption == IsFiniteSet(Tasks)

VARIABLES
    rest,    \* [Tasks -> Seq(Op)]: what a handler still does; <<>> when it is over
    queue,   \* [Locks -> Seq(Tasks)]: who waits for a lock, in turn
    held,    \* [Locks -> SUBSET (Tasks \X Modes)]: the guards alive
    uses     \* how many mappings of the store have the port

vars == <<rest, queue, held, uses>>

Locks == {"clients", "sessions", "listeners"}
Modes == {"read", "write"}

-----------------------------------------------------------------------------
(* The handlers.  A work operation ("look", "push", "delete", "wait") names *)
(* no lock; "wait" is an await on the disk or a socket.                     *)

Take(lock, mode) == [op |-> "take", lock |-> lock, mode |-> mode]
Give(lock)       == [op |-> "give", lock |-> lock, mode |-> "none"]
Do(work)         == [op |-> work, lock |-> "none", mode |-> "none"]

\* A guard that lives for one statement or block, in which nothing is awaited.
Use(lock, mode) == <<Take(lock, mode), Give(lock)>>

\* Fault: add_listener looks at the client store itself.
AddListenerChecks ==
    Use("clients", "read") \o Use("sessions", "read") \o <<Do("wait")>>
        \o Use("listeners", "write")

\* proxy_tx and the listeners map out of the session, bind(), the insert.
AddListener == Use("sessions", "read") \o <<Do("wait")>> \o Use("listeners", "write")

RemoveListener == Use("sessions", "read") \o Use("listeners", "write")

StartListeners == Use("clients", "read") \o AddListener

\* One statement of a handler: change the list and persist() under the write
\* guard; `after` is what the handler does once it is dropped.
Change(work, after) ==
    <<Take("clients", "write")>> \o work \o <<Do("wait"), Give("clients")>> \o after

ChangeClient  == Change(<<>>, <<>>)   \* create_client, regenerate_token
EnableClient  == Change(<<>>, StartListeners)
Disable       == Change(<<>>, RemoveListener)   \* of a client or of a mapping
Delete        == Change(<<Do("delete")>>, RemoveListener)

\* Fault: the port is looked up under a guard of its own.
CreateLookedUp ==
    <<Take("clients", "read"), Do("look"), Give("clients")>>
        \o Change(<<Do("push")>>, AddListener)

\* remote_port_taken and the push are in one add_mapping.
CreateMapping == Change(<<Do("look"), Do("push")>>, AddListener)

\* The read guard of the `if let` lives through its body.
EnableMapping ==
    Change(<<>>, <<Take("clients", "read")>> \o AddListener \o <<Give("clients")>>)

ListClients  == Use("clients", "read")
ListSessions == Use("sessions", "read")

\* verify_token, the insertion under max_clients, start_client_listeners.
HandleTunnel == Use("clients", "read") \o Use("sessions", "write") \o StartListeners

CleanUp == Use("sessions", "write")

Handlers == {ChangeClient, EnableClient, Disable, Delete, CreateMapping,
             EnableMapping, ListClients, ListSessions, HandleTunnel, CleanUp}

-----------------------------------------------------------------------------
Init ==
    /\ rest = [t \in Tasks |-> <<>>]
    /\ queue = [l \in Locks |-> <<>>]
    /\ held = [l \in Locks |-> {}]
    /\ uses = 0

Waiting(t, l) == \E i \in 1..Len(queue[l]) : queue[l][i] = t

Advance(t) == rest' = [rest EXCEPT ![t] = Tail(@)]

\* The next operation of a handler is `op`.
At(t, op) == rest[t] # <<>> /\ Head(rest[t]).op = op

Begin(t) ==
    /\ rest[t] = <<>>
    /\ \E h \in Handlers : rest' = [rest EXCEPT ![t] = h]
    /\ UNCHANGED <<queue, held, uses>>

\* read(), write() or lock() is polled for the first time.
Ask(t) ==
    /\ At(t, "take")
    /\ LET l == Head(rest[t]).lock
       IN  /\ ~Waiting(t, l)
           /\ queue' = [queue EXCEPT ![l] = Append(@, t)]
    /\ UNCHANGED <<rest, held, uses>>

\* A writer waits until nobody holds the lock, a reader until no writer does.
Free(l, mode) == \A g \in held[l] : mode = "read" /\ g[2] = "read"

Acquire(t) ==
    /\ At(t, "take")
    /\ LET l == Head(rest[t]).lock
           mode == Head(rest[t]).mode
       IN  /\ queue[l] # <<>> /\ Head(queue[l]) = t
           /\ Free(l, mode)
           /\ queue' = [queue EXCEPT ![l] = Tail(@)]
           /\ held' = [held EXCEPT ![l] = @ \cup {<<t, mode>>}]
    /\ Advance(t)
    /\ UNCHANGED uses

\* Without the guards of task t.
Without(t, guards) == {g \in guards : g[1] # t}

DropGuard(t) ==
    /\ At(t, "give")
    /\ held' = [held EXCEPT ![Head(rest[t]).lock] = Without(t, @)]
    /\ Advance(t)
    /\ UNCHANGED <<queue, uses>>

\* remote_port_taken: a port in use ends the handler through Leave.
Look(t) ==
    /\ At(t, "look")
    /\ uses = 0
    /\ Advance(t)
    /\ UNCHANGED <<queue, held, uses>>

Push(t) ==
    /\ At(t, "push")
    /\ uses' = uses + 1
    /\ Advance(t)
    /\ UNCHANGED <<queue, held>>

\* The mapping on the port goes, or another one.
Remove(t) ==
    /\ At(t, "delete")
    /\ uses' \in {uses, uses - 1} \cap Nat
    /\ Advance(t)
    /\ UNCHANGED <<queue, held>>

Wait(t) ==
    /\ At(t, "wait")
    /\ Advance(t)
    /\ UNCHANGED <<queue, held, uses>>

\* Fault: a future that is dropped leaves its place in the queue behind.
LeaveInQueue(t) ==
    /\ rest[t] # <<>>
    /\ rest' = [rest EXCEPT ![t] = <<>>]
    /\ held' = [l \in Locks |-> Without(t, held[l])]
    /\ UNCHANGED <<queue, uses>>

\* The handler ends early: an error or an early return, or its future dropped
\* because the browser went away.  Guards and places in queues go with it.
Leave(t) ==
    /\ rest[t] # <<>>
    /\ rest' = [rest EXCEPT ![t] = <<>>]
    /\ held' = [l \in Locks |-> Without(t, held[l])]
    /\ queue' = [l \in Locks |-> SelectSeq(queue[l], LAMBDA u : u # t)]
    /\ UNCHANGED uses

Refused(t) == At(t, "look") /\ uses > 0 /\ Leave(t)

Step(t) == \/ Ask(t) \/ Acquire(t) \/ DropGuard(t) \/ Look(t) \/ Refused(t)
           \/ Push(t) \/ Remove(t) \/ Wait(t)

Next == \E t \in Tasks : Begin(t) \/ Step(t) \/ Leave(t)

\* tokio polls every task that can go on; nobody has to leave early.
Spec == Init /\ [][Next]_vars /\ \A t \in Tasks : WF_vars(Step(t))

-----------------------------------------------------------------------------
(* Properties.                                                             *)

\* Every variable has its type, and a handler that is over, in whichever way,
\* holds no guard and no place in a queue.
TypeOK ==
    /\ \A t \in Tasks : rest[t] \in Seq([op   : {"take", "give", "look", "push", "delete", "wait"},
                                         lock : Locks \cup {"none"},
                                         mode : Modes \cup {"none"}])
    /\ queue \in [Locks -> Seq({t \in Tasks : rest[t] # <<>>})]
    /\ \A l \in Locks : held[l] \subseteq {t \in Tasks : rest[t] # <<>>} \X Modes
    /\ uses \in 0..Cardinality(Tasks)

\* However two administrators' requests interleave, no two mappings of the store
\* get one public port (remote_port_taken, the push and persist() are under one
\* write guard).
PortUnique == uses <= 1

\* Every request and every handshake gets through the locks, whatever the others
\* do: no cycle of waiting, and no read guard asked for while one is held, which
\* a writer queued in between would turn into a deadlock (update_mapping keeps
\* its read guard across add_listener, routes.rs:208).
RequestsFinish == \A t \in Tasks : rest[t] # <<>> ~> rest[t] = <<>>

=============================================================================
