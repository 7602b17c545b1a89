----------------------------- MODULE StoreFile -----------------------------
(***************************************************************************)
(* How the server keeps a store on disk: clients.json (ClientStore) and    *)
(* auth.json (AuthStore).  Both change memory first, then write the whole  *)
(* store to one temporary file and rename it over the real one.            *)
(* ClientStore holds its write guard meanwhile, AuthStore has released it: *)
(* that is GuardHeld.                                                      *)
(*                                                                         *)
(* tokio::fs hands open-and-truncate, write and rename to the blocking     *)
(* pool, where they run to their end even if the request that waits for    *)
(* them is dropped.  A process crash may come at any time; what the kernel *)
(* was given is then on disk (a power failure is not modelled: nothing is  *)
(* ever synced).                                                           *)
(*                                                                         *)
(* A store is abstracted to the set of changes it contains.  A file is an  *)
(* inode, so that a writer still holding one follows it through a rename.  *)
(***************************************************************************)
EXTENDS Naturals, FiniteSets

CONSTANTS Changes,    \* one Web UI request each
          Inodes,     \* enough for every file that exists at a time
          GuardHeld,  \* ClientStore: TRUE, AuthStore: FALSE
          None

ASSUME GuardHeldAssumption == GuardHeld \in BOOLEAN
ASSUME NoneAssumption == None \notin Changes \cup Inodes

VARIABLES
    server,   \* "down", "seeding" (first start, file being created), "up"
    memory,   \* SUBSET Changes: the store in memory
    req,      \* [Changes -> Request]: progress of a change
    guard,    \* the change that holds the write guard across persist(), or None
    path,     \* the inode named clients.json / auth.json, or None
    tmp,      \* the inode named *.json.tmp, or None
    content,  \* [Inodes -> Content]
    acked,    \* changes the administrator was told are done
    failed,   \* changes that were answered with an error
    mishap    \* was a request dropped inside persist(), or the seed cut short?

disk == <<path, tmp, content>>
vars == <<server, memory, req, guard, path, tmp, content, acked, failed, mishap>>

(***************************************************************************)
(* `data` is what persist() serialized, `fd` the open temporary file, and  *)
(* `waited` whether a request still waits for the blocking pool.           *)
(***************************************************************************)
Request == [at     : {"new", "open", "write", "rename", "reply", "over"},
            data   : SUBSET Changes,
            fd     : Inodes \cup {None},
            waited : BOOLEAN]

Content == [form : {"empty", "whole", "torn"}, data : SUBSET Changes]
Empty == [form |-> "empty", data |-> {}]
Torn == [form |-> "torn", data |-> {}]
Whole(d) == [form |-> "whole", data |-> d]

Init == /\ server = "down"
        /\ memory = {}
        /\ req = [c \in Changes |-> [at |-> "new", data |-> {}, fd |-> None, waited |-> TRUE]]
        /\ guard = None
        /\ path = None
        /\ tmp = None
        /\ content = [i \in Inodes |-> Empty]
        /\ acked = {}
        /\ failed = {}
        /\ mishap = FALSE

\* An inode is in use while a name or an open file refers to it.
InUse == {path, tmp} \cup {req[c].fd : c \in Changes}

-----------------------------------------------------------------------------
(* Starting and stopping the server.                                       *)

\* Fault: a complete temporary file is taken for the newer state.
LoadLeftover ==
    /\ server = "down"
    /\ path # None
    /\ server' = "up"
    /\ memory' = content[IF tmp # None /\ content[tmp].form = "whole" THEN tmp ELSE path].data
    /\ UNCHANGED <<req, guard, disk, acked, failed, mishap>>

\* load(): the file is read and parsed; what does not parse ends the server.
Load ==
    /\ server = "down"
    /\ path # None
    /\ content[path].form = "whole"
    /\ server' = "up"
    /\ memory' = content[path].data
    /\ UNCHANGED <<req, guard, disk, acked, failed, mishap>>

\* load(), first start: std::fs::write creates the file ...
Seed ==
    /\ server = "down"
    /\ path = None
    /\ \E i \in Inodes \ InUse :
          /\ path' = i
          /\ content' = [content EXCEPT ![i] = Empty]
    /\ server' = "seeding"
    /\ UNCHANGED <<memory, req, guard, tmp, acked, failed, mishap>>

\* ... and fills it.
Seeded ==
    /\ server = "seeding"
    /\ content' = [content EXCEPT ![path] = Whole({})]
    /\ memory' = {}
    /\ server' = "up"
    /\ UNCHANGED <<req, guard, path, tmp, acked, failed, mishap>>

\* The process dies.  Requests and open files go with it.
Crash ==
    /\ server # "down"
    /\ server' = "down"
    /\ memory' = {}
    /\ req' = [c \in Changes |->
                  IF req[c].at = "new" THEN req[c]
                  ELSE [at |-> "over", data |-> {}, fd |-> None, waited |-> req[c].waited]]
    /\ guard' = None
    /\ mishap' = (mishap \/ server = "seeding")
    /\ UNCHANGED <<disk, acked, failed>>

-----------------------------------------------------------------------------
(* A change: memory first, under the write guard, then persist().          *)

Move(c, place, fd, data) ==
    req' = [req EXCEPT ![c] = [at |-> place, fd |-> fd, data |-> data,
                               waited |-> req[c].waited]]

\* AuthStore clones what it serializes before it releases the guard.
Change(c) ==
    /\ server = "up"
    /\ req[c].at = "new"
    /\ guard = None
    /\ memory' = memory \cup {c}
    /\ Move(c, "open", None, memory \cup {c})
    /\ guard' = IF GuardHeld THEN c ELSE None
    /\ UNCHANGED <<server, disk, acked, failed, mishap>>

\* fs::write opens the temporary file: a new one, or the one left there,
\* truncated.
OpenTmp(c) ==
    /\ req[c].at = "open"
    /\ \E i \in IF tmp = None THEN Inodes \ InUse ELSE {tmp} :
          /\ tmp' = i
          /\ content' = [content EXCEPT ![i] = Empty]
          /\ Move(c, "write", i, req[c].data)
    /\ UNCHANGED <<server, memory, guard, path, acked, failed, mishap>>

\* After the blocking closure: the waiting request goes on, or nobody does.
After(c, place) == IF req[c].waited THEN place ELSE "over"

\* fs::write writes from offset 0 and closes.  Over the bytes of another
\* writer the longer text leaves a tail behind.
WriteTmp(c) ==
    /\ req[c].at = "write"
    /\ \E new \in {Whole(req[c].data), Torn} :
          /\ content[req[c].fd] = Empty => new # Torn
          /\ content' = [content EXCEPT ![req[c].fd] = new]
    /\ Move(c, After(c, "rename"), None, req[c].data)
    /\ UNCHANGED <<server, memory, guard, path, tmp, acked, failed, mishap>>

\* Fault: the guard outlives the handler.
ReleaseForgotten(c) == UNCHANGED guard

Release(c) == guard' = IF guard = c THEN None ELSE guard

\* The handler answers; the guard goes with its scope.
Answer(c, ok) ==
    /\ Move(c, "over", None, {})
    /\ Release(c)
    /\ acked' = IF ok /\ req[c].waited THEN acked \cup {c} ELSE acked
    /\ failed' = IF ok \/ ~req[c].waited THEN failed ELSE failed \cup {c}

\* Fault: an error of fs::write is logged and renamed over.
WriteErrorIgnored(c) ==
    /\ req[c].at = "write"
    /\ content' = [content EXCEPT ![req[c].fd] = Torn]
    /\ Move(c, After(c, "rename"), None, req[c].data)
    /\ UNCHANGED <<server, memory, guard, path, tmp, acked, failed, mishap>>

\* The disk is full or the open refused: `?` leaves persist(), whatever was
\* written stays in the temporary file.
WriteFails(c) ==
    /\ req[c].at \in {"open", "write"}
    /\ content' = IF req[c].at = "open" THEN content
                  ELSE [content EXCEPT ![req[c].fd] = Torn]
    /\ Answer(c, FALSE)
    /\ UNCHANGED <<server, memory, path, tmp, mishap>>

\* fs::rename replaces the file; without a temporary file it is an error.
Rename(c) ==
    /\ req[c].at = "rename"
    /\ tmp # None
    /\ path' = tmp
    /\ tmp' = None
    /\ Move(c, After(c, "reply"), None, req[c].data)
    /\ UNCHANGED <<server, memory, guard, content, acked, failed, mishap>>

RenameFails(c) ==
    /\ req[c].at = "rename"
    /\ Answer(c, FALSE)
    /\ UNCHANGED <<server, memory, disk, mishap>>

\* Fault: the answer is sent before the file is renamed.
ReplyEarly(c) ==
    /\ req[c].at \in {"rename", "reply"}
    /\ Answer(c, TRUE)
    /\ UNCHANGED <<server, memory, disk, mishap>>

Reply(c) ==
    /\ req[c].at = "reply"
    /\ Answer(c, TRUE)
    /\ UNCHANGED <<server, memory, disk, mishap>>

\* The browser goes away inside persist(): the guard is released at once, the
\* blocking closure under way goes on alone.
RequestDropped(c) ==
    /\ req[c].at \in {"open", "write", "rename", "reply"}
    /\ req[c].waited
    /\ req' = [req EXCEPT ![c].waited = FALSE]
    /\ Release(c)
    /\ mishap' = TRUE
    /\ UNCHANGED <<server, memory, disk, acked, failed>>

-----------------------------------------------------------------------------
Persist(c) == \/ OpenTmp(c) \/ WriteTmp(c) \/ WriteFails(c)
              \/ Rename(c) \/ RenameFails(c) \/ Reply(c)

Next == \/ Load \/ Seed \/ Seeded \/ Crash
        \/ \E c \in Changes : Change(c) \/ Persist(c) \/ RequestDropped(c)

Spec == Init /\ [][Next]_vars

-----------------------------------------------------------------------------
(* Properties.                                                             *)

UnderWay == {c \in Changes : req[c].at \notin {"new", "over"}}

\* Every variable has its type; the guard is held by a request under way.
TypeOK == /\ server \in {"down", "seeding", "up"}
          /\ memory \subseteq Changes
          /\ req \in [Changes -> Request]
          /\ guard \in UnderWay \cup {None}
          /\ path \in Inodes \cup {None}
          /\ tmp \in Inodes \cup {None}
          /\ content \in [Inodes -> Content]
          /\ acked \subseteq Changes
          /\ failed \subseteq Changes
          /\ mishap \in BOOLEAN

\* A crash at any moment leaves a file the next start can load: it is always
\* one whole earlier state of the store.
DiskWhole == mishap \/ server = "seeding" \/ path = None
                    \/ content[path].form = "whole"

\* What the administrator was told is done is in the file, however writes fail
\* or the server crashes afterwards.
AcknowledgedSurvives ==
    mishap \/ (path # None /\ acked \subseteq content[path].data) \/ acked = {}

\* With no request under way, file and memory differ only by changes whose
\* request was answered with an error; the next successful one writes them too.
DiskCurrent ==
    server = "up" /\ UnderWay = {}
        => mishap \/ (/\ content[path].data \subseteq memory
                      /\ memory \ content[path].data \subseteq failed)

\* state.rs:463: the auth store is persisted to auth.json.  With no request
\* under way, the file holds the password that is in force.
PasswordPersisted ==
    server = "up" /\ UnderWay = {} /\ failed = {} /\ ~mishap
        => content[path] = Whole(memory)

\* The file is a DurableSet, for as long as nobody drops a request inside
\* persist(): what the next start would read is durable.
OnFile == IF path = None \/ server = "seeding" THEN {} ELSE content[path].data

Durable == INSTANCE DurableSet WITH
    memory  <- IF server = "up" THEN memory ELSE OnFile,
    durable <- OnFile,
    open    <- UnderWay,
    broken  <- mishap

\* Truncating, writing and renaming, with their errors and a crash between any
\* two of them, look like one atomic step between the change and the answer
\* (the temporary file and the guard held across persist(), state.rs:94-113).
DurableSpec == Durable!Spec

=============================================================================
