------------------------------ MODULE AuditLog ------------------------------
(***************************************************************************)
(* The audit log (`AuditLogStore`, state.rs): a ring of the newest Cap     *)
(* entries behind a mutex, and a file to which each add() appends a line   *)
(* after it has let the mutex go, so that several tasks may be inside      *)
(* append() at once.  A file that has reached MaxLines is renamed to the   *)
(* backup, replacing the previous one.                                     *)
(*                                                                         *)
(* An entry is its number in the order of the ring; a line is one unit of  *)
(* size.  A file is known by the entry that created it, whatever its name: *)
(* who opened it before it was renamed writes into the backup.  tokio's    *)
(* File hands a write to a thread of its own and returns; the line is      *)
(* written some time later (`pending`), also when the File was dropped.    *)
(* Bound: MaxEntries entries are added.                                    *)
(***************************************************************************)
EXTENDS Naturals, Sequences, FiniteSets

CONSTANTS Tasks,      \* tasks that may log at the same time
          Cap,        \* 500: entries in the ring
          MaxLines,   \* audit.max_size_mb
          MaxEntries, None

ASSUME LogAssumption == /\ Cap \in Nat \ {0} /\ MaxLines \in Nat \ {0}
                        /\ MaxEntries \in Nat \ {0} /\ None \notin Nat

VARIABLES
    ring,     \* Seq(entry): AuditLogStore.logs
    count,    \* entries added so far
    add,      \* [Tasks -> [at, entry, fd]]: progress of add()
    log,      \* the file named audit.log
    backup,   \* the file named audit.log.1
    lines,    \* [1..MaxEntries -> SUBSET entries]: what is in a file
    pending,  \* set of [entry, fd]: writes handed to the blocking pool
    written,  \* Seq(entry): the order in which lines reached the disk (history)
    raced     \* did a rename meet another append() half-way? (history)

logvars == <<ring, count, add, log, backup, lines, pending, written, raced>>

Out == [at |-> "out", entry |-> 0, fd |-> None]

LogInit == /\ ring = <<>>
           /\ count = 0
           /\ add = [t \in Tasks |-> Out]
           /\ log = None
           /\ backup = None
           /\ lines = [i \in 1..MaxEntries |-> {}]
           /\ pending = {}
           /\ written = <<>>
           /\ raced = FALSE

\* Fault: the ring makes room one entry too late.
PushLate(t) ==
    /\ add[t].at = "out"
    /\ count < MaxEntries
    /\ count' = count + 1
    /\ ring' = Append(IF Len(ring) > Cap THEN Tail(ring) ELSE ring, count')
    /\ add' = [add EXCEPT ![t] = [at |-> "stat", entry |-> count', fd |-> None]]
    /\ UNCHANGED <<log, backup, lines, pending, written, raced>>

\* The entry goes into the ring, the oldest one out of a full one.
Push(t) ==
    /\ add[t].at = "out"
    /\ count < MaxEntries
    /\ count' = count + 1
    /\ ring' = Append(IF Len(ring) >= Cap THEN Tail(ring) ELSE ring, count')
    /\ add' = [add EXCEPT ![t] = [at |-> "stat", entry |-> count', fd |-> None]]
    /\ UNCHANGED <<log, backup, lines, pending, written, raced>>

\* metadata(): is there a file, and is it too large?
Stat(t) ==
    /\ add[t].at = "stat"
    /\ add' = [add EXCEPT ![t].at =
                  IF log # None /\ Cardinality(lines[log]) >= MaxLines
                  THEN "rename" ELSE "open"]
    /\ UNCHANGED <<ring, count, log, backup, lines, pending, written, raced>>

\* Another append() has decided to rename, or is about to write into the file.
HalfWay(t) ==
    \/ \E u \in Tasks \ {t} : add[u].at = "rename" \/ (add[u].at = "write" /\ add[u].fd = log)
    \/ \E w \in pending : w.fd = log

\* Whatever is named audit.log by now becomes the backup; a rename that fails
\* is ignored.
Rename(t) ==
    /\ add[t].at = "rename"
    /\ add' = [add EXCEPT ![t].at = "open"]
    /\ \/ UNCHANGED <<log, backup, raced>>
       \/ /\ log # None
          /\ backup' = log
          /\ log' = None
          /\ raced' = (raced \/ HalfWay(t))
    /\ UNCHANGED <<ring, count, lines, pending, written>>

\* Fault: without append, the file is started anew.
OpenTruncating(t) ==
    /\ add[t].at = "open"
    /\ LET i == IF log # None THEN log ELSE add[t].entry
       IN  /\ log' = i
           /\ lines' = [lines EXCEPT ![i] = {}]
           /\ add' = [add EXCEPT ![t].at = "write", ![t].fd = i]
    /\ UNCHANGED <<ring, count, backup, pending, written, raced>>

\* open() with create and append.
Open(t) ==
    /\ add[t].at = "open"
    /\ LET i == IF log # None THEN log ELSE add[t].entry
       IN  /\ log' = i
           /\ add' = [add EXCEPT ![t].at = "write", ![t].fd = i]
    /\ UNCHANGED <<ring, count, backup, lines, pending, written, raced>>

\* write_all hands the line over, the File is dropped, and add() returns.
Write(t) ==
    /\ add[t].at = "write"
    /\ pending' = pending \cup {[entry |-> add[t].entry, fd |-> add[t].fd]}
    /\ add' = [add EXCEPT ![t] = Out]
    /\ UNCHANGED <<ring, count, log, backup, lines, written, raced>>

\* open() fails: add() reports it and returns.
OpenFails(t) ==
    /\ add[t].at = "open"
    /\ add' = [add EXCEPT ![t] = Out]
    /\ UNCHANGED <<ring, count, log, backup, lines, pending, written, raced>>

\* The blocking pool does one of the writes, if need be into a file that has
\* no name any more.
Flush ==
    \E w \in pending :
       /\ pending' = pending \ {w}
       /\ lines' = [lines EXCEPT ![w.fd] = @ \cup {w.entry}]
       /\ written' = Append(written, w.entry)
       /\ UNCHANGED <<ring, count, add, log, backup, raced>>

\* The process ends: memory and the writes not yet done are lost.
Stopped ==
    /\ ring' = <<>>
    /\ add' = [t \in Tasks |-> Out]
    /\ pending' = {}
    /\ UNCHANGED <<count, log, backup, lines, written, raced>>

AddStep(t) == Stat(t) \/ Rename(t) \/ Open(t) \/ Write(t) \/ OpenFails(t)

-----------------------------------------------------------------------------
(* Properties.                                                             *)

Entries == 1..MaxEntries

\* Every variable has its type; a ring at its capacity stays there.
LogTypeOK ==
    /\ ring \in Seq(Entries) /\ Len(ring) <= Cap
    /\ count \in 0..MaxEntries
    /\ add \in [Tasks -> [at : {"out", "stat", "rename", "open", "write"},
                          entry : Entries \cup {0}, fd : Entries \cup {None}]]
    /\ log \in Entries \cup {None} /\ backup \in Entries \cup {None}
    /\ lines \in [1..MaxEntries -> SUBSET Entries]
    /\ pending \subseteq [entry : Entries, fd : Entries]
    /\ written \in Seq(Entries) /\ raced \in BOOLEAN

OnDisk == UNION {lines[i] : i \in {log, backup} \ {None}}

\* config.rs:70-72, 79-80: entries are kept for the long term.  A line leaves the
\* disk only in a rotation, when a full file of lines written after it is
\* there: unless two appends met at a rotation, the files together hold at
\* least the last MaxLines lines, across restarts and failing renames.
RotationKeepsNewest ==
    raced \/ \A i \in DOMAIN written : written[i] \notin OnDisk =>
                Cardinality({j \in DOMAIN written : j > i /\ written[j] \in OnDisk}) >= MaxLines

=============================================================================
