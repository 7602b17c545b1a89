---------------------------- MODULE SessionTable ----------------------------
(***************************************************************************)
(* What the live-session table (`SessionStore`, state.rs) promises the     *)
(* rest of the server: one slot per client, at most MaxClients slots in    *)
(* use, a newcomer displaces the previous session of the same client, and  *)
(* a slot is vacated only on behalf of the connection that occupies it,    *)
(* after that connection has closed.  PortExposure implements this.        *)
(***************************************************************************)
EXTENDS Naturals, FiniteSets

CONSTANTS Clients,     \* client ids
          Conns,       \* tunnel connections, each with a session id of its own
          MaxClients,  \* security.max_clients
          None

\* What the constants must satisfy; PortExposure's assumptions imply it.
Sane == IsFiniteSet(Clients) /\ MaxClients \in Nat /\ None \notin Conns

VARIABLES table,   \* [Clients -> Conns \cup {None}]: who occupies the slot
          seen,    \* connections that have asked for a slot
          closed   \* connections that are over

vars == <<table, seen, closed>>

Occupied(tab) == {c \in Clients : tab[c] # None}

Init == /\ table = [c \in Clients |-> None]
        /\ seen = {}
        /\ closed = {}

\* A connection takes the slot of its client, displacing whoever was there.
Occupy(c, s) ==
    /\ s \notin seen
    /\ Cardinality(Occupied(table)) < MaxClients
    /\ table' = [table EXCEPT ![c] = s]
    /\ seen' = seen \cup {s}
    /\ UNCHANGED closed

\* The table is full: the connection is turned away.
Refuse(s) ==
    /\ s \notin seen
    /\ Cardinality(Occupied(table)) >= MaxClients
    /\ seen' = seen \cup {s}
    /\ closed' = closed \cup {s}
    /\ UNCHANGED table

Close(s) ==
    /\ s \in seen \ closed
    /\ closed' = closed \cup {s}
    /\ UNCHANGED <<table, seen>>

Vacate(c) ==
    /\ table[c] \in closed
    /\ table' = [table EXCEPT ![c] = None]
    /\ UNCHANGED <<seen, closed>>

Next == \/ \E s \in Conns : Refuse(s) \/ Close(s)
        \/ \E c \in Clients : Vacate(c)
        \/ \E c \in Clients, s \in Conns : Occupy(c, s)

Spec == Init /\ [][Next]_vars

-----------------------------------------------------------------------------
TypeOK == /\ table \in [Clients -> Conns \cup {None}]
          /\ seen \subseteq Conns
          /\ closed \subseteq seen

\* Never more slots in use than security.max_clients.
Capped == Cardinality(Occupied(table)) <= MaxClients

=============================================================================
