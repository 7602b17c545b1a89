--------------------------- MODULE MCPortExposure ---------------------------
(* Small instances of PortExposure for TLC. *)
EXTENDS PortExposure, TLC

CONSTANTS c1, c2, s1, s2, r1, r2, m1, m2, p1

\* Every mapping is the one client's, and wants the one port.
OneOwner == [m \in Mappings |-> c1]
SharedPort == [m \in Mappings |-> p1]

\* Two clients, each with a mapping; both want the same port.
TwoOwners == (m1 :> c1) @@ (m2 :> c2)

\* Connections are interchangeable.
ConnSymmetry == Permutations(Conns)

\* In the instance of TwoOwners so are the clients, each with its mapping.
OwnerSymmetry ==
    ConnSymmetry \cup {(c1 :> c2) @@ (c2 :> c1) @@ (m1 :> m2) @@ (m2 :> m1)}

\* Bound: the second administrator only makes changes that end with the store,
\* because they fail to be persisted or no listener function follows, and while
\* the first is at work only as long as there is one tunnel.
SecondRequestShort ==
    /\ job'[r2] = Idle
    /\ job[r1] # Idle /\ <<client, mapping>>' # <<client, mapping>>
       => \E s \in Conns : conn[s].at = "new"
=============================================================================
