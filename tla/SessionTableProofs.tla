------------------------- MODULE SessionTableProofs -------------------------
(* The cap of the session table, for any number of clients. *)
EXTENDS SessionTable, FiniteSetTheorems, TLAPS

\* In every reachable state at most max_clients slots are occupied; the limit
\* check and the insertion share one step, as they share one write guard.
THEOREM CapHolds ==
    ASSUME Sane
    PROVE  Spec => []Capped
<1> USE DEF Sane
<1> DEFINE IInv == TypeOK /\ Capped
<1>1. Init => IInv
  <2> SUFFICES ASSUME Init PROVE IInv
    OBVIOUS
  <2>1. Occupied(table) = {}
    BY DEF Init, Occupied
  <2> QED
    BY <2>1, FS_EmptySet DEF Init, TypeOK, Capped
<1>2. IInv /\ [Next]_vars => IInv'
  <2> SUFFICES ASSUME IInv, [Next]_vars PROVE IInv'
    OBVIOUS
  <2> USE DEF TypeOK
  <2>f. \A tab : IsFiniteSet(Occupied(tab)) /\ Cardinality(Occupied(tab)) \in Nat
    BY FS_Subset, FS_CardinalityType DEF Occupied
  <2>1. CASE \E s \in Conns : Refuse(s) \/ Close(s)
    BY <2>1 DEF Refuse, Close, Capped
  <2>2. ASSUME NEW c \in Clients, Vacate(c) PROVE IInv'
    <3>1. Occupied(table') \subseteq Occupied(table)
      BY <2>2 DEF Vacate, Occupied
    <3>2. Cardinality(Occupied(table')) <= Cardinality(Occupied(table))
      BY <3>1, <2>f, FS_Subset
    <3> QED
      BY <2>2, <3>2, <2>f DEF Vacate, Capped
  <2>3. ASSUME NEW c \in Clients, NEW s \in Conns, Occupy(c, s) PROVE IInv'
    <3>1. Occupied(table') \subseteq Occupied(table) \cup {c}
      BY <2>3 DEF Occupy, Occupied
    <3> DEFINE O == Occupied(table)
    <3>a. IsFiniteSet(O) /\ Cardinality(O) \in Nat
      BY <2>f
    <3> HIDE DEF O
    <3>2. IsFiniteSet(O \cup {c}) /\ Cardinality(O \cup {c}) \in Nat
          /\ Cardinality(O \cup {c}) <= Cardinality(O) + 1
      <4>1. /\ IsFiniteSet(O \cup {c})
            /\ \/ Cardinality(O \cup {c}) = Cardinality(O)
               \/ Cardinality(O \cup {c}) = Cardinality(O) + 1
        BY <3>a, FS_AddElement, Zenon
      <4> QED
        BY <3>a, <4>1
    <3> USE DEF O
    <3>3. Cardinality(Occupied(table')) <= Cardinality(Occupied(table) \cup {c})
      BY <3>1, <3>2, FS_Subset
    <3>4. Cardinality(Occupied(table)) < MaxClients
      BY <2>3 DEF Occupy
    <3>5. Capped'
      BY <3>2, <3>3, <3>4, <2>f DEF Capped
    <3> QED
      BY <2>3, <3>5 DEF Occupy
  <2>4. CASE UNCHANGED vars
    BY <2>4 DEF vars, Capped
  <2> QED
    BY <2>1, <2>2, <2>3, <2>4 DEF Next
<1>3. IInv => Capped
  OBVIOUS
<1> QED
  BY <1>1, <1>2, <1>3, PTL DEF Spec

=============================================================================
