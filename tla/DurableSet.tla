----------------------------- MODULE DurableSet -----------------------------
(***************************************************************************)
(* What a store that is kept in a file promises about the changes made to  *)
(* it: they are made one at a time, a change becomes durable in one step   *)
(* together with all that memory holds, only a durable change is           *)
(* acknowledged and only one that is not yet durable is answered with an   *)
(* error, and a crash takes memory back to what is durable.  Once the      *)
(* store is broken it promises nothing.  StoreFile implements this.        *)
(***************************************************************************)
CONSTANT Changes

VARIABLES memory,   \* SUBSET Changes: the store as requests see it
          durable,  \* SUBSET Changes: the store as the next start will find it
          open,     \* changes not answered yet: at most one
          acked,    \* changes answered with a success
          failed,   \* changes answered with an error
          broken

vars == <<memory, durable, open, acked, failed, broken>>

Init == /\ memory = {} /\ durable = {} /\ open = {}
        /\ acked = {} /\ failed = {}
        /\ broken = FALSE

Begin(c) ==
    /\ open = {} /\ c \notin memory
    /\ memory' = memory \cup {c}
    /\ open' = {c}
    /\ UNCHANGED <<durable, acked, failed, broken>>

\* The change is written, and with it those that failed before.
Commit ==
    /\ open # {}
    /\ durable' = memory
    /\ UNCHANGED <<memory, open, acked, failed, broken>>

Acknowledge(c) ==
    /\ c \in open \cap durable
    /\ open' = {}
    /\ acked' = acked \cup {c}
    /\ UNCHANGED <<memory, durable, failed, broken>>

\* Memory keeps the change, a later one may still make it durable.
Fail(c) ==
    /\ c \in open \ durable
    /\ open' = {}
    /\ failed' = failed \cup {c}
    /\ UNCHANGED <<memory, durable, acked, broken>>

Crash ==
    /\ memory' = durable
    /\ open' = {}
    /\ UNCHANGED <<durable, acked, failed, broken>>

Next == \/ broken'
        \/ Commit \/ Crash
        \/ \E c \in Changes : Begin(c) \/ Acknowledge(c) \/ Fail(c)

Spec == Init /\ [][Next]_vars

=============================================================================
