---------------------------- MODULE PortRemovals ----------------------------
(***************************************************************************)
(* PortExposure with a memory: which deleted mappings had their listener   *)
(* removed.  `removed` is a history variable: no step depends on it.       *)
(***************************************************************************)
EXTENDS MCPortExposure

VARIABLE removed   \* mappings deleted, and their removal through, by now

\* The deleted mappings that a finishing remove_listener or
\* remove_client_listeners has taken out of service.
TakenOut(r) == {m \in job[r].todo : /\ mapping[m] = "deleted"
                                    /\ job[r].client \in {None, Owner[m]}}

Note == removed' = removed \cup UNION {TakenOut(r) : r \in {q \in Requests : AbortHandles(q)}}

HistorySpec == /\ Init /\ removed = {}
               /\ [][Next /\ Note]_<<vars, removed>>

\* README.md:14: deleting a mapping of a connected client takes effect at once.
\* Once the removal has run and every listener function has returned, no accept
\* loop exposes the deleted mapping through a session that is registered and open.
RemovedStaysClosed ==
    ~mishap /\ (\A t \in Tasks : job[t] = Idle) =>
        \A p \in Ports :
            /\ pub[p].state = "running"
            /\ pub[p].map \in removed
            => ~(sessions[Owner[pub[p].map]] = pub[p].conn /\ ~ChannelClosed(pub[p].conn))
=============================================================================
