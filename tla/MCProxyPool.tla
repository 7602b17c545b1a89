---------------------------- MODULE MCProxyPool ----------------------------
(* Small instances of ProxyPool for TLC. *)
EXTENDS ProxyPool, TLC

CONSTANTS v1, v2, v3, v4, web, ssh

\* Three visitors of one port, the others of a second one.
TwoPorts == [v \in Visitors |-> IF v = v4 THEN ssh ELSE web]
=============================================================================
