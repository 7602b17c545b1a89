--------------------------- MODULE MCHandlerLocks ---------------------------
(* Small instances of HandlerLocks for TLC. *)
EXTENDS HandlerLocks

CONSTANTS t1, t2, t3
=============================================================================
