--------------------------- MODULE MCProxiedStream ---------------------------
(* Small instances of ProxiedStream for TLC. *)
EXTENDS ProxiedStream
=============================================================================
