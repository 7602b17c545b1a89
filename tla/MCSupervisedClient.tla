------------------------- MODULE MCSupervisedClient -------------------------
(* Small instances of SupervisedClient for TLC. *)
EXTENDS SupervisedClient

CONSTANTS first, second
=============================================================================
