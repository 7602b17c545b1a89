----------------------------- MODULE MCStatsFeed -----------------------------
(* Small instances of StatsFeed for TLC. *)
EXTENDS StatsFeed

CONSTANTS d1, d2
=============================================================================
