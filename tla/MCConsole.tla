----------------------------- MODULE MCConsole -----------------------------
(* An instance of Console for TLC: two companies. *)
EXTENDS Console

CONSTANTS home, other
=============================================================================
