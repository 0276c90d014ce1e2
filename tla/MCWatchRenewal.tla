--------------------------- MODULE MCWatchRenewal ---------------------------
(* A small instance of WatchRenewal for TLC. *)
EXTENDS WatchRenewal

CONSTANTS w1, w2
==============================================================================
