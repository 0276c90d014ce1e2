-------------------------- MODULE MCProviderRunner --------------------------
(* A small instance of ProviderRunner for TLC: a read and a write that share *)
(* an API client, and a call that uses none (as a token refresh).            *)
EXTENDS ProviderRunner, TLC

CONSTANTS read, write, other, gmail

MCResourceOf == (read :> gmail) @@ (write :> gmail) @@ (other :> None)
==============================================================================
