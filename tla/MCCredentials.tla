---------------------------- MODULE MCCredentials ----------------------------
(* Instance of Credentials: one load and one callback run in a process that  *)
(* already uses the new key.                                                 *)
EXTENDS Credentials

CONSTANTS l1, l2, c1, c2, k1, k2

MCActiveKey == [p \in {l1, l2, c1, c2, Backfill} |-> IF p \in {l2, c2} THEN k2 ELSE k1]
==============================================================================
