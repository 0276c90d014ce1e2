------------------------- MODULE MCNotificationJobs -------------------------
(* Small instances of NotificationJobs for TLC. *)
EXTENDS NotificationJobs, TLC

CONSTANTS w1, w2

Symmetry == Permutations({w1, w2})
==============================================================================
