----------------------------- MODULE MCMailCache -----------------------------
(* A small instance of MailCache for TLC. *)
EXTENDS MailCache, TLC

CONSTANTS r1, r2, r3, w1, w2

MCSymmetry == Permutations(Readers) \cup Permutations(Writers)
==============================================================================
