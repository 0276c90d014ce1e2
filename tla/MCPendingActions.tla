-------------------------- MODULE MCPendingActions --------------------------
(* Small instances of PendingActions for TLC. *)
EXTENDS PendingActions, TLC

CONSTANTS a1, a2, k1, k2, pg, pc, pt, t1, t2, c1, c2, o1, o2

MCKindOf == (pg :> "gmail") @@ (pc :> "calendar") @@ (pt :> "tasks")

Symmetry == Permutations({a1, a2}) \cup Permutations({t1, t2})
            \cup Permutations({c1, c2}) \cup Permutations({o1, o2})
==============================================================================
