----------------------------- MODULE MCSessions -----------------------------
(* Small instances of Sessions for TLC. *)
EXTENDS Sessions, TLC

CONSTANTS a1, a2, p1, p2

Symmetry == Permutations({a1, a2}) \cup Permutations({p1, p2})
=============================================================================
