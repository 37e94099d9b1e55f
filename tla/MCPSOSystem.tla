----------------------------- MODULE MCPSOSystem -----------------------------
(* PSOSystem for TLC: two threads, two locations. *)
EXTENDS PSOSystem

CONSTANTS t1, t2, x, y

Symmetry == Permutations({t1, t2}) \cup Permutations({x, y})

=============================================================================
