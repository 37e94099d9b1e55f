----------------------------- MODULE MCSRASystem -----------------------------
(* SRASystem for TLC: three threads, two locations. *)
EXTENDS SRASystem

CONSTANTS t1, t2, t3, x, y

Symmetry == Permutations({t1, t2, t3}) \cup Permutations({x, y})

=============================================================================
