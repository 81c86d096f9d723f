------------------------- MODULE MCNamedSemaphores -------------------------
(***************************************************************************)
(* Two threads of one process and one of another, which both may crash.    *)
(***************************************************************************)
EXTENDS TLC, NamedSemaphores

CONSTANTS p1, p2, m1, m2, m3

MCProcs == {p1, p2}
MCMakers == {m1, m2, m3}
MCProcOf == [m \in MCMakers |-> IF m = m3 THEN p2 ELSE p1]

\* The threads of one process are alike.
Twins == Permutations({m1, m2})
=============================================================================
