------------------------- MODULE MCSessionLifecycle -------------------------
(* Two sessions, one place, two requests at a time. *)
EXTENDS SessionLifecycle, TLC

CONSTANTS s1, s2, r1, r2

MCIds == {s1, s2}
MCReqs == {r1, r2}
Symmetry == Permutations(MCIds) \cup Permutations(MCReqs)

=============================================================================
