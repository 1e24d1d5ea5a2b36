-------------------------- MODULE MCContinuations ---------------------------
(* Two calls of one owner to a tool that stays where it is. *)
EXTENDS Continuations, TLC

CONSTANTS c1, c2, o1, r1

MCCalls == {c1, c2}
MCOwners == {o1}
MCTargets == {r1}
Symmetry == Permutations(MCCalls)

=============================================================================
