------------------------------ MODULE MCTasks -------------------------------
(* A call that asks for a task, and another in its place once it is over; two *)
(* requests about tasks at a time.                                            *)
EXTENDS Tasks

CONSTANTS c1, o1, o2

OneCall == {c1}
TwoOps == {o1, o2}

=============================================================================
