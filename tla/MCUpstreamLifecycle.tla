------------------------- MODULE MCUpstreamLifecycle -------------------------
(* A small instance of UpstreamLifecycle for TLC. *)
EXTENDS UpstreamLifecycle

CONSTANTS a, b, off, absent, operator, call, recovery, token, h1, h2

TwoConfigs == {a, b, off}
TurnedOn == {a, b}
OneOperator == {operator}
OneCall == {call}
TwoTasks == {h1, h2}
=============================================================================
