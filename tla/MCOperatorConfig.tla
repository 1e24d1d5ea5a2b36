------------------------- MODULE MCOperatorConfig -------------------------
(***************************************************************************)
(* OperatorConfig with one server, one account copy of it and two keys to  *)
(* type.                                                                   *)
(***************************************************************************)
EXTENDS OperatorConfig

CONSTANTS s, c

TwoServers == {s, c}
OneCopy == [x \in {c} |-> s]

=============================================================================
