--------------------------- MODULE MCValidatorCache ---------------------------
(* One or two validators deployed for category c1. *)
EXTENDS ValidatorCache

CONSTANT c1

DeployedForC1 == [v \in Validator |-> {c1}]
=============================================================================
