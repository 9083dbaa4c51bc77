----------------------------- MODULE MCChainFlow -----------------------------
(* BLOCKCHAIN orders; v2 cannot be registered for the category of assertion 2. *)
EXTENDS ChainFlow

CONSTANTS v1, v2

EligiblePairs == {<<1, v1>>, <<1, v2>>, <<2, v1>>} \cap Pair
=============================================================================
