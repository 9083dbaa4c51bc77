----------------------------- MODULE MCLightFlow -----------------------------
(* LIGHT orders over two validators; v2 is not eligible for assertion 2. *)
EXTENDS LightFlow

CONSTANTS v1, v2

\* The run of the refinement lets things go wrong for orders of one assertion only.
OneAssertionEach ==
  \A i \in DOMAIN topic : topic[i].action = "assertions_generated" => topic[i].count = 1
Explored == ~ Calm => OneAssertionEach

EligiblePairs == {<<1, v1>>, <<1, v2>>, <<2, v1>>} \cap Pair
=============================================================================
