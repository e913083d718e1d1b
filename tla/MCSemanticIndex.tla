--------------------------- MODULE MCSemanticIndex ---------------------------
(* Values of the constants of SemanticIndex for TLC. *)
EXTENDS SemanticIndex

CONSTANTS tofu, oats, kale

OneOrTwo == {<<tofu>>, <<oats, kale>>}
=============================================================================
