----------------------------- MODULE MCSmokeDag -----------------------------
(* Two tasks: the integration tier's, and one that an operator triggers.    *)
EXTENDS SmokeDag

CONSTANTS tier, trigger
=============================================================================
