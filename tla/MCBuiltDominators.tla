------------------------- MODULE MCBuiltDominators --------------------------
(* Control flow alone: no variables, and expressions that emit no blocks;  *)
(* the assignment to an element emits those of its check.                  *)
EXTENDS BuiltDominators

MCName == {}
MCExpr == {<<"1">>}
MCToElement == MCExpr
=============================================================================
