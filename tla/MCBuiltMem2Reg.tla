-------------------------- MODULE MCBuiltMem2Reg ----------------------------
(* One variable name, literals and loads of the variable as expressions.  *)
EXTENDS BuiltMem2Reg

CONSTANT x    \* a variable name

MCName == {x}
MCExpr == {<<"1">>, <<x>>}
MCToElement == {<<x>>}
=============================================================================
