-------------------------- MODULE MCCminusfBuilder --------------------------
(* The visitor on all programs of a few declarations and statements.      *)
EXTENDS CminusfBuilder

CONSTANT x    \* a variable name

MCName == {x}
MCExpr == {<<"index">>, <<x>>}
MCToElement == MCExpr
=============================================================================
