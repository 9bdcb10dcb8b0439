----------------------------- MODULE TypeNames ------------------------------
(***************************************************************************)
(* Types of LightIR (Type.h): <<"int">>, <<"float">>, <<"void">>, <<"i1">>, *)
(* or <<"ptr">> or <<"array">> before the type of what is pointed to.      *)
(***************************************************************************)
IntType == <<"int">>
FloatType == <<"float">>
VoidType == <<"void">>
=============================================================================
