--------------------------- MODULE BuiltMem2Reg -----------------------------
(***************************************************************************)
(* The visitor and Mem2Reg together, as cminusfc.cpp runs them: a behaviour *)
(* visits a program and then runs the pass on its function.  Init, Next    *)
(* and Finished are the visitor's, InitPass, Run and Step the pass's.      *)
(***************************************************************************)
EXTENDS CminusfBuilder, Mem2Reg

buildvars == <<insert, scope, inFunc, stack, ctl, items, funs>>
builtvars == <<func, buildvars, passvars>>

BuiltInit == Init /\ InitPass

Build ==
    /\ phase = "idle"
    /\ Next
    /\ UNCHANGED passvars

\* The visitor has come to the end of the program.
Transform == Finished /\ Run /\ UNCHANGED buildvars

TransformStep == Step /\ UNCHANGED buildvars

BuiltNext == Build \/ Transform \/ TransformStep

BuiltSpec == BuiltInit /\ [][BuiltNext]_builtvars
=============================================================================
