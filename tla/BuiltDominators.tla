-------------------------- MODULE BuiltDominators ---------------------------
(***************************************************************************)
(* The visitor and the dominator pass together: cminusfc.cpp runs the      *)
(* passes on what the visitor has made, and Mem2Reg runs Dominators first. *)
(* A behaviour visits a program and then runs the pass on its function.    *)
(* Init, Next and Finished are the visitor's, InitPass, Run and Step the   *)
(* pass's.                                                                 *)
(***************************************************************************)
EXTENDS CminusfBuilder, Dominators

buildvars == <<insert, scope, inFunc, stack, ctl, items, funs>>
builtvars == <<func, buildvars, passvars>>

BuiltInit == Init /\ InitPass

Build ==
    /\ pc = "idle"
    /\ Next
    /\ UNCHANGED passvars

\* The visitor has come to the end of the program.
Analyse ==
    /\ Finished
    /\ Run
    /\ UNCHANGED buildvars

AnalysisStep ==
    /\ Step
    /\ UNCHANGED buildvars

BuiltNext == Build \/ Analyse \/ AnalysisStep

\* The pass is sequential code: while it can take a step, it does.  The visit
\* may end anywhere.
BuiltSpec == BuiltInit /\ [][BuiltNext]_builtvars /\ WF_builtvars(AnalysisStep)
=============================================================================
