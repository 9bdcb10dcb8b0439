-------------------------- MODULE BuiltActiveVars ---------------------------
(***************************************************************************)
(* What a pass of cminusfc.cpp is given, and ActiveVars on it: the visitor *)
(* makes a function, Mem2Reg promotes its variables or not, and then the   *)
(* pass runs.  Init, Next and Finished are the visitor's, Run, Step and    *)
(* Result are Mem2Reg's.                                                   *)
(***************************************************************************)
EXTENDS BuiltMem2Reg, ActiveVars

CONSTANTS MaxPromoted,  \* bound: items of a program that Mem2Reg promotes
          Given         \* functions beyond these bounds, as Mem2Reg leaves them

ASSUME GivenIsCode == \A f \in Given : IsCode(f)

VARIABLE stage  \* "build", "mem2reg", or "ready" for the pass

ssavars == passvars
readyvars == <<func, stage, buildvars, ssavars>>

ReadyInit == BuiltInit /\ stage = "build"

Visit == stage = "build" /\ Build /\ UNCHANGED stage

\* The visitor has come to the end of the program, and Mem2Reg runs; what it
\* leaves of variables without a value is no SSA code (module Mem2Reg).
Promote ==
    /\ stage = "build"
    /\ items <= MaxPromoted
    /\ Initialised
    /\ Transform
    /\ stage' = "mem2reg"

PromoteStep == stage = "mem2reg" /\ TransformStep /\ UNCHANGED stage

Promoted ==
    /\ stage = "mem2reg" /\ phase = "done"
    /\ func' = Result
    /\ stage' = "ready"
    /\ UNCHANGED <<buildvars, ssavars>>

\* A pass runs on what the visitor has made, or on a given function.
Unpromoted ==
    /\ stage = "build"
    /\ \/ Finished /\ UNCHANGED func
       \/ ctl = "global" /\ func = EmptyFunction /\ items = 0 /\ func' \in Given
    /\ stage' = "ready"
    /\ UNCHANGED <<buildvars, ssavars>>

ReadyStep == Visit \/ Promote \/ PromoteStep \/ Promoted \/ Unpromoted

-----------------------------------------------------------------------------
analysisvars == <<readyvars, activevars>>

AnalysisInit == ReadyInit /\ InitActive

AnalysisNext ==
    \/ ReadyStep /\ UNCHANGED activevars
    \/ stage = "ready" /\ ActiveStep /\ UNCHANGED <<stage, buildvars, ssavars>>

AnalysisSpec == AnalysisInit /\ [][AnalysisNext]_analysisvars
=============================================================================
