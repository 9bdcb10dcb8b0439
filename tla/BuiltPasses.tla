---------------------------- MODULE BuiltPasses -----------------------------
(***************************************************************************)
(* The visitor and the other passes together.  cminusfc.cpp runs the passes *)
(* that were asked for on what the visitor has made, all independent of    *)
(* each other but for their order; each of those here runs LoopSearch for  *)
(* itself, except ActiveVars.  A behaviour visits a program, promotes its  *)
(* variables with Mem2Reg or not, and then runs one pass: ActiveVars, or   *)
(* LoopSearch and then LoopInvHoist or ConstPropagation.                   *)
(***************************************************************************)
EXTENDS BuiltActiveVars

CONSTANT EntryNamed

VARIABLES searched, nodes, succs, prevs, reserved, sccs, loops, bb2base,
          hoist, is_inner, cur,
          folding, bb_list, again, delete_block_set, given, before, lost

H == INSTANCE LoopInvHoist
C == INSTANCE ConstPropagation

searchvars == <<searched, nodes, succs, prevs, reserved, sccs, loops, bb2base>>
hoistvars == <<hoist, is_inner, cur>>
foldvars == <<folding, bb_list, again, delete_block_set, given, before, lost>>
loopvars == <<searchvars, hoistvars, foldvars>>
passesvars == <<readyvars, loopvars, activevars>>

PassesInit ==
    /\ ReadyInit
    /\ H!InitSearch /\ H!InitHoist /\ C!InitFold /\ InitActive

GetReady == ReadyStep /\ UNCHANGED <<loopvars, activevars>>

Search ==
    /\ stage = "ready" /\ active = "idle"
    /\ H!SearchStep
    /\ UNCHANGED <<stage, buildvars, ssavars, hoistvars, foldvars, activevars>>

Hoist ==
    /\ folding = "idle"
    /\ H!HoistStep
    /\ UNCHANGED <<stage, buildvars, ssavars, foldvars, activevars>>

Fold ==
    /\ hoist = "idle"
    /\ C!FoldStep
    /\ UNCHANGED <<stage, buildvars, ssavars, hoistvars, activevars>>

Active ==
    /\ stage = "ready" /\ searched = "idle"
    /\ ActiveStep
    /\ UNCHANGED <<stage, buildvars, ssavars, loopvars>>

PassesNext == GetReady \/ Search \/ Hoist \/ Fold \/ Active

\* The iteration of the analysis goes on once it has begun: a plain loop.
GoOn == Iterate /\ UNCHANGED <<stage, buildvars, ssavars, loopvars>>

PassesSpec == PassesInit /\ [][PassesNext]_passesvars /\ WF_passesvars(GoOn)

-----------------------------------------------------------------------------
PassesTypeOK ==
    /\ stage \in {"build", "mem2reg", "ready"}
    /\ H!TypeOK /\ C!FoldTypeOK /\ ActiveTypeOK

\* As the search leaves them, before a pass changes the function.
LoopsAreNatural == hoist = "idle" /\ folding = "idle" => H!LoopsAreNatural
NestingRight == hoist = "idle" /\ folding = "idle" => H!NestingRight

\* LoopSearch finds a base for every component (it dereferences none else),
\* LoopInvHoist has a branch to insert before, and ConstPropagation, which
\* does read behind the end of a phi it has shortened, erases nothing there.
NeverCrashes == H!BaseFound /\ H!InsertsBeforeBranch /\ C!NeverOverruns

HoistedDominates == H!HoistedDominates
LoopsDrained == H!LoopsDrained
HoistKeeps == H!HoistKeeps
MeaningKept == C!MeaningKept
NothingToFold == C!NothingToFold
EndsOnLiveCode == C!EndsOnLiveCode
UselessOnly == C!UselessOnly
=============================================================================
