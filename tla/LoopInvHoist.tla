---------------------------- MODULE LoopInvHoist ----------------------------
(***************************************************************************)
(* LoopInvHoist.cpp on one function, after LoopSearch: from the innermost  *)
(* loops outwards, the instructions of a loop whose operands come from     *)
(* outside move to the end of the block in front of the base.              *)
(*                                                                         *)
(* The use lists are left out.  delete_instr takes the operands' records   *)
(* of what moves, and of the terminator it moves in front of, and          *)
(* add_instruction does not bring them back: from then on the lists are    *)
(* incomplete, which nobody finds out, since the pass reads operands only  *)
(* and cminusfc.cpp runs it last.                                          *)
(***************************************************************************)
EXTENDS LoopSearch

VARIABLES hoist,    \* "idle", "pick", "loop", "done", or "crashed": the block
                    \* to move to had no terminator
          is_inner, \* is_inner_loop: loop -> BOOLEAN
          cur       \* cur_inner_loop

hoistvars == <<hoist, is_inner, cur>>

InitHoist == hoist = "idle" /\ is_inner = << >> /\ cur = NoLoop

Ids(f) == UNION {{i.id : i \in ToSet(f.code[b])} : b \in Blocks(f)}

OperandsOf(i) ==
    ToSet(i.args) \cup (IF i.op \in {"load", "store"} THEN {i.var} ELSE {})

Movable(i) == i.op \notin {"load", "store", "br", "phi", "call", "ret"}

\* def_list: what the loop defines.
DefList(L) == UNION {{i.id : i \in ToSet(func.code[b])} : b \in L.blocks}

\* Fault: the operands are not compared with def_list.
Examine_All(r, i) ==
    IF i.id \in r.def_list /\ Movable(i)
    THEN [def_list |-> r.def_list \ {i.id}, move_list |-> Append(r.move_list, i)]
    ELSE r

\* Fault: what was found to move still counts as defined in the loop.
Examine_KeepsDef(r, i) ==
    IF /\ i.id \in r.def_list /\ Movable(i) /\ OperandsOf(i) \cap r.def_list = {}
       /\ ~Contains(r.move_list, i)
    THEN [r EXCEPT !.move_list = Append(@, i)]
    ELSE r

\* One instruction of the loop: r holds def_list and move_list.
Examine(r, i) ==
    IF i.id \in r.def_list /\ Movable(i) /\ OperandsOf(i) \cap r.def_list = {}
    THEN [def_list |-> r.def_list \ {i.id}, move_list |-> Append(r.move_list, i)]
    ELSE r

\* The loop is looked through until nothing more is found.
MoveList(L, order) ==
    LET listing == FlattenSeq([k \in DOMAIN InOrder(L.blocks, order) |->
                                 func.code[InOrder(L.blocks, order)[k]]])
        Look[r \in [def_list : SUBSET DefList(L), move_list : Seq(ToSet(listing))]] ==
            LET q == FoldLeft(Examine, r, listing) IN IF q = r THEN r ELSE Look[q]
    IN  Look[[def_list |-> DefList(L), move_list |-> << >>]].move_list

\* The moved instructions leave their blocks ...
Without(code, moved) ==
    [b \in DOMAIN code |-> SelectSeq(code[b], LAMBDA i : ~Contains(moved, i))]

\* Fault: the instructions go behind the terminator.
Insert_Behind(code, b, moved) == [code EXCEPT ![b] = @ \o moved]

\* ... and go before the terminator of b.
Insert(code, b, moved) ==
    [code EXCEPT ![b] = Front(@) \o moved \o <<Last(@)>>]

-----------------------------------------------------------------------------
\* is_inner_loop: all loops but those that are the parent of one.
StartHoist ==
    /\ hoist = "idle"
    /\ searched = "done"
    /\ is_inner' = [L \in loops |-> \A M \in loops : ParentLoop(M) # L]
    /\ hoist' = "pick"
    /\ UNCHANGED <<func, searchvars, cur>>

PickLoop ==
    /\ hoist = "pick"
    /\ \E L \in loops : is_inner[L] /\ cur' = L
    /\ hoist' = "loop"
    /\ UNCHANGED <<func, searchvars, is_inner>>

\* The body of the loop over cur_inner_loop: what does not find a block to go
\* to is gone.  Then on to the parent; is_inner_loop[nullptr] is never read.
HoistLoop ==
    /\ hoist = "loop"
    /\ OutsidePre(cur) # << >> => HasTerminator(func, OutsidePre(cur)[1])
    /\ \E order \in Orders :
        LET moved == MoveList(cur, order)
            code == Without(func.code, moved)
        IN  func' = [func EXCEPT !.code =
                       IF OutsidePre(cur) = << >> THEN code
                       ELSE Insert(code, OutsidePre(cur)[1], moved)]
    /\ is_inner' = [is_inner EXCEPT ![cur] = FALSE]
    /\ cur' = ParentLoop(cur)
    /\ hoist' = IF cur' = NoLoop THEN "pick" ELSE "loop"
    /\ UNCHANGED searchvars

\* delete_instr of the null pointer.
NoTerminator ==
    /\ hoist = "loop"
    /\ OutsidePre(cur) # << >> /\ ~HasTerminator(func, OutsidePre(cur)[1])
    /\ hoist' = "crashed"
    /\ UNCHANGED <<func, searchvars, is_inner, cur>>

EndHoist ==
    /\ hoist = "pick"
    /\ \A L \in loops : ~is_inner[L]
    /\ hoist' = "done"
    /\ UNCHANGED <<func, searchvars, is_inner, cur>>

HoistStep == StartHoist \/ PickLoop \/ HoistLoop \/ NoTerminator \/ EndHoist

-----------------------------------------------------------------------------
\* The value v is computed on every path to position k of block b.
DefinedBefore(v, doms, b, k) ==
    \E d \in doms[b] : \E j \in DOMAIN func.code[d] :
        func.code[d][j].id = v /\ (d = b => j < k)

\* What position k of block b reads is there: a phi reads at the end of the
\* predecessors.
OperandsDefined(doms, b, k) ==
    LET i == func.code[b][k]
    IN  IF i.op = "phi"
        THEN \A n \in DOMAIN i.args :
                IsInstruction(i.args[n]) /\ i.to[n] \in DOMAIN doms =>
                    DefinedBefore(i.args[n], doms, i.to[n], Len(func.code[i.to[n]]) + 1)
        ELSE \A v \in OperandsOf(i) : IsInstruction(v) => DefinedBefore(v, doms, b, k)

\* After hoisting, what an instruction of a reachable block reads is still
\* computed on every path to it; a dead predecessor of a loop may spoil it.
HoistedDominates ==
    hoist = "done" /\ ~HasDeadPredecessor(func) =>
    LET doms == DominatorSets(func)
    IN  \A b \in DOMAIN doms : \A k \in DOMAIN func.code[b] : OperandsDefined(doms, b, k)

\* Nothing is left to hoist: in each loop, every movable instruction reads
\* something the loop computes, whatever was hoisted into it from within.
LoopsDrained ==
    hoist = "done" =>
    \A L \in loops : \A b \in L.blocks : \A i \in ToSet(func.code[b]) :
        Movable(i) => OperandsOf(i) \cap DefList(L) # {}

\* The block in front of a loop has a terminator to insert before.
InsertsBeforeBranch == hoist # "crashed"

\* Hoisting moves instructions and never loses or doubles one: each block
\* still ends in its terminator, and each id has one place.
HoistKeeps ==
    [][hoist = "loop" =>
        /\ Ids(func') = Ids(func)
        /\ \A b \in Blocks(func) : HasTerminator(func', b) <=> HasTerminator(func, b)
        /\ \A b, c \in Blocks(func) : \A j \in DOMAIN func'.code[b], k \in DOMAIN func'.code[c] :
             func'.code[b][j].id = func'.code[c][k].id => b = c /\ j = k]_<<func, hoistvars>>
=============================================================================
