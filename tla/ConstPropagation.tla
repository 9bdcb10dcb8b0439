-------------------------- MODULE ConstPropagation --------------------------
(***************************************************************************)
(* ConstPropagation.cpp on one function, after LoopSearch: in rounds over  *)
(* the blocks, instructions with constant operands are folded, stores are  *)
(* forwarded to loads in their block, branches on constants are decided    *)
(* and the blocks that nothing leads to any more are collected; at the end *)
(* they are removed.  A step is the visit of one block.                    *)
(*                                                                         *)
(* replace_all_use_with is the substitution in all blocks, as long as the  *)
(* value is another one and the use records are exact (module UseDef; what *)
(* remove_operands does to them is its run use_def_phi_pairs); so          *)
(* const_val_map, which maps what was replaced already, finds nothing.  A  *)
(* phi that is replaced by itself ends the pass in an endless loop.        *)
(* Conversions and float operations fold as the integer ones do.           *)
(***************************************************************************)
EXTENDS LoopSearch, Execution

CONSTANT EntryNamed  \* the function is called entry, so that its first block
                     \* has the name label_entry that the pass spares

VARIABLES folding,   \* "idle", "round", "done", or how a round went wrong:
                     \* "overrun", operands were erased behind their end;
                     \* "endless", replace_all_use_with does not return
          bb_list,   \* the blocks still to be visited in this round
          again,     \* changed || delete_bb
          delete_block_set,
          given,     \* the function as it was (history)
          before,    \* Size at the beginning of the round (history)
          lost       \* a loop that can still be entered was deleted (history)

foldvars == <<folding, bb_list, again, delete_block_set, given, before, lost>>

InitFold ==
    /\ folding = "idle"
    /\ bb_list = << >> /\ again = FALSE /\ delete_block_set = {}
    /\ given = EmptyFunction /\ before = 0 /\ lost = FALSE

-----------------------------------------------------------------------------
(* The edges.                                                              *)

Drop(s, b) == SelectSeq(s, LAMBDA c : c # b)

\* remove_pre_basic_block(b) on each block of a set.
RemovePre(pre, from, b) ==
    [c \in DOMAIN pre |-> IF c \in from THEN Drop(pre[c], b) ELSE pre[c]]

-----------------------------------------------------------------------------
(* The instructions of block b, as a fold: r holds code, what the block    *)
(* has stored (global_constvar_map), delete_insts, changed, and the outcome.  *)

Foldable(i) == i.op \in {"add", "ne", "lt"} /\ \A v \in ToSet(i.args) : IsLiteral(v)

Folded(i) == Literal(ConstantValue(i.op, NumberOf(i.args[1]), NumberOf(i.args[2])))

Substitute(instrs, id, v) ==
    [k \in DOMAIN instrs |->
        [instrs[k] EXCEPT !.args = [n \in DOMAIN @ |-> IF @[n] = id THEN v ELSE @[n]]]]

ReplaceUses(code, id, v) == [c \in DOMAIN code |-> Substitute(code[c], id, v)]

\* The pairs of a phi whose predecessor is deleted, one by one: the index
\* moves on over the pair behind a removed one, up to the old number of pairs.
\* So after a removal get_operand reads behind the end of operands_.  The
\* build does not check the index; vector::erase has moved the pairs down
\* within the same storage, where each place behind the end still holds the
\* last pair of old.  Only an erase at such a place is an overrun.
RemoveCases(r, b, k) ==
    LET old == r.code[b][k].to
        Case(q, n) ==
            LET i == q.code[b][k]
                case_bb == IF n <= Len(i.to) THEN i.to[n] ELSE Last(old)
            IN  IF case_bb \notin delete_block_set THEN q
                ELSE IF n > Len(i.to) THEN [q EXCEPT !.outcome = "overrun"]
                ELSE [q EXCEPT !.code[b][k].to = RemoveAt(@, n),
                               !.code[b][k].args = RemoveAt(@, n),
                               !.changed = TRUE]
    IN  FoldLeft(Case, r, [n \in DOMAIN old |-> n])

\* Fault: the first store to an address is forwarded, not the last.
FoldInstr_FirstStore(r, b, k) ==
    LET i == r.code[b][k]
    IN  CASE i.op = "store" -> [r EXCEPT !.stored = @ @@ (i.var :> i.args[1])]
          [] i.op = "load" /\ i.var \in DOMAIN r.stored ->
               [r EXCEPT !.code[b] = Substitute(@, i.id, r.stored[i.var]),
                         !.delete_insts = @ \cup {i.id}]
          [] OTHER -> r

\* A load of what the block has stored is replaced in its block alone.  The
\* walk over the uses of a phi that is replaced by itself never ends: each
\* set_operand appends a record to the list that is walked.
FoldInstr(r, b, k) ==
    LET i == r.code[b][k]
    IN  CASE r.outcome # "round" -> r
          [] i.op = "store" -> [r EXCEPT !.stored = (i.var :> i.args[1]) @@ @]
          [] i.op = "load" /\ i.var \in DOMAIN r.stored ->
               [r EXCEPT !.code[b] = Substitute(@, i.id, r.stored[i.var]),
                         !.delete_insts = @ \cup {i.id}]
          [] i.op = "phi" /\ Len(i.args) # 1 -> RemoveCases(r, b, k)
          [] i.op = "phi" /\ i.args = <<i.id>> -> [r EXCEPT !.outcome = "endless"]
          [] i.op = "phi" /\ Len(i.args) = 1 /\ i.args # <<i.id>> ->
               [r EXCEPT !.code = ReplaceUses(@, i.id, i.args[1]),
                         !.delete_insts = @ \cup {i.id}, !.changed = TRUE]
          [] Foldable(i) ->
               [r EXCEPT !.code = ReplaceUses(@, i.id, Folded(i)),
                         !.delete_insts = @ \cup {i.id}, !.changed = TRUE]
          [] OTHER -> r

\* Fault: folding does not count as a change, so there is no other round.
FoldCode_Silent(b) ==
    LET r0 == [code |-> func.code, stored |-> << >>, delete_insts |-> {},
               changed |-> FALSE, outcome |-> "round"]
        r == FoldLeft(LAMBDA q, k : FoldInstr(q, b, k), r0, [k \in DOMAIN func.code[b] |-> k])
    IN  [r EXCEPT !.code[b] = SelectSeq(@, LAMBDA i : i.id \notin r.delete_insts),
                  !.changed = FALSE]

\* Fault: what was folded stays where it is.
FoldCode_Keeps(b) ==
    LET r0 == [code |-> func.code, stored |-> << >>, delete_insts |-> {},
               changed |-> FALSE, outcome |-> "round"]
    IN  FoldLeft(LAMBDA q, k : FoldInstr(q, b, k), r0, [k \in DOMAIN func.code[b] |-> k])

\* The instructions of b, then the deletion of delete_insts.
FoldCode(b) ==
    LET r0 == [code |-> func.code, stored |-> << >>, delete_insts |-> {},
               changed |-> FALSE, outcome |-> "round"]
        r == FoldLeft(LAMBDA q, k : FoldInstr(q, b, k), r0, [k \in DOMAIN func.code[b] |-> k])
    IN  [r EXCEPT !.code[b] = SelectSeq(@, LAMBDA i : i.id \notin r.delete_insts)]

-----------------------------------------------------------------------------
(* The terminator of block b in f, if it branches on a constant: a record  *)
(* of the function and the blocks that it deletes.                         *)

Decidable(f, b) ==
    LET t == Last(f.code[b])
    IN  f.code[b] # << >> /\ t.op = "br" /\ Len(t.to) = 2 /\ IsLiteral(t.args[1])

\* create_br(t, b), then the old terminator is deleted.
JumpTo(f, b, t) ==
    LET g == CreateBr([f EXCEPT !.code[b] = Front(@)], b, t)
    IN  [g EXCEPT !.code[b][Len(g.code[b])].id = Last(f.code[b]).id]

\* The condition is true: the second target loses b, and is deleted if b was
\* its only predecessor, or the only one but for a back edge.
TakeFirst(f, b) ==
    LET first == Last(f.code[b]).to[1]
        second == Last(f.code[b]).to[2]
        pre_num == Len(f.pre[second])
        dies == pre_num = 1 \/ (pre_num = 2 /\ InnerLoop(second).base = second)
        g == [f EXCEPT !.succ[b] = Drop(@, second), !.pre[second] = Drop(@, b)]
        h == IF dies THEN [g EXCEPT !.pre = RemovePre(@, Succ(g, second), second)] ELSE g
    IN  [f |-> JumpTo(h, b, first), deleted |-> IF dies THEN {second} ELSE {}]

\* The condition is false: the first target is deleted.  Its successors keep
\* it as a predecessor, since those of the second are looked at.
TakeSecond(f, b) ==
    LET first == Last(f.code[b]).to[1]
        second == Last(f.code[b]).to[2]
        g == [f EXCEPT !.succ[b] = Drop(@, first), !.pre[first] = Drop(@, b)]
        h == [g EXCEPT !.pre = RemovePre(@, Succ(g, second), first)]
    IN  [f |-> JumpTo(h, b, second), deleted |-> {first}]

Decide(f, b) ==
    IF ~Decidable(f, b) THEN [f |-> f, deleted |-> {}]
    ELSE IF NumberOf(Last(f.code[b]).args[1]) > 0 THEN TakeFirst(f, b)
    ELSE TakeSecond(f, b)

-----------------------------------------------------------------------------
StartFold ==
    /\ folding = "idle"
    /\ searched = "done"
    /\ folding' = "round"
    /\ given' = func
    /\ again' = TRUE
    /\ UNCHANGED <<func, searchvars, bb_list, delete_block_set, before, lost>>

\* What a round can take from: the instructions, the operands of phis and the
\* targets of branches, and the blocks.
Size ==
    LET Sum(S) == FoldLeft(LAMBDA n, b :
                             FoldLeft(LAMBDA m, i : m + 1 + Len(i.to), n, func.code[b]), 0, S)
    IN  Sum([b \in Blocks(func) |-> b]) + Cardinality(Blocks(func) \ delete_block_set)

NextRound ==
    /\ folding = "round"
    /\ bb_list = << >>
    /\ again
    /\ bb_list' = [b \in Blocks(func) |-> b]
    /\ again' = FALSE
    /\ before' = Size
    /\ UNCHANGED <<func, searchvars, folding, delete_block_set, given, lost>>

\* The block whose turn it is; visiting it is one step.
Visiting(b) ==
    /\ folding = "round"
    /\ bb_list # << >>
    /\ b = Head(bb_list)
    /\ bb_list' = Tail(bb_list)

SkipBlock(b) ==
    /\ Visiting(b)
    /\ b \in delete_block_set
    /\ UNCHANGED <<func, searchvars, folding, again, delete_block_set, given, before, lost>>

\* A base with one predecessor: its whole loop is deleted, taking it for one
\* that is entered no more.
IsDeadLoop(b) == Len(func.pre[b]) = 1 /\ InnerLoop(b).base = b

DropLoop(b) ==
    /\ Visiting(b)
    /\ b \notin delete_block_set
    /\ IsDeadLoop(b)
    /\ LET loop == InnerLoop(b).blocks
           pre == func.pre
       IN  /\ delete_block_set' = delete_block_set \cup loop
           /\ func' = [func EXCEPT !.pre =
                 [c \in Blocks(func) |->
                    SelectSeq(pre[c], LAMBDA p : ~(p \in loop /\ c \in Succ(func, p)))]]
           /\ lost' = (lost \/ pre[b][1] \notin loop)
    /\ UNCHANGED <<searchvars, folding, again, given, before>>

\* Fault: the entry block is not spared.
IsOrphan_Entry(b) == func.pre[b] = << >>

IsOrphan(b) == func.pre[b] = << >> /\ ~(b = Entry /\ EntryNamed)

DropOrphan(b) ==
    /\ Visiting(b)
    /\ b \notin delete_block_set
    /\ IsOrphan(b)
    /\ again' = TRUE
    /\ delete_block_set' = delete_block_set \cup {b}
    /\ func' = [func EXCEPT !.pre = RemovePre(@, Succ(func, b), b)]
    /\ UNCHANGED <<searchvars, folding, given, before, lost>>

FoldBlock(b) ==
    /\ Visiting(b)
    /\ b \notin delete_block_set
    /\ ~IsDeadLoop(b) /\ ~IsOrphan(b)
    /\ LET r == FoldCode(b)
           d == Decide([func EXCEPT !.code = r.code], b)
       IN  /\ func' = d.f
           /\ delete_block_set' = delete_block_set \cup d.deleted
           /\ again' = (again \/ r.changed \/ d.deleted # {})
           /\ folding' = r.outcome
    /\ UNCHANGED <<searchvars, given, before, lost>>

\* func->remove for each deleted block: what is left of one is an empty list.
RemoveBlocks ==
    /\ folding = "round"
    /\ bb_list = << >>
    /\ ~again
    /\ folding' = "done"
    /\ LET Left(s) == SelectSeq(s, LAMBDA c : c \notin delete_block_set)
           OrNone(b, s) == IF b \in delete_block_set THEN << >> ELSE s
       IN  func' = [pre  |-> [b \in Blocks(func) |-> OrNone(b, Left(func.pre[b]))],
                    succ |-> [b \in Blocks(func) |-> OrNone(b, Left(func.succ[b]))],
                    code |-> [b \in Blocks(func) |-> OrNone(b, func.code[b])]]
    /\ UNCHANGED <<searchvars, bb_list, again, delete_block_set, given, before, lost>>

FoldStep ==
    \/ StartFold \/ NextRound \/ RemoveBlocks
    \/ \E b \in Blocks(func) : SkipBlock(b) \/ DropLoop(b) \/ DropOrphan(b) \/ FoldBlock(b)

-----------------------------------------------------------------------------
Terminators(f, b) == {i \in ToSet(f.code[b]) : IsTerminator(i)}

FoldTypeOK ==
    /\ folding \in {"idle", "round", "done", "overrun", "endless"}
    /\ ToSet(bb_list) \cup delete_block_set \subseteq Blocks(func)
    /\ again \in BOOLEAN /\ lost \in BOOLEAN
    /\ \A b \in Blocks(func) : \A i \in ToSet(func.code[b]) :
          i.op = "phi" => Len(i.to) = Len(i.args)

InstructionIds(f) == UNION {{i.id : i \in ToSet(f.code[b])} : b \in Blocks(f)}

\* A load that a store of its block is forwarded to, at position k.
Forwarded(b, k) ==
    /\ given.code[b][k].op = "load"
    /\ \E j \in 1..k - 1 : given.code[b][j].op = "store" /\ given.code[b][j].var = given.code[b][k].var

\* Two kinds of function on which forwarding is wrong: a call between the
\* store and the load may have changed the global, and another block that
\* uses the load is not changed when the load is deleted.
CallBetween ==
    \E b \in Blocks(given) : \E k \in DOMAIN given.code[b] :
        /\ Forwarded(b, k)
        /\ given.code[b][k].var = Global
        /\ \E j \in 1..k - 1 : given.code[b][j].op = "call"

UsedElsewhere ==
    \E b, c \in Blocks(given) : \E k \in DOMAIN given.code[b] :
        /\ b # c /\ Forwarded(b, k)
        /\ \E i \in ToSet(given.code[c]) : given.code[b][k].id \in ToSet(i.args)

\* The instruction i of the given function, met in state t of a block that
\* was entered in state s, and what has become of it, j, do the same.
DoSame(s, t, i, j) ==
    CASE i.op = "br"  -> Target(t, i) = Target(t, j)
      [] i.op = "phi" -> PhiValue(s, i) = PhiValue(s, j)
      [] OTHER -> \A n \in DOMAIN j.args : ValueOf(t, i.args[n]) = ValueOf(t, j.args[n])

\* The instructions that j reads in a block entered in state s.
ReadBy(s, j) ==
    {j.args[n] : n \in {m \in DOMAIN j.args :
        IsInstruction(j.args[m]) /\ (j.op = "phi" => j.to[m] = s.from)}}

\* The pass preserves the meaning: in each execution of the given function,
\* each block that is entered is there, it ends as before, and what is left
\* of its instructions reads the values it read, from instructions that are
\* left; unless one of the known faults strikes.
MeaningKept ==
    folding = "done" /\ func # given /\ ~lost /\ ~CallBetween /\ ~UsedElsewhere =>
    \A s \in Executions(given) :
        LET b == s.block
            code == ExecutedCode(given, b)
            met == StatesAlong(given, {s}, b)
        IN  /\ Terminators(func, b) # {}
            /\ \A k \in DOMAIN code : \A j \in ToSet(func.code[b]) :
                 j.id = code[k].id =>
                    /\ ReadBy(s, j) \subseteq InstructionIds(func)
                    /\ \A t \in met[k] : DoSame(s, t, code[k], j)
            /\ \A k \in DOMAIN code : code[k].op \in {"store", "call", "ret", "br"} =>
                 \E j \in ToSet(func.code[b]) : j.id = code[k].id

\* The pass goes on until nothing is left to fold.
NothingToFold ==
    folding = "done" =>
    \A b \in Blocks(func) :
        /\ ~Decidable(func, b)
        /\ \A i \in ToSet(func.code[b]) :
             /\ ~Foldable(i)
             /\ i.op = "phi" => Len(i.args) # 1

\* The pass ends on the blocks that can be executed: a round that asks for
\* another has made the function smaller, and a phi is replaced by itself
\* (which hangs the compiler) only in a block that no execution of the given
\* function enters, as in int f(int x) { if (0) while (x) if (0) x = 1;
\* return x; }.
EndsOnLiveCode ==
    [][/\ bb_list = << >> /\ bb_list' # << >> /\ before # 0 => Size < before
       /\ folding = "round" /\ folding' = "endless" =>
            Head(bb_list) \notin {s.block : s \in Executions(given)}]_<<func, foldvars>>

\* Only useless blocks are removed: the entry is left, and what is left
\* branches to what is left; unless a loop was lost.
UselessOnly ==
    folding = "done" /\ ~lost =>
    /\ Entry \notin delete_block_set
    /\ \A b \in Blocks(func) : \A i \in Terminators(func, b) :
          ToSet(i.to) \cap delete_block_set = {}

\* No pair is erased behind the end of the operands of a phi: what the loop
\* over the pairs reads there, after a removal, is never a deleted block.
NeverOverruns == folding # "overrun"
=============================================================================
