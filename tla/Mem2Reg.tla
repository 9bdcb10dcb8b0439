------------------------------ MODULE Mem2Reg -------------------------------
(***************************************************************************)
(* Mem2Reg.cpp on one function: phis are placed on the dominance frontiers *)
(* of the blocks that store to a variable, a walk over the dominator tree  *)
(* replaces each load by the value on top of the variable's stack, and the *)
(* loads, stores and allocas go.                                           *)
(*                                                                         *)
(* A value is the place of an instruction: of the load it was read with,   *)
(* of the store it is written with if that is a literal, or a phi, <<block, *)
(* storage>> flattened to three numbers.  The code itself stays as it was: *)
(* replacement and deleted hold what replace_all_use_with and delete_instr *)
(* have done to it (module DefUse: replacement is substitution).           *)
(*                                                                         *)
(* Of Dominators the pass uses the frontiers and the tree: module          *)
(* Dominators shows them to be the ones used here, those of unreachable    *)
(* blocks included, and that it does not come to an end on                 *)
(* HasDeadPredecessor.  A phi at an unreachable join is placed like any    *)
(* other, but the walk never comes to fill it.                             *)
(***************************************************************************)
EXTENDS LightIR, FiniteSets

VARIABLES phase,       \* "idle", "place", "rename", "done", or "aborted": an
                       \* assertion failed, "undefined": back() of an empty vector
          dominators,  \* dominators_: its frontiers and its tree
          vars_left,   \* variables of global_live_var_name whose phis are to be placed
          work_list, worked, \* the blocks of the variable at hand; i
          phis,        \* per block, the variables of its phis (lval), in order
          pairs,       \* per phi, its operands: <<value, predecessor>>
          stacks,      \* var_val_stack: variable -> values
          known,       \* the keys of var_val_stack
          calls,       \* the calls of re_name: <<block, children to come>>
          replacement, \* load -> the value that replaced it
          deleted      \* instructions that delete_instr has removed

passvars == <<phase, dominators, vars_left, work_list, worked, phis, pairs, stacks,
              known, calls, replacement, deleted>>

PlacesOf(f) == UNION {{<<b, k>> : k \in DOMAIN f.code[b]} : b \in Blocks(f)}
InstrAt(p) == func.code[p[1]][p[2]]

Allocas == {p \in PlacesOf(func) : InstrAt(p).op = "alloca"}

PhiOf(b, v) == <<b, v[1], v[2]>>

InitPass ==
    /\ phase = "idle"
    /\ dominators = << >>
    /\ vars_left = {} /\ work_list = << >> /\ worked = 0
    /\ phis = << >> /\ pairs = << >>
    /\ stacks = << >> /\ known = {}
    /\ calls = << >>
    /\ replacement = << >> /\ deleted = {}

-----------------------------------------------------------------------------
\* Fault: the test for globals is forgotten.
IsLocalAccess_Any(i, op) == i.op = op

\* The address is neither a global nor a gep, but an alloca.
IsLocalAccess(i, op) == i.op = op /\ i.var # Global /\ InstrAt(i.var).op # "gep"

\* The blocks with a store to v: live_var_2blocks.
StoringBlocks(v) ==
    {b \in Blocks(func) : \E k \in DOMAIN func.code[b] :
        func.code[b][k].op = "store" /\ func.code[b][k].var = v}

\* run(): the dominator pass, then generate_phi's step 1.
Run ==
    /\ phase = "idle"
    /\ Blocks(func) # {}
    /\ ~HasDeadPredecessor(func)
    /\ LET doms == DominatorSets(func)
       IN  dominators' =
             [frontier |-> [b \in Blocks(func) |->
                  IF b \in DOMAIN doms THEN FrontierOf(func, doms, b)
                  ELSE DeadJoins(func, DOMAIN doms, b)],
              tree |-> [b \in Blocks(func) |->
                  IF b \in DOMAIN doms THEN ChildrenOf(doms, b) ELSE {}]]
    /\ vars_left' = {v \in Allocas : StoringBlocks(v) # {}}
    /\ phis' = [b \in Blocks(func) |-> << >>]
    /\ stacks' = [v \in Allocas |-> << >>]
    /\ phase' = "place"
    /\ UNCHANGED <<func, work_list, worked, pairs, known, calls, replacement, deleted>>

\* The next variable of global_live_var_name, with its blocks as work_list.
\* The set is ordered by address; the order shows in the order of phis only.
TakeVariable ==
    /\ phase = "place"
    /\ worked = Len(work_list)
    /\ vars_left # {}
    /\ LET v == CHOOSE x \in vars_left : TRUE
       IN  /\ work_list' = [k \in 1..Cardinality(StoringBlocks(v)) |->
                               <<SetToSeq(StoringBlocks(v))[k], v>>]
           /\ vars_left' = vars_left \ {v}
    /\ worked' = 0
    /\ UNCHANGED <<func, phase, dominators, phis, pairs, stacks, known, calls,
                   replacement, deleted>>

\* One block of the work list: a phi at the beginning of each block of its
\* frontier that has none for the variable, and these blocks are to be worked.
PlacePhis ==
    /\ phase = "place"
    /\ worked < Len(work_list)
    /\ LET b == work_list[worked + 1][1]
           v == work_list[worked + 1][2]
           new == {y \in dominators.frontier[b] : ~Contains(phis[y], v)}
       IN  /\ phis' = [y \in Blocks(func) |->
                          IF y \in new THEN <<v>> \o phis[y] ELSE phis[y]]
           /\ pairs' = [p \in DOMAIN pairs \cup {PhiOf(y, v) : y \in new} |-> << >>]
           /\ work_list' = work_list \o [k \in 1..Cardinality(new) |->
                                           <<SetToSeq(new)[k], v>>]
    /\ worked' = worked + 1
    /\ UNCHANGED <<func, phase, dominators, vars_left, stacks, known, calls,
                   replacement, deleted>>

-----------------------------------------------------------------------------
(* re_name: what it does to a block on the way down; r is a record of the  *)
(* variables that change.                                                  *)

PhiVar(q) == <<q[2], q[3]>>

PushValue(r, v, val) ==
    [r EXCEPT !.stacks[v] = Append(@, val), !.known = @ \cup {v}]

\* replace_all_use_with.
Replace(r, p, val) ==
    [r EXCEPT !.replacement = [l \in DOMAIN @ \cup {p} |-> IF l = p THEN val ELSE @[l]]]

\* A value, seen through the loads that have been replaced.
Resolve(r, val) == IF val \in DOMAIN r.replacement THEN r.replacement[val] ELSE val

\* Step 3: the phis of b are pushed; a variable has one at most.
PushPhis(b) ==
    LET own == ToSet(phis[b])
    IN  [stacks |-> [v \in DOMAIN stacks |->
                        IF v \in own THEN Append(stacks[v], PhiOf(b, v)) ELSE stacks[v]],
         known |-> known \cup own, replacement |-> replacement, failed |-> FALSE]

\* Fault: front() for back().
ReplaceLoad_Oldest(r, p, v) ==
    IF v \notin r.known THEN r
    ELSE IF r.stacks[v] = << >> THEN [r EXCEPT !.failed = TRUE]
    ELSE Replace(r, p, Head(r.stacks[v]))

\* Step 4: a load of a variable with an entry in the map takes the top.
ReplaceLoad(r, p, v) ==
    IF v \notin r.known THEN r
    ELSE IF r.stacks[v] = << >> THEN [r EXCEPT !.failed = TRUE]
    ELSE Replace(r, p, Last(r.stacks[v]))

\* Fault: the value is the one the instruction was built with.
PushStore_Unresolved(r, p, i) ==
    PushValue(r, i.var, IF IsInstruction(i.args[1]) THEN i.args[1] ELSE p)

\* Step 5: a store pushes what it stores.
PushStore(r, p, i) ==
    PushValue(r, i.var, IF IsInstruction(i.args[1]) THEN Resolve(r, i.args[1]) ELSE p)

RenameInstr(r, p) ==
    LET i == InstrAt(p)
    IN  IF r.failed THEN r
        ELSE IF IsLocalAccess(i, "load") THEN ReplaceLoad(r, p, i.var)
        ELSE IF IsLocalAccess(i, "store") THEN PushStore(r, p, i)
        ELSE r

\* Steps 3 to 5 for block b.
RenameBlock(b) ==
    LET R[k \in 0..Len(func.code[b])] ==
            IF k = 0 THEN PushPhis(b) ELSE RenameInstr(R[k - 1], <<b, k>>)
    IN  R[Len(func.code[b])]

\* The phis of the blocks behind b whose variable has an entry in the map.
PhisBehind(b, r) ==
    {q \in DOMAIN pairs : q[1] \in Succ(func, b) /\ PhiVar(q) \in r.known}

\* Step 6: they get the top of the stack for the edge from b.
FillPhis(b, r) ==
    [q \in DOMAIN pairs |->
        IF q \in PhisBehind(b, r) THEN Append(pairs[q], <<Last(r.stacks[PhiVar(q)]), b>>)
        ELSE pairs[q]]

\* The call re_name(b), up to the visits of the children.
Enter(b) ==
    LET r == RenameBlock(b)
        empty == \E q \in PhisBehind(b, r) : r.stacks[PhiVar(q)] = << >>
    IN  /\ stacks' = r.stacks
        /\ known' = r.known
        /\ replacement' = r.replacement
        /\ pairs' = IF r.failed \/ empty THEN pairs ELSE FillPhis(b, r)
        /\ phase' = IF r.failed THEN "undefined" ELSE IF empty THEN "aborted" ELSE "rename"

StartRename ==
    /\ phase = "place"
    /\ worked = Len(work_list)
    /\ vars_left = {}
    /\ Enter(Entry)
    /\ calls' = <<<<Entry, dominators.tree[Entry]>>>>
    /\ UNCHANGED <<func, dominators, vars_left, work_list, worked, phis, deleted>>

\* The next child of the innermost call: the set of children is ordered by
\* address, so any order can be.
EnterChild ==
    /\ phase = "rename"
    /\ calls # << >>
    /\ \E c \in Last(calls)[2] :
        /\ Enter(c)
        /\ calls' = Append(Append(Front(calls), <<Last(calls)[1], Last(calls)[2] \ {c}>>),
                           <<c, dominators.tree[c]>>)
    /\ UNCHANGED <<func, dominators, vars_left, work_list, worked, phis, deleted>>

\* Fault: step 7 pops for the stores and forgets the phis.
Pops_NoPhi(b, v) ==
    Cardinality({k \in DOMAIN func.code[b] :
                    func.code[b][k].op = "store" /\ func.code[b][k].var = v})

\* Fault: step 7 pops once for each instruction of wait_delete, loads too.
Pops_Loads(b, v) ==
    Cardinality({k \in DOMAIN func.code[b] :
                    func.code[b][k].op \in {"load", "store"} /\ func.code[b][k].var = v})
    + Cardinality({k \in DOMAIN phis[b] : phis[b][k] = v})

\* Step 7: how many values block b has pushed for v.
Pops(b, v) ==
    Cardinality({k \in DOMAIN func.code[b] :
                    func.code[b][k].op = "store" /\ func.code[b][k].var = v})
    + Cardinality({k \in DOMAIN phis[b] : phis[b][k] = v})

\* Fault: the stores are left.
WaitDelete_LoadsOnly(b) == {p \in DOMAIN replacement : p[1] = b}

\* The replaced loads and all local stores of b: wait_delete.
WaitDelete(b) ==
    {p \in DOMAIN replacement : p[1] = b}
    \cup {<<b, k>> : k \in {j \in DOMAIN func.code[b] :
                                IsLocalAccess(func.code[b][j], "store")}}

\* The end of a call of re_name: step 7, then the deletions.  After the call
\* on the entry block remove_alloca deletes the allocas of all blocks.
Leave ==
    /\ phase = "rename"
    /\ calls # << >>
    /\ Last(calls)[2] = {}
    /\ LET b == Last(calls)[1]
       IN  /\ stacks' = [v \in DOMAIN stacks |->
                            SubSeq(stacks[v], 1, Len(stacks[v]) - Pops(b, v))]
           /\ deleted' = deleted \cup WaitDelete(b)
                           \cup (IF Len(calls) = 1 THEN Allocas ELSE {})
    /\ calls' = Front(calls)
    /\ phase' = IF Len(calls) = 1 THEN "done" ELSE phase
    /\ UNCHANGED <<func, dominators, vars_left, work_list, worked, phis, pairs, known,
                   replacement>>

Step == TakeVariable \/ PlacePhis \/ StartRename \/ EnterChild \/ Leave

\* What a store writes; any other value stands for itself.
Stored(v) ==
    IF v \in PlacesOf(func) /\ InstrAt(v).op = "store" THEN InstrAt(v).args[1] ELSE v

\* The operand v, once the loads are replaced.
Now(v) == IF v \in DOMAIN replacement THEN Stored(replacement[v]) ELSE v

\* The phi of b for v, with the operands it has been given.
PhiAt(b, v) ==
    LET ops == pairs[PhiOf(b, v)]
    IN  [id |-> PhiOf(b, v), op |-> "phi", var |-> Global,
         to |-> [k \in DOMAIN ops |-> ops[k][2]],
         args |-> [k \in DOMAIN ops |-> Now(Stored(ops[k][1]))]]

\* The instructions of b that have not been deleted.
Remaining(b) ==
    LET Kept[n \in 0..Len(func.code[b])] ==
            IF n = 0 THEN << >>
            ELSE LET i == func.code[b][n]
                 IN  IF i.id \in deleted THEN Kept[n - 1] ELSE Append(Kept[n - 1], i)
    IN  Kept[Len(func.code[b])]

\* The operands of i are replaced.
Renewed(i) == [i EXCEPT !.args = [a \in DOMAIN @ |-> Now(@[a])]]

\* The function the pass leaves: the phis in front of each block, what was
\* replaced and deleted put into effect.
Result ==
    LET CodeOf(b) == [k \in DOMAIN phis[b] |-> PhiAt(b, phis[b][k])]
                     \o [k \in DOMAIN Remaining(b) |-> Renewed(Remaining(b)[k])]
    IN  [func EXCEPT !.code = [b \in Blocks(func) |-> CodeOf(b)]]

-----------------------------------------------------------------------------
Mem2RegTypeOK ==
    phase # "idle" =>
    /\ phase \in {"place", "rename", "done", "aborted", "undefined"}
    /\ DOMAIN stacks = Allocas
    /\ \A b \in Blocks(func) : ToSet(phis[b]) \subseteq DOMAIN stacks
    /\ DOMAIN pairs = UNION {{PhiOf(b, v) : v \in ToSet(phis[b])} : b \in Blocks(func)}
    /\ \A p \in DOMAIN pairs : \A k \in DOMAIN pairs[p] :
           /\ pairs[p][k][1] \in PlacesOf(func) \cup DOMAIN pairs
           /\ pairs[p][k][2] \in Blocks(func)
    /\ \A v \in DOMAIN stacks : ToSet(stacks[v]) \subseteq PlacesOf(func) \cup DOMAIN pairs
    /\ known \subseteq DOMAIN stacks
    /\ \A l \in DOMAIN replacement :
           /\ InstrAt(l).op = "load"
           /\ replacement[l] \in PlacesOf(func) \cup DOMAIN pairs
    /\ deleted \subseteq PlacesOf(func)

\* A function whose variables all get a value where they are declared: an
\* initialisation follows each alloca, as it does for parameters.
Initialised ==
    \A v \in Allocas :
        /\ v[2] < Len(func.code[v[1]])
        /\ func.code[v[1]][v[2] + 1].op = "store"
        /\ func.code[v[1]][v[2] + 1].var = v

\* The renaming reads the top of a stack only where there is one, so re_name's
\* assertion holds and so does the unchecked back(), if the entry block stores
\* to every variable.  Elsewhere it depends on the order of the children: after
\* the visit of a sibling the stack of a variable exists and is empty.
NeverFails ==
    phase \in {"aborted", "undefined"} =>
        \E v \in Allocas : Entry \notin StoringBlocks(v)

\* How many values for v the first n of the calls cs have pushed.
Pushed(cs, v) ==
    LET Count[n \in 0..Len(cs)] ==
            IF n = 0 THEN 0 ELSE Count[n - 1] + Pops(cs[n][1], v)
    IN  Count

\* The walk leaves the stacks as it found them, whatever pushed and popped:
\* between siblings each stack holds the pushes of the open calls alone.
StacksBalanced ==
    phase \in {"rename", "done"} =>
    \A v \in DOMAIN stacks : Len(stacks[v]) = Pushed(calls, v)[Len(calls)]

\* The block a value is defined in.
HomeOf(val) == val[1]

\* The result is in SSA form: a replaced load, and each operand of a phi, has
\* a value whose definition dominates the load, or the predecessor the
\* operand is for; a phi has one operand per edge, and for every edge from a
\* block that the variable's declaration dominates if it is initialised.
ValidSSA ==
    phase = "done" =>
    LET doms == DominatorSets(func)
    IN  /\ \A l \in DOMAIN replacement :
             /\ HomeOf(replacement[l]) \in doms[l[1]]
             /\ replacement[l] \notin deleted \cap DOMAIN replacement
        /\ \A b \in DOMAIN doms : \A v \in ToSet(phis[b]) :
             LET ops == pairs[PhiOf(b, v)]
             IN  /\ \A k \in DOMAIN ops :
                       /\ ops[k][2] \in Pre(func, b)
                       /\ HomeOf(ops[k][1]) \in doms[ops[k][2]]
                 /\ \A j, k \in DOMAIN ops : ops[j][2] = ops[k][2] => j = k
                 /\ Initialised =>
                       \A p \in Pre(func, b) : v[1] \in doms[p] =>
                           \E k \in DOMAIN ops : ops[k][2] = p

-----------------------------------------------------------------------------
(* The meaning of the result.  An execution is a path from the entry; mem  *)
(* holds the value of each variable as the function before the pass would  *)
(* have it, and env the value of each phi after the pass.  Values are the  *)
(* literals and the loads of globals.                                      *)

Undefined == <<0>>

\* The value of an SSA value in env.
ValueIn(env, val) ==
    IF val \in DOMAIN env THEN env[val]
    ELSE IF IsLocalAccess(InstrAt(val), "load")
    THEN Undefined
    ELSE val

\* The phis of b, evaluated together on the edge from p.
EnterBlock(env, b, p) ==
    [q \in DOMAIN env |->
        IF q[1] # b THEN env[q]
        ELSE LET from == {k \in DOMAIN pairs[q] : pairs[q][k][2] = p}
             IN  IF from = {} THEN Undefined
                 ELSE ValueIn(env, pairs[q][CHOOSE k \in from : TRUE][1])]

\* Execution stops at the first terminator of a block.
Executed(b) ==
    {k \in DOMAIN func.code[b] :
        \A j \in 1..k - 1 : ~IsTerminator(func.code[b][j])}

\* Instruction k of b: mem is the memory, read what each load of b has read.
Execute(s, b, k) ==
    LET i == func.code[b][k]
        stored == IF ~IsInstruction(i.args[1]) THEN <<b, k>>
                  ELSE IF IsLocalAccess(InstrAt(i.args[1]), "load")
                  THEN s.read[i.args[1][2]]
                  ELSE i.args[1]
    IN  IF IsLocalAccess(i, "load") THEN [s EXCEPT !.read[k] = s.mem[i.var]]
        ELSE IF IsLocalAccess(i, "store") THEN [s EXCEPT !.mem[i.var] = stored]
        ELSE s

\* Memory when execution of b has come to instruction k.
MemAt(mem, b, k) ==
    LET State[n \in 0..Len(func.code[b])] ==
            IF n = 0 THEN [mem |-> mem, read |-> [j \in DOMAIN func.code[b] |-> Undefined]]
            ELSE Execute(State[n - 1], b, n)
    IN  State[k - 1].mem

\* Where execution goes from the entry of a block: over its first terminator.
Onward(x) ==
    LET b == x.block
        ends == {k \in Executed(b) : IsTerminator(func.code[b][k])}
    IN  UNION {{[block |-> t, mem |-> MemAt(x.mem, b, k), env |-> EnterBlock(x.env, t, b)] :
                    t \in ToSet(func.code[b][k].to)} : k \in ends}

\* All entries of a block in all executions.
Executions ==
    LET Datum == PlacesOf(func) \cup {Undefined}
        X == [block : Blocks(func), mem : [Allocas -> Datum], env : [DOMAIN pairs -> Datum]]
        Reach[S \in SUBSET X] ==
            LET T == S \cup UNION {Onward(x) : x \in S}
            IN  IF T = S THEN S ELSE Reach[T]
    IN  Reach[{[block |-> Entry, mem |-> [v \in Allocas |-> Undefined],
                env |-> [q \in DOMAIN pairs |-> Undefined]]}]

\* Mem2Reg preserves the meaning: in every execution the value that replaced
\* a load is the value the load would have read, unless that was never
\* written; and a load that stays because nothing replaced it is of the
\* latter kind.
LoadsPreserved ==
    phase = "done" =>
    \A x \in Executions : \A k \in Executed(x.block) :
        LET i == func.code[x.block][k]
            read == MemAt(x.mem, x.block, k)[i.var]
            l == <<x.block, k>>
        IN  IsLocalAccess(i, "load") /\ read # Undefined =>
                l \in DOMAIN replacement /\ ValueIn(x.env, replacement[l]) = read

\* What is left after the pass refers to no alloca that is gone: on an
\* initialised function every load and store of a reachable block is deleted.
AccessesGone ==
    phase = "done" /\ Initialised =>
    \A b \in Reachable(func) : \A k \in DOMAIN func.code[b] :
        LET i == func.code[b][k]
        IN  i.op = "alloca" \/ IsLocalAccess(i, "load") \/ IsLocalAccess(i, "store")
                => <<b, k>> \in deleted

\* The assertion of re_name, with no condition on the program.
AssertionHolds == phase # "aborted"
=============================================================================
