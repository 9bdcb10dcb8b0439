------------------------------ MODULE LightIR -------------------------------
(***************************************************************************)
(* The part of LightIR (src/lightir) a function body is made of: basic     *)
(* blocks with their instruction lists, and the predecessor and successor  *)
(* lists that BranchInst keeps beside the branches themselves.  A function *)
(* is a value here, and the operators return the changed function; the     *)
(* components that build, analyse and rewrite functions keep one in their  *)
(* variable func.                                                          *)
(*                                                                         *)
(* Blocks are numbered in the order of creation, the entry block is 1.     *)
(* Instructions are told apart by what the passes ask.  An instruction is  *)
(* known by the place <<block, index>> it is created at, its id, wherever  *)
(* it is moved.  var is the address a load or store goes to: the id of an  *)
(* alloca or of a gep, or Global.  args are the operands that are values:  *)
(* ids of instructions, literals, or the Argument.                         *)
(***************************************************************************)
EXTENDS Naturals, Sequences, SequencesExt

VARIABLE func  \* the function that a component builds, analyses or rewrites

Entry == 1
Global == <<0, 0>>

Argument == <<0, 1>>   \* the value a parameter is passed
Literal(n) == <<0, n + 2>>
IsInstruction(v) == v[1] > 0
IsLiteral(v) == v[1] = 0 /\ v[2] >= 2
NumberOf(v) == v[2] - 2

Instruction(op, to, var, args) ==
    [id |-> Global, op |-> op, to |-> to, var |-> var, args |-> args]

Ret(v)          == Instruction("ret", << >>, Global, <<v>>)
Br(t)           == Instruction("br", <<t>>, Global, << >>)
CondBr(c, t, e) == Instruction("br", <<t, e>>, Global, <<c>>)
Call            == Instruction("call", << >>, Global, << >>)
Alloca(s)       == Instruction("alloca", << >>, s, << >>)
Store(s, v)     == Instruction("store", << >>, s, <<v>>)
Load(s)         == Instruction("load", << >>, s, << >>)

\* add, ne, lt, gep: what computes a value from values and does nothing else.
Pure(op, args)  == Instruction(op, << >>, Global, args)

\* A function record: per block, its pre_bbs_, succ_bbs_ and instr_list_.
EmptyFunction == [pre |-> << >>, succ |-> << >>, code |-> << >>]

Blocks(f) == DOMAIN f.code
NewestBlock(f) == Len(f.code)

\* BasicBlock::create: the block goes to the end of the function's list.
NewBlock(f) ==
    [pre  |-> Append(f.pre, << >>),
     succ |-> Append(f.succ, << >>),
     code |-> Append(f.code, << >>)]

\* The place of the instruction that is appended to block b next.
NextPlace(f, b) == <<b, Len(f.code[b]) + 1>>

\* The constructor of an instruction appends it to its block.
AddInstruction(f, b, i) ==
    [f EXCEPT !.code[b] = Append(@, [i EXCEPT !.id = NextPlace(f, b)])]

AddPre(f, t, b)  == [f EXCEPT !.pre[t] = Append(@, b)]
AddSucc(f, b, t) == [f EXCEPT !.succ[b] = Append(@, t)]

CreateBr(f, b, t) ==
    AddInstruction(AddSucc(AddPre(f, t, b), b, t), b, Br(t))

\* Fault: create_cond_br tells the true target alone about its predecessor.
CreateCondBr_OnePre(f, b, c, t, e) ==
    AddInstruction(AddSucc(AddSucc(AddPre(f, t, b), b, e), b, t), b, CondBr(c, t, e))

\* The false target comes first in the successor list.
CreateCondBr(f, b, c, t, e) ==
    AddInstruction(AddSucc(AddSucc(AddPre(AddPre(f, t, b), e, b), b, e), b, t),
                   b, CondBr(c, t, e))

IsTerminator(i) == i.op \in {"ret", "br"}

\* BasicBlock::get_terminator looks at the last instruction alone.
HasTerminator(f, b) == f.code[b] # << >> /\ IsTerminator(Last(f.code[b]))

-----------------------------------------------------------------------------
(* What makes a function consistent.                                       *)

Opcodes == {"ret", "br", "call", "alloca", "store", "load",
            "add", "ne", "lt", "gep", "phi"}
Operands == Nat \X Nat
Instructions == [id : Operands, op : Opcodes, to : Seq(Nat), var : Operands,
                 args : Seq(Operands)]
FunctionRecords == [pre : Seq(Seq(Nat)), succ : Seq(Seq(Nat)),
                    code : Seq(Seq(Instructions))]

\* Global, or the place of an instruction of f.
IsPlace(f, s) ==
    s = Global \/ (s[1] \in Blocks(f) /\ s[2] \in DOMAIN f.code[s[1]])

\* A value of f: of one of its instructions, a literal or the argument.
IsValue(f, v) == IsInstruction(v) => IsPlace(f, v)

\* An instruction refers to nothing outside its function.
Refers(f, i) ==
    /\ ToSet(i.to) \subseteq Blocks(f)
    /\ IsPlace(f, i.var)
    /\ \A v \in ToSet(i.args) : IsValue(f, v)

WellFormed(f) ==
    /\ f \in FunctionRecords
    /\ Len(f.pre) = Len(f.code) /\ Len(f.succ) = Len(f.code)
    /\ \A b \in Blocks(f) :
        /\ ToSet(f.pre[b]) \cup ToSet(f.succ[b]) \subseteq Blocks(f)
        /\ \A k \in DOMAIN f.code[b] :
            /\ f.code[b][k].id = <<b, k>>
            /\ Refers(f, f.code[b][k])

\* The branches of b that have t as a target, those behind a return included.
BranchesTo(f, b, t) == {k \in DOMAIN f.code[b] : t \in ToSet(f.code[b][k].to)}

Occurrences(s, x) == {k \in DOMAIN s : s[k] = x}

\* The blocks that do not end in a terminator.
OpenBlocks(f) == {b \in Blocks(f) : ~HasTerminator(f, b)}

-----------------------------------------------------------------------------
(* Reference definitions on the graph of a function: reachability and      *)
(* dominance as sets of paths, to state what the code's algorithms find.   *)

Succ(f, b) == ToSet(f.succ[b])
Pre(f, b) == ToSet(f.pre[b])

\* The blocks that paths from a set of blocks reach without entering "avoid".
ReachAvoiding(f, from, avoid) ==
    LET R[S \in SUBSET Blocks(f)] ==
            LET T == (S \cup UNION {Succ(f, b) : b \in S}) \ avoid
            IN  IF T = S THEN S ELSE R[T]
    IN  R[from \ avoid]

Reachable(f) == ReachAvoiding(f, {Entry}, {})

\* Every path from the entry to b meets d.
Dominates(f, d, b) == b \notin ReachAvoiding(f, {Entry}, {d})

\* The dominators of each reachable block.
DominatorSets(f) ==
    LET live == Reachable(f)
        beyond == [d \in live |-> ReachAvoiding(f, {Entry}, {d})]
    IN  [b \in live |-> {d \in live : b \notin beyond[d]}]

\* The blocks where the dominance of b ends: b dominates a predecessor of the
\* block, and not strictly the block.  doms is DominatorSets(f).
FrontierOf(f, doms, b) ==
    {y \in DOMAIN doms : /\ \E p \in Pre(f, y) \cap DOMAIN doms : b \in doms[p]
                         /\ b \notin doms[y] \ {y}}

\* What the frontier of an unreachable block b has of unreachable blocks: the
\* joins it goes to.  Neither has an immediate dominator.
DeadJoins(f, live, b) ==
    {y \in Blocks(f) \ live : Len(f.pre[y]) >= 2 /\ b \in Pre(f, y)}

\* The blocks whose immediate dominator is b: b strictly dominates them, and
\* all their other strict dominators dominate b.
ChildrenOf(doms, b) ==
    {c \in DOMAIN doms : b \in doms[c] \ {c} /\ doms[c] \ {c} \subseteq doms[b]}

\* A reachable join with a predecessor that is not reachable.
HasDeadPredecessor(f) ==
    \E b \in Reachable(f) : Len(f.pre[b]) >= 2 /\ ~(Pre(f, b) \subseteq Reachable(f))
=============================================================================
