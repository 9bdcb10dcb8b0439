------------------------------- MODULE UseDef -------------------------------
(***************************************************************************)
(* LightIR's def-use bookkeeping (User.cpp, Value.cpp, the instruction     *)
(* list of BasicBlock.cpp) under the two clients that rewrite operands:    *)
(* Mem2Reg, whose calls are the actions of Next, and ConstPropagation,     *)
(* which also removes the incoming pairs of a phi and forwards a global    *)
(* within one block (NextConstProp).                                       *)
(*                                                                         *)
(* Each value keeps use_list_, the (user, arg_no) pairs of the operands    *)
(* that refer to it.  The lists are kept by hand: set_operand adds a       *)
(* record and removes none, remove_use drops every record of a user,       *)
(* remove_operands renumbers nothing.  use_list is a set here: the code    *)
(* never reads the order of a list nor the multiplicity of a record.       *)
(* Positions count from 1 (arg_no_ counts from 0).                         *)
(***************************************************************************)
EXTENDS Naturals, Sequences

CONSTANTS Instr, Leaf, Phi, Void, Alloca, Block,
          MaxOps   \* bound: the most operands an instruction is given

ASSUME UseDefAssumption ==
    /\ Phi \subseteq Instr
    /\ Void \subseteq Instr \ Phi
    /\ Alloca \subseteq Instr \ (Phi \cup Void)
    /\ Instr \cap Leaf = {}
    /\ Block \subseteq Leaf
    /\ MaxOps \in Nat

VARIABLES status,    \* "new", "placed" in a block, "waiting" in wait_delete, "deleted"
          operands,  \* User::operands_ (num_ops_ is its length)
          use_list,  \* Value::use_list_
          aborted    \* set_operand's assertion failed

vars == <<status, operands, use_list, aborted>>

Value == (Instr \ Void) \cup Leaf
Record == [user : Instr, arg_no : Nat]

Placed == {i \in Instr : status[i] \in {"placed", "waiting"}}
Usable == Leaf \cup {i \in Instr \ Void : status[i] = "placed"}
Scalar == Usable \ (Alloca \cup Block)  \* neither a variable's address nor a label
RemovedAllocas == {a \in Alloca : status[a] = "deleted"}

-----------------------------------------------------------------------------
\* Fault: add_operand records num_ops_ after it has incremented it.
AddUses_AfterIncrement(i, ops, first) ==
    [v \in Value |->
        use_list[v] \cup {[user |-> i, arg_no |-> k + 1] :
                            k \in {j \in DOMAIN ops : j >= first /\ ops[j] = v}}]

\* Fault: add_operand takes the position from a count that is one short.
AddUses_OneShort(i, ops, first) ==
    [v \in Value |->
        use_list[v] \cup {[user |-> i, arg_no |-> k - 2] :
                            k \in {j \in DOMAIN ops : j >= first /\ ops[j] = v}}]

\* v->add_use(i, k) for every position k of ops from "first" on that holds v.
AddUses(i, ops, first) ==
    [v \in Value |->
        use_list[v] \cup {[user |-> i, arg_no |-> k] :
                            k \in {j \in DOMAIN ops : j >= first /\ ops[j] = v}}]

\* Fault: delete_instr leaves the use records of the instruction behind.
RemoveUses_Forgotten(i, ops) == use_list

\* op->remove_use(i) for every op of a set of operands.
RemoveUses(i, ops) ==
    [v \in Value |->
        IF v \in ops THEN {u \in use_list[v] : u.user # i} ELSE use_list[v]]

Init ==
    /\ status = [i \in Instr |-> "new"]
    /\ operands = [i \in Instr |-> << >>]
    /\ use_list = [v \in Value |-> {}]
    /\ aborted = FALSE

\* The constructor of an instruction: set_operand for each operand, and the
\* instruction goes to the end of its block.  An alloca has no operands.
Create(i, ops) ==
    /\ ~aborted
    /\ status[i] = "new"
    /\ i \notin Phi
    /\ i \in Alloca <=> ops = << >>
    /\ Len(ops) <= MaxOps
    /\ status' = [status EXCEPT ![i] = "placed"]
    /\ operands' = [operands EXCEPT ![i] = ops]
    /\ use_list' = AddUses(i, ops, 1)
    /\ UNCHANGED aborted

\* PhiInst::create_phi without values, then add_instr_begin.
CreatePhi(i) ==
    /\ ~aborted
    /\ status[i] = "new"
    /\ i \in Phi
    /\ status' = [status EXCEPT ![i] = "placed"]
    /\ UNCHANGED <<operands, use_list, aborted>>

\* add_phi_pair_operand: add_operand(v), add_operand(b).
AddPair(i, v, b) ==
    LET ops == operands[i] \o <<v, b>>
    IN  /\ ~aborted
        /\ status[i] = "placed"
        /\ i \in Phi
        /\ Len(ops) <= MaxOps
        /\ operands' = [operands EXCEPT ![i] = ops]
        /\ use_list' = AddUses(i, ops, Len(operands[i]) + 1)
        /\ UNCHANGED <<status, aborted>>

\* set_operand(arg_no_, new) for each of these records of old, and old is
\* queued for deletion.  old's own records stay.  A record whose position is
\* out of range fails set_operand's assertion.
SetOperands(records, old, new) ==
    IF \A u \in records : u.arg_no \in DOMAIN operands[u.user]
    THEN /\ operands' = [i \in Instr |-> [k \in DOMAIN operands[i] |->
                IF [user |-> i, arg_no |-> k] \in records
                THEN new ELSE operands[i][k]]]
         /\ use_list' = [use_list EXCEPT ![new] = @ \cup records]
         /\ status' = [status EXCEPT ![old] = "waiting"]
         /\ UNCHANGED aborted
    ELSE /\ aborted' = TRUE
         /\ UNCHANGED <<status, operands, use_list>>

\* Fault: set_operand overwrites the operand without an add_use on the new value.
Replace_NoAddUse(old, new) ==
    /\ ~aborted
    /\ status[old] = "placed"
    /\ old \notin Void \cup Alloca
    /\ operands' = [i \in Instr |-> [k \in DOMAIN operands[i] |->
            IF [user |-> i, arg_no |-> k] \in use_list[old]
            THEN new ELSE operands[i][k]]]
    /\ status' = [status EXCEPT ![old] = "waiting"]
    /\ UNCHANGED <<use_list, aborted>>

\* old->replace_all_use_with(new), for a load, a phi or a folded instruction.
Replace(old, new) ==
    /\ ~aborted
    /\ status[old] = "placed"
    /\ old \notin Void \cup Alloca
    /\ SetOperands(use_list[old], old, new)

\* wait_delete.push_back(store)
QueueStore(i) ==
    /\ ~aborted
    /\ status[i] = "placed"
    /\ i \in Void
    /\ status' = [status EXCEPT ![i] = "waiting"]
    /\ UNCHANGED <<operands, use_list, aborted>>

\* bb->delete_instr(i): out of the block's list, then remove_use_of_ops.
Delete(i) ==
    /\ ~aborted
    /\ status[i] = "waiting"
    /\ status' = [status EXCEPT ![i] = "deleted"]
    /\ use_list' = RemoveUses(i, {operands[i][k] : k \in DOMAIN operands[i]})
    /\ UNCHANGED <<operands, aborted>>

\* Mem2Reg::remove_alloca: delete_instr on an alloca of an int or a float,
\* whoever still names it: a load that was not replaced, as in a block the
\* walk of re_name does not reach.
RemoveAlloca(i) ==
    /\ ~aborted
    /\ status[i] = "placed"
    /\ i \in Alloca
    /\ status' = [status EXCEPT ![i] = "deleted"]
    /\ use_list' = RemoveUses(i, {operands[i][k] : k \in DOMAIN operands[i]})
    /\ UNCHANGED <<operands, aborted>>

\* ConstPropagation on a load of a global whose value it knows: set_operand
\* for the uses by instructions of the same block ("users"); the load is
\* queued for deletion, and the uses in other blocks keep it as operand.
Forward(load, new, users) ==
    /\ ~aborted
    /\ status[load] = "placed"
    /\ load \notin Void \cup Alloca \cup Phi
    /\ SetOperands({u \in use_list[load] : u.user \in users}, load, new)

\* phi->remove_operands(k, k + 1): the use records go, the positions of the
\* operands behind them shift, and the records of those keep the old arg_no.
\* ConstPropagation does it while the phi has more than one pair.
RemovePair(i, k) ==
    /\ ~aborted
    /\ status[i] = "placed"
    /\ i \in Phi
    /\ Len(operands[i]) > 2
    /\ k \in 1..Len(operands[i]) - 1
    /\ k % 2 = 1
    /\ use_list' = RemoveUses(i, {operands[i][k], operands[i][k + 1]})
    /\ operands' = [operands EXCEPT ![i] =
                       SubSeq(@, 1, k - 1) \o SubSeq(@, k + 2, Len(@))]
    /\ UNCHANGED <<status, aborted>>

Next ==
    \/ \E i \in Instr : \E v \in Scalar, w \in Usable : Create(i, <<v, w>>)
    \/ \E i \in Instr : \E v \in Usable : Create(i, <<v>>)
    \/ \E i \in Instr : Create(i, << >>)
    \/ \E i \in Instr : CreatePhi(i)
    \/ \E i \in Instr, v \in Scalar, b \in Block : AddPair(i, v, b)
    \/ \E old \in Instr : \E new \in Scalar \ {old} : Replace(old, new)
    \/ \E i \in Instr : QueueStore(i) \/ Delete(i) \/ RemoveAlloca(i)

Spec == Init /\ [][Next]_vars

\* ConstPropagation: the same calls, the removal of phi pairs, and the
\* replacement of a load in one block only.
NextConstProp ==
    \/ Next
    \/ \E i \in Phi : \E k \in DOMAIN operands[i] : RemovePair(i, k)
    \/ \E load \in Instr, new \in Leaf \ Block, users \in SUBSET Instr : Forward(load, new, users)

SpecConstProp == Init /\ [][NextConstProp]_vars

-----------------------------------------------------------------------------
TypeOK ==
    /\ status \in [Instr -> {"new", "placed", "waiting", "deleted"}]
    /\ operands \in [Instr -> Seq(Value)]
    /\ use_list \in [Value -> SUBSET Record]
    /\ aborted \in BOOLEAN

\* The use list of a value misses no operand: every operand of an
\* instruction in a block is recorded, so replace_all_use_with reaches it.
Complete ==
    \A i \in Placed : \A k \in DOMAIN operands[i] :
        [user |-> i, arg_no |-> k] \in use_list[operands[i][k]]

\* The use list of a value that may still be replaced holds no stale record:
\* each points at an operand of an instruction in a block, and that operand
\* is the value.
Sound ==
    \A v \in Usable : \A u \in use_list[v] :
        /\ u.user \in Placed
        /\ u.arg_no \in DOMAIN operands[u.user]
        /\ operands[u.user][u.arg_no] = v

\* Whatever the order of the calls, no instruction in a block reads a value
\* that replace_all_use_with has replaced or that was deleted from a
\* wait_delete queue.  The one operand that can be left behind is an alloca
\* that remove_alloca deleted without looking at its uses.
OnlyAllocasDangle ==
    \A i \in Placed : \A k \in DOMAIN operands[i] :
        operands[i][k] \in Usable \cup RemovedAllocas

\* set_operand's assertion "out of index" never fails.
NeverAborts == ~aborted

\* An instruction that does not exist yet has no operands and no uses.
Fresh ==
    \A i \in Instr : status[i] = "new" =>
        /\ operands[i] = << >>
        /\ i \notin Void => use_list[i] = {}

\* The inductive invariant.
IInv == TypeOK /\ Complete /\ Sound /\ OnlyAllocasDangle /\ Fresh /\ NeverAborts

\* lightir.md on replace_all_use_with: it maintains the def_use list too.
\* Then no value's list would hold a record of an operand that is another value.
ListsMaintained ==
    \A v \in Value : \A u \in use_list[v] :
        u.user \in Placed =>
            /\ u.arg_no \in DOMAIN operands[u.user]
            /\ operands[u.user][u.arg_no] = v

\* The layer implements what the passes assume of it: module DefUse, where
\* replacement is substitution and there are no lists.
DU == INSTANCE DefUse
RefinesDefUse == DU!Spec
=============================================================================
