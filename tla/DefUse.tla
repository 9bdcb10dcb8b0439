------------------------------- MODULE DefUse -------------------------------
(***************************************************************************)
(* What the use-def layer of LightIR promises to the passes: an            *)
(* instruction has operands, and replace_all_use_with substitutes one      *)
(* value for another in every operand of every instruction that is still   *)
(* in its basic block.  There are no use lists here: this is the view of a *)
(* pass author who reads Documentations/common/lightir.md.                 *)
(***************************************************************************)
EXTENDS Naturals, Sequences

CONSTANTS Instr,   \* instructions
          Leaf,    \* values that are no instruction: constants, arguments, blocks
          Phi,     \* the phi instructions
          Void,    \* the instructions of type void (store, br, ret)
          Alloca,  \* the allocas of int and float variables
          Block    \* the basic blocks, which are values too

VARIABLES status,   \* where an instruction is in its life
          operands  \* its operands, in order

absvars == <<status, operands>>

\* The instructions that are in the instruction list of a basic block.
Placed == {i \in Instr : status[i] \in {"placed", "waiting"}}

\* The values a pass may still hand out as an operand.
Usable == Leaf \cup {i \in Instr \ Void : status[i] = "placed"}

\* Those that are neither a variable's address nor a label.
Scalar == Usable \ (Alloca \cup Block)

Init ==
    /\ status = [i \in Instr |-> "new"]
    /\ operands = [i \in Instr |-> << >>]

\* A new instruction is appended to its block with all of its operands.
Create(i, ops) ==
    /\ status[i] = "new"
    /\ i \notin Phi
    /\ i \in Alloca <=> ops = << >>
    /\ status' = [status EXCEPT ![i] = "placed"]
    /\ operands' = [operands EXCEPT ![i] = ops]

\* A phi starts without operands.
CreatePhi(i) ==
    /\ status[i] = "new"
    /\ i \in Phi
    /\ status' = [status EXCEPT ![i] = "placed"]
    /\ UNCHANGED operands

\* One more incoming pair (value, predecessor) of a phi.
AddPair(i, v, b) ==
    /\ status[i] = "placed"
    /\ i \in Phi
    /\ operands' = [operands EXCEPT ![i] = @ \o <<v, b>>]
    /\ UNCHANGED status

\* old gives way to new in every operand of every instruction in a block,
\* and in no other operand; old is then queued for deletion.
Replace(old, new) ==
    /\ status[old] = "placed"
    /\ old \notin Void \cup Alloca
    /\ operands' = [i \in Instr |->
                      IF i \in Placed
                      THEN [k \in DOMAIN operands[i] |->
                              IF operands[i][k] = old THEN new ELSE operands[i][k]]
                      ELSE operands[i]]
    /\ status' = [status EXCEPT ![old] = "waiting"]

\* A store is queued for deletion; it has no uses.
QueueStore(i) ==
    /\ status[i] = "placed"
    /\ i \in Void
    /\ status' = [status EXCEPT ![i] = "waiting"]
    /\ UNCHANGED operands

\* A queued instruction leaves its block.
Delete(i) ==
    /\ status[i] = "waiting"
    /\ status' = [status EXCEPT ![i] = "deleted"]
    /\ UNCHANGED operands

\* An alloca goes at once, whoever still names it.
RemoveAlloca(i) ==
    /\ status[i] = "placed"
    /\ i \in Alloca
    /\ status' = [status EXCEPT ![i] = "deleted"]
    /\ UNCHANGED operands

Next ==
    \/ \E i \in Instr : \E v \in Scalar, w \in Usable : Create(i, <<v, w>>)
    \/ \E i \in Instr : \E v \in Usable : Create(i, <<v>>)
    \/ \E i \in Instr : Create(i, << >>)
    \/ \E i \in Instr : CreatePhi(i)
    \/ \E i \in Instr, v \in Scalar, b \in Block : AddPair(i, v, b)
    \/ \E old \in Instr : \E new \in Scalar \ {old} : Replace(old, new)
    \/ \E i \in Instr : QueueStore(i) \/ Delete(i) \/ RemoveAlloca(i)

Spec == Init /\ [][Next]_absvars
=============================================================================
