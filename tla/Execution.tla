------------------------------ MODULE Execution -----------------------------
(***************************************************************************)
(* What a LightIR function does when it runs, to state what the passes     *)
(* preserve.  A state of an execution at the entry of a block is a record: *)
(*   env    the values that instructions have computed, by id              *)
(*   mem    the contents of the global variable and of the allocas         *)
(*   arg    the argument of the function                                   *)
(*   block, from    where it is and where it comes from                    *)
(* Numbers are words of two bits.  The argument, the global at first, what *)
(* a call gives and what a load of an array element gives, whatever was    *)
(* stored to it, is zero or minus one; a call may change the global.       *)
(***************************************************************************)
EXTENDS LightIR, TLC

Word == 4  \* two bits
Sample == {0, Word - 1}  \* zero and minus one

Signed(m) == IF m < Word \div 2 THEN m ELSE m - Word

ConstantValue(op, m, n) ==
    CASE op = "add" -> (m + n) % Word
      [] op = "ne"  -> IF m # n THEN 1 ELSE 0
      [] op = "lt"  -> IF Signed(m) < Signed(n) THEN 1 ELSE 0
      [] op = "gep" -> 0

\* The value of an operand; 0 for one that was never computed.
ValueOf(s, v) ==
    IF v = Argument THEN s.arg
    ELSE IF IsLiteral(v) THEN NumberOf(v) % Word
    ELSE IF v \in DOMAIN s.env THEN s.env[v] ELSE 0

Computes(s, i, n) == [s EXCEPT !.env = (i.id :> n) @@ @]

\* The states after an instruction that is neither a phi nor a terminator.
AfterInstr(s, i) ==
    CASE i.op = "alloca" -> {[s EXCEPT !.mem = (i.id :> 0) @@ @]}
      [] i.op = "store" /\ i.var \in DOMAIN s.env -> {s}
      [] i.op = "store" /\ i.var \notin DOMAIN s.env -> {[s EXCEPT !.mem = (i.var :> ValueOf(s, i.args[1])) @@ @]}
      [] i.op = "load" /\ i.var \in DOMAIN s.mem -> {Computes(s, i, s.mem[i.var])}
      [] i.op = "load" /\ i.var \notin DOMAIN s.mem -> {Computes(s, i, n) : n \in Sample}
      [] i.op = "call"   -> {[Computes(s, i, n) EXCEPT !.mem[Global] = g] :
                                n \in Sample, g \in Sample}
      [] OTHER -> {Computes(s, i, ConstantValue(i.op, ValueOf(s, i.args[1]),
                                 IF Len(i.args) = 2 THEN ValueOf(s, i.args[2]) ELSE 0))}

\* What a phi reads on the edge that was taken.
PhiValue(s, i) ==
    LET n == SelectInSeq(i.to, LAMBDA p : p = s.from)
    IN  IF n = 0 THEN 0 ELSE ValueOf(s, i.args[n])

\* The phis of the block are read together.
AfterPhis(f, s) ==
    LET phis == SelectSeq(f.code[s.block], LAMBDA i : i.op = "phi")
    IN  FoldLeft(LAMBDA t, i : Computes(t, i, PhiValue(s, i)), s, phis)

\* Where a branch or a return leads.
Target(s, i) ==
    IF i.to = << >> THEN {}
    ELSE {IF Len(i.to) = 1 \/ ValueOf(s, i.args[1]) # 0 THEN i.to[1] ELSE i.to[2]}

\* The instructions of b up to the first terminator, which is the last one
\* that is executed.
ExecutedCode(f, b) ==
    LET n == SelectInSeq(f.code[b], IsTerminator)
    IN  IF n = 0 THEN f.code[b] ELSE SubSeq(f.code[b], 1, n)

\* The states in which each instruction of the block is met, and at its end.
RECURSIVE Met(_, _, _)
Met(S, instrs, k) ==
    IF k > Len(instrs) THEN << >>
    ELSE <<S>> \o Met(IF instrs[k].op = "phi" \/ IsTerminator(instrs[k]) THEN S
                      ELSE UNION {AfterInstr(s, instrs[k]) : s \in S},
                      instrs, k + 1)

StatesAlong(f, S, b) == Met({AfterPhis(f, s) : s \in S}, ExecutedCode(f, b), 1)

Starts ==
    {[env |-> << >>, mem |-> (Global :> g), arg |-> a, block |-> Entry, from |-> 0] :
        g \in Sample, a \in Sample}

\* All states in which blocks are entered.
RECURSIVE Entered(_, _, _)
Entered(f, seen, new) ==
    LET Onward(s) ==
            LET code == ExecutedCode(f, s.block)
                met == StatesAlong(f, {s}, s.block)
            IN  IF code = << >> THEN {}
                ELSE UNION {{[t EXCEPT !.block = c, !.from = s.block] :
                                c \in Target(t, Last(code))} : t \in Last(met)}
        next == UNION {Onward(s) : s \in new} \ seen
    IN  IF next = {} THEN seen ELSE Entered(f, seen \cup next, next)

Executions(f) == Entered(f, Starts, Starts)
=============================================================================
