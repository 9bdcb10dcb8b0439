--------------------- MODULE CminusfBuilder_flow_proofs ---------------------
(***************************************************************************)
(* Proofs about the control flow of the functions that the AST visitor     *)
(* makes, for all programs: storages dominate their uses, and every loop   *)
(* is entered from one block.  The inductive invariant carries a           *)
(* certificate for the graph built so far: dominators and a rank for each  *)
(* block, and the block from which a loop is entered.  It also says of the *)
(* blocks where a pending visit goes on that the branches to come will fit *)
(* the certificate.  Dominance is then the order of a tree.                *)
(***************************************************************************)
EXTENDS CminusfBuilder_proofs

\* dom: dominators of a block; rank: it grows along every edge that leads on;
\* ent: 0, or the block from which a loop with this judgeBB is entered.
Certificates == [dom : [Nat -> SUBSET Nat], rank : [Nat -> Nat], ent : [Nat -> Nat]]

\* An edge goes on, into a loop only at its entry, or back to a judgeBB.
EdgeFits(c, u, v) ==
    /\ c.dom[v] \subseteq c.dom[u] \cup {v}
    /\ \/ c.ent[v] \in {0, u} /\ c.rank[u] < c.rank[v]
       \/ c.ent[v] # 0 /\ v \in c.dom[u]

\* A load or store at place k of b comes behind the storage it goes to.
AccessFits(c, b, k, i) ==
    i.op \in {"load", "store"} /\ i.var # Global =>
        /\ i.var[1] \in c.dom[b]
        /\ i.var[1] = b => i.var[2] < k

BlockFits(c, f, b) ==
    /\ b \in c.dom[b]
    /\ \A t \in Succ(f, b) : EdgeFits(c, b, t)
    /\ \A k \in DOMAIN f.code[b] : AccessFits(c, b, k, f.code[b][k])

Certifies(c, f) ==
    /\ c \in Certificates
    /\ c.dom[Entry] \subseteq {Entry}
    /\ \A b \in Blocks(f) : BlockFits(c, f, b)

\* d says of the blocks of f what c says, the distances of ranks apart.
Refines(f, c, d) ==
    /\ \A b \in Blocks(f) : d.dom[b] = c.dom[b] /\ d.ent[b] = c.ent[b]
    /\ \A a, b \in Blocks(f) : c.rank[a] < c.rank[b] => d.rank[a] < d.rank[b]

\* Where b could branch to in f, e can branch to later.
Replaces(f, c, b, d, e) ==
    /\ c.dom[b] \subseteq d.dom[e]
    /\ \A x \in Blocks(f) : c.rank[b] < c.rank[x] => d.rank[e] < d.rank[x]

\* The code that stood at b of f goes on at e of g, certified by d.
FlowsTo(f, c, b, g, d, e) ==
    /\ Certifies(d, g)
    /\ Blocks(f) \subseteq Blocks(g)
    /\ e \in Blocks(g)
    /\ Refines(f, c, d)
    /\ Replaces(f, c, b, d, e)

\* Code that went on twice went on.
LEMMA FlowsTransitive ==
    ASSUME NEW f, NEW c, NEW b, NEW g, NEW d, NEW e, NEW h, NEW k, NEW m,
           FlowsTo(f, c, b, g, d, e), FlowsTo(g, d, e, h, k, m)
    PROVE  FlowsTo(f, c, b, h, k, m)
<1>1. Certifies(k, h) /\ Blocks(f) \subseteq Blocks(h) /\ m \in Blocks(h)
  BY DEF FlowsTo
<1>2. Refines(f, c, k)
  BY DEF FlowsTo, Refines
<1>3. Replaces(f, c, b, k, m)
  BY DEF FlowsTo, Refines, Replaces
<1>4. QED
  BY <1>1, <1>2, <1>3 DEF FlowsTo

\* No code, no change.
LEMMA FlowsReflexive ==
    ASSUME NEW f, NEW c, Certifies(c, f), NEW b \in Blocks(f)
    PROVE  FlowsTo(f, c, b, f, c, b)
BY DEF FlowsTo, Refines, Replaces

-----------------------------------------------------------------------------
\* Instruction::Instruction: what the new one accesses decides.
LEMMA InstructionCertified ==
    ASSUME NEW f, WellFormed(f), NEW c, Certifies(c, f), NEW b \in Blocks(f),
           NEW i \in Instructions, AccessFits(c, b, Len(f.code[b]) + 1, i)
    PROVE  /\ Certifies(c, AddInstruction(f, b, i))
           /\ FlowsTo(f, c, b, AddInstruction(f, b, i), c, b)
<1> DEFINE g == AddInstruction(f, b, i)
           j == [i EXCEPT !.id = NextPlace(f, b)]
           n == Len(f.code[b]) + 1
<1>1. /\ g.succ = f.succ /\ Blocks(g) = Blocks(f)
      /\ j \in Instructions
      /\ f.code[b] \in Seq(Instructions)
      /\ g.code[b] = Append(f.code[b], j)
      /\ \A a \in Blocks(f) : a # b => g.code[a] = f.code[a]
  BY AddFacts
<1>2. j.op = i.op /\ j.var = i.var
  BY DEF Instructions
<1> HIDE DEF g, j
<1>3. /\ DOMAIN f.code[b] = 1..Len(f.code[b]) /\ Len(f.code[b]) \in Nat
      /\ DOMAIN g.code[b] = DOMAIN f.code[b] \cup {n}
      /\ \A k \in DOMAIN f.code[b] : g.code[b][k] = f.code[b][k]
      /\ g.code[b][n] = j
  <2>1. /\ Append(f.code[b], j) \in Seq(Instructions)
        /\ Len(Append(f.code[b], j)) = Len(f.code[b]) + 1
        /\ \A k \in 1..Len(f.code[b]) : Append(f.code[b], j)[k] = f.code[b][k]
        /\ Append(f.code[b], j)[Len(f.code[b]) + 1] = j
    BY <1>1, AppendProperties
  <2>2. DOMAIN f.code[b] = 1..Len(f.code[b]) /\ Len(f.code[b]) \in Nat
    BY <1>1, LenProperties
  <2>3. DOMAIN Append(f.code[b], j) = 1..(Len(f.code[b]) + 1)
    BY <2>1, LenProperties
  <2>4. QED
    BY <1>1, <2>1, <2>2, <2>3
<1>4. AccessFits(c, b, n, j)
  BY <1>2 DEF AccessFits
<1>5. ASSUME NEW a \in Blocks(f)
      PROVE  BlockFits(c, g, a)
  <2>1. BlockFits(c, f, a) /\ Succ(g, a) = Succ(f, a)
    BY <1>1 DEF Certifies, Succ
  <2>2. CASE a = b
    BY <1>3, <1>4, <2>1, <2>2 DEF BlockFits
  <2>3. CASE a # b
    BY <1>1, <2>1, <2>3 DEF BlockFits
  <2>4. QED
    BY <2>2, <2>3
<1>6. Certifies(c, g)
  BY <1>1, <1>5 DEF Certifies
<1>7. FlowsTo(f, c, b, g, c, b)
  BY <1>1, <1>6 DEF FlowsTo, Refines, Replaces
<1>8. QED
  BY <1>6, <1>7 DEF g

\* The instructions that access no storage fit anywhere.
LEMMA PlainCertified ==
    ASSUME NEW f, Consistent(f), NEW c, Certifies(c, f), NEW b \in Blocks(f)
    PROVE  /\ FlowsTo(f, c, b, AddInstruction(f, b, Call), c, b)
           /\ FlowsTo(f, c, b, AddInstruction(f, b, Alloca(NextPlace(f, b))), c, b)
           /\ \A v \in Operands : FlowsTo(f, c, b, AddInstruction(f, b, Ret(v)), c, b)
           /\ \A u, v \in Operands : \A op \in {"add", "ne", "lt", "gep"} :
                 FlowsTo(f, c, b, AddInstruction(f, b, Pure(op, <<u, v>>)), c, b)
<1>1. \A op \in Opcodes, var \in Operands, args \in Seq(Operands) :
          op \notin {"load", "store"} =>
              FlowsTo(f, c, b, AddInstruction(f, b, Instruction(op, << >>, var, args)), c, b)
  <2> SUFFICES ASSUME NEW op \in Opcodes, NEW var \in Operands, NEW args \in Seq(Operands),
                      op \notin {"load", "store"}
               PROVE  FlowsTo(f, c, b, AddInstruction(f, b, Instruction(op, << >>, var, args)), c, b)
    OBVIOUS
  <2> DEFINE i == Instruction(op, << >>, var, args)
  <2>1. i \in Instructions /\ i.op = op
    <3>1. << >> \in Seq(Nat) /\ Global \in Operands
      BY EmptySeq DEF Global, Operands
    <3>2. QED
      BY <3>1 DEF Instructions, Instruction
  <2> HIDE DEF i
  <2>2. AccessFits(c, b, Len(f.code[b]) + 1, i)
    BY <2>1 DEF AccessFits
  <2>3. FlowsTo(f, c, b, AddInstruction(f, b, i), c, b)
    BY <2>1, <2>2, InstructionCertified DEF Consistent
  <2>4. QED
    BY <2>3 DEF i
<1>2. /\ Global \in Operands /\ << >> \in Seq(Operands)
      /\ NextPlace(f, b) \in Operands
  <2>1. Added(f, b, "call", AddInstruction(f, b, Call))
    BY AddedPlain
  <2>2. QED
    BY <2>1, EmptySeq DEF Global, Operands, Added
<1>3. {"call", "alloca", "ret", "add", "ne", "lt", "gep"} \subseteq Opcodes
  BY DEF Opcodes
<1>4. FlowsTo(f, c, b, AddInstruction(f, b, Call), c, b)
  BY <1>1, <1>2, <1>3 DEF Call
<1>5. FlowsTo(f, c, b, AddInstruction(f, b, Alloca(NextPlace(f, b))), c, b)
  BY <1>1, <1>2, <1>3 DEF Alloca
<1>6. ASSUME NEW v \in Operands
      PROVE  FlowsTo(f, c, b, AddInstruction(f, b, Ret(v)), c, b)
  <2> DEFINE args == <<v>>
  <2>1. args \in Seq(Operands)
    OBVIOUS
  <2> HIDE DEF args
  <2>2. FlowsTo(f, c, b, AddInstruction(f, b, Instruction("ret", << >>, Global, args)), c, b)
    BY <1>1, <1>2, <1>3, <2>1
  <2>3. QED
    BY <2>2 DEF Ret, args
<1>7. ASSUME NEW u \in Operands, NEW v \in Operands, NEW op \in {"add", "ne", "lt", "gep"}
      PROVE  FlowsTo(f, c, b, AddInstruction(f, b, Pure(op, <<u, v>>)), c, b)
  <2> DEFINE args == <<u, v>>
  <2>1. args \in Seq(Operands)
    OBVIOUS
  <2> HIDE DEF args
  <2>2. FlowsTo(f, c, b, AddInstruction(f, b, Instruction(op, << >>, Global, args)), c, b)
    BY <1>1, <1>2, <1>3, <2>1
  <2>3. QED
    BY <2>2 DEF Pure, args
<1>8. QED
  BY <1>4, <1>5, <1>6, <1>7

\* The place of a load or store is one that the code at b has passed.
Passed(f, c, b, s) ==
    s # Global => /\ s[1] \in c.dom[b]
                  /\ s[1] = b => s[2] \in DOMAIN f.code[b]

\* The loads and stores fit behind the storage they go to.
LEMMA AccessCertified ==
    ASSUME NEW f, Consistent(f), NEW c, Certifies(c, f), NEW b \in Blocks(f),
           NEW s \in Operands, Passed(f, c, b, s)
    PROVE  /\ FlowsTo(f, c, b, AddInstruction(f, b, Load(s)), c, b)
           /\ \A v \in Operands : FlowsTo(f, c, b, AddInstruction(f, b, Store(s, v)), c, b)
<1>1. \A op \in {"load", "store"}, args \in Seq(Operands) :
          FlowsTo(f, c, b, AddInstruction(f, b, Instruction(op, << >>, s, args)), c, b)
  <2> SUFFICES ASSUME NEW op \in {"load", "store"}, NEW args \in Seq(Operands)
               PROVE  FlowsTo(f, c, b, AddInstruction(f, b, Instruction(op, << >>, s, args)), c, b)
    OBVIOUS
  <2> DEFINE i == Instruction(op, << >>, s, args)
  <2>1. i \in Instructions /\ i.op = op /\ i.var = s
    <3>1. << >> \in Seq(Nat) /\ Global \in Operands /\ op \in Opcodes
      BY EmptySeq DEF Global, Operands, Opcodes
    <3>2. QED
      BY <3>1 DEF Instructions, Instruction
  <2> HIDE DEF i
  <2>2. AccessFits(c, b, Len(f.code[b]) + 1, i)
    <3>1. f.code[b] \in Seq(Instructions)
      BY BlocksFacts, ElementOfSeq DEF Consistent
    <3>2. DOMAIN f.code[b] = 1..Len(f.code[b]) /\ Len(f.code[b]) \in Nat
      BY <3>1, LenProperties
    <3>3. s[2] \in DOMAIN f.code[b] => s[2] < Len(f.code[b]) + 1
      BY <3>2
    <3>4. QED
      BY <2>1, <3>3 DEF AccessFits, Passed
  <2>3. FlowsTo(f, c, b, AddInstruction(f, b, i), c, b)
    BY <2>1, <2>2, InstructionCertified DEF Consistent
  <2>4. QED
    BY <2>3 DEF i
<1>2. FlowsTo(f, c, b, AddInstruction(f, b, Load(s)), c, b)
  BY <1>1, EmptySeq DEF Load
<1>3. ASSUME NEW v \in Operands
      PROVE  FlowsTo(f, c, b, AddInstruction(f, b, Store(s, v)), c, b)
  <2> DEFINE args == <<v>>
  <2>1. args \in Seq(Operands)
    OBVIOUS
  <2> HIDE DEF args
  <2>2. FlowsTo(f, c, b, AddInstruction(f, b, Instruction("store", << >>, s, args)), c, b)
    BY <1>1, <2>1
  <2>3. QED
    BY <2>2 DEF Store, args
<1>4. QED
  BY <1>2, <1>3

-----------------------------------------------------------------------------
\* A branch that was added, as far as the edges go: the successors of b are
\* more by those in T.
EdgesAdded(f, b, T, g) ==
    /\ WellFormed(g) /\ Extends(f, g) /\ Blocks(g) = Blocks(f)
    /\ Succ(g, b) \subseteq Succ(f, b) \cup T
    /\ \A a \in Blocks(f) : a # b => Succ(g, a) = Succ(f, a)
    /\ \A a \in Blocks(f) : \A k \in DOMAIN g.code[a] :
          k \in DOMAIN f.code[a] \/ g.code[a][k].op = "br"

\* Branches whose edges fit keep the certificate.
LEMMA EdgesCertified ==
    ASSUME NEW f, NEW c, Certifies(c, f), NEW b \in Blocks(f), NEW T, NEW g,
           EdgesAdded(f, b, T, g), \A t \in T : EdgeFits(c, b, t)
    PROVE  Certifies(c, g)
<1>1. ASSUME NEW a \in Blocks(f)
      PROVE  BlockFits(c, g, a)
  <2>1. BlockFits(c, f, a)
    BY DEF Certifies
  <2>2. \A t \in Succ(g, a) : EdgeFits(c, a, t)
    BY <2>1 DEF EdgesAdded, BlockFits
  <2>3. \A k \in DOMAIN g.code[a] : AccessFits(c, a, k, g.code[a][k])
    <3>1. ASSUME NEW k \in DOMAIN g.code[a]
          PROVE  AccessFits(c, a, k, g.code[a][k])
      <4>1. CASE k \in DOMAIN f.code[a]
        BY <2>1, <4>1 DEF EdgesAdded, BlockFits, Extends
      <4>2. CASE g.code[a][k].op = "br"
        BY <4>2 DEF AccessFits
      <4>3. QED
        BY <4>1, <4>2 DEF EdgesAdded
    <3>2. QED
      BY <3>1
  <2>4. QED
    BY <2>1, <2>2, <2>3 DEF BlockFits
<1>2. QED
  BY <1>1 DEF Certifies, EdgesAdded

\* An element more in a sequence.
LEMMA ToSetAppend ==
    ASSUME NEW s \in Seq(Nat), NEW y \in Nat
    PROVE  ToSet(Append(s, y)) = ToSet(s) \cup {y}
<1>1. /\ Append(s, y) \in Seq(Nat) /\ Len(Append(s, y)) = Len(s) + 1
      /\ \A k \in 1..Len(s) : Append(s, y)[k] = s[k]
      /\ Append(s, y)[Len(s) + 1] = y
      /\ Len(s) \in Nat /\ DOMAIN s = 1..Len(s)
  BY AppendProperties, LenProperties
<1>2. DOMAIN Append(s, y) = 1..(Len(s) + 1)
  BY <1>1, LenProperties
<1>3. QED
  BY <1>1, <1>2 DEF ToSet

\* A branch instruction at the end of b, behind succ_bbs_ that has grown by T.
LEMMA BranchEdges ==
    ASSUME NEW f, NEW b \in Blocks(f), NEW T, NEW h, WellFormed(h),
           Blocks(h) = Blocks(f), h.code = f.code,
           Succ(h, b) \subseteq Succ(f, b) \cup T,
           \A a \in Blocks(f) : a # b => Succ(h, a) = Succ(f, a),
           NEW i \in Instructions, i.op = "br", WellFormed(AddInstruction(h, b, i))
    PROVE  EdgesAdded(f, b, T, AddInstruction(h, b, i))
<1> DEFINE g == AddInstruction(h, b, i)
           j == [i EXCEPT !.id = NextPlace(h, b)]
<1>1. /\ g.succ = h.succ /\ Blocks(g) = Blocks(h)
      /\ j \in Instructions
      /\ h.code[b] \in Seq(Instructions)
      /\ g.code[b] = Append(h.code[b], j)
      /\ \A a \in Blocks(h) : a # b => g.code[a] = h.code[a]
  <2>1. b \in Blocks(h)
    OBVIOUS
  <2>2. /\ g.succ = h.succ /\ Blocks(g) = Blocks(h)
        /\ j \in Instructions
        /\ h.code[b] \in Seq(Instructions)
        /\ g.code[b] = Append(h.code[b], j)
    BY <2>1, AddFacts
  <2>3. \A a \in Blocks(h) : a # b => g.code[a] = h.code[a]
    BY <2>1, AddFacts
  <2>4. QED
    BY <2>2, <2>3
<1>2. Extends(f, g)
  <2>1. Extends(h, g)
    BY AddExtends
  <2>2. QED
    BY <2>1 DEF Extends
<1>3. j.op = "br"
  BY DEF Instructions
<1> HIDE DEF g, j
<1>4. \A k \in DOMAIN g.code[b] : k \in DOMAIN f.code[b] \/ g.code[b][k].op = "br"
  <2>1. /\ Append(h.code[b], j) \in Seq(Instructions)
        /\ Len(Append(h.code[b], j)) = Len(h.code[b]) + 1
        /\ Append(h.code[b], j)[Len(h.code[b]) + 1] = j
    BY <1>1, AppendProperties
  <2>2. DOMAIN h.code[b] = 1..Len(h.code[b]) /\ Len(h.code[b]) \in Nat
    BY <1>1, LenProperties
  <2>3. DOMAIN Append(h.code[b], j) = 1..(Len(h.code[b]) + 1)
    BY <2>1, LenProperties
  <2>4. QED
    BY <1>1, <1>3, <2>1, <2>2, <2>3
<1>5. \A a \in Blocks(f) : Succ(g, a) = Succ(h, a)
  BY <1>1 DEF Succ
<1>6. QED
  BY <1>1, <1>2, <1>4, <1>5 DEF EdgesAdded, g

\* In g, b has the successor t besides those in f.
SuccessorMore(f, b, t, g) ==
    /\ WellFormed(g) /\ Blocks(g) = Blocks(f) /\ g.code = f.code
    /\ Succ(g, b) = Succ(f, b) \cup {t}
    /\ \A a \in Blocks(f) : a # b => Succ(g, a) = Succ(f, a)

\* add_succ_basic_block: one successor more.
LEMMA SuccessorAdded ==
    ASSUME NEW f, WellFormed(f), NEW b \in Blocks(f), NEW t \in Blocks(f)
    PROVE  SuccessorMore(f, b, t, AddSucc(f, b, t))
<1> DEFINE g == AddSucc(f, b, t)
           app == Append(f.succ[b], t)
<1>1. SuccAdded(f, t, b, g)
  BY AddSuccFacts
<1>2. /\ f.succ \in Seq(Seq(Nat)) /\ Blocks(f) = 1..Len(f.succ) /\ Blocks(f) \subseteq Nat
      /\ f.succ[b] \in Seq(Nat)
  BY BlocksFacts, ElementOfSeq
<1>3. app \in Seq(Nat) /\ ToSet(app) = ToSet(f.succ[b]) \cup {t}
  <2>1. t \in Nat
    BY <1>2
  <2>2. ToSet(Append(f.succ[b], t)) = ToSet(f.succ[b]) \cup {t}
    BY <1>2, <2>1, ToSetAppend
  <2>3. QED
    BY <1>2, <2>1, <2>2, AppendProperties
<1>4. g.succ = [f.succ EXCEPT ![b] = app]
  <2>1. f.succ = f["succ"] /\ DOMAIN f = {"pre", "succ", "code"}
    BY DEF WellFormed, FunctionRecords
  <2>2. QED
    BY <2>1 DEF AddSucc
<1> HIDE DEF g, app
<1>5. \A a \in 1..Len(f.succ) : g.succ[a] = IF a = b THEN app ELSE f.succ[a]
  BY <1>2, <1>3, <1>4, ExceptSeq
<1>6. QED
  BY <1>1, <1>2, <1>3, <1>5 DEF SuccAdded, Succ, g, SuccessorMore

\* add_pre_basic_block: no successor more.
LEMMA PredecessorAdded ==
    ASSUME NEW f, WellFormed(f), NEW b \in Blocks(f), NEW t \in Blocks(f)
    PROVE  LET g == AddPre(f, t, b)
           IN  /\ WellFormed(g) /\ Blocks(g) = Blocks(f) /\ g.code = f.code
               /\ \A a : Succ(g, a) = Succ(f, a)
<1>1. PreAdded(f, t, b, AddPre(f, t, b))
  BY AddPreFacts
<1>2. QED
  BY <1>1 DEF PreAdded, Succ

\* create_br whose edge fits.
LEMMA BrCertified ==
    ASSUME NEW f, Consistent(f), NEW c, Certifies(c, f),
           NEW b \in Blocks(f), NEW t \in Blocks(f) \ {Entry}, EdgeFits(c, b, t)
    PROVE  Certifies(c, CreateBr(f, b, t))
<1> DEFINE p == AddPre(f, t, b)
           h == AddSucc(p, b, t)
           i == Br(t)
           g == AddInstruction(h, b, i)
<1>1. CreateBr(f, b, t) = g
  BY DEF CreateBr
<1>2. i \in Instructions /\ i.op = "br"
  <2>1. i = [id |-> Global, op |-> "br", to |-> <<t>>, var |-> Global, args |-> << >>]
    BY DEF Br, Instruction
  <2>2. <<t>> \in Seq(Nat) /\ << >> \in Seq(Operands) /\ Global \in Operands
    BY BlocksFacts, EmptySeq DEF Consistent, Global, Operands
  <2>3. QED
    BY <2>1, <2>2 DEF Instructions, Opcodes
<1>3. WellFormed(g)
  BY <1>1, CreateBrKeeps DEF Consistent
<1> HIDE DEF p, h, i, g
<1>4. WellFormed(p) /\ Blocks(p) = Blocks(f) /\ p.code = f.code /\ \A a : Succ(p, a) = Succ(f, a)
  BY PredecessorAdded DEF p, Consistent
<1>5. /\ WellFormed(h) /\ Blocks(h) = Blocks(f) /\ h.code = f.code
      /\ Succ(h, b) \subseteq Succ(f, b) \cup {t}
      /\ \A a \in Blocks(f) : a # b => Succ(h, a) = Succ(f, a)
  BY <1>4, SuccessorAdded DEF h, SuccessorMore
<1>6. EdgesAdded(f, b, {t}, g)
  BY <1>2, <1>3, <1>5, BranchEdges DEF g
<1>7. QED
  BY <1>1, <1>6, EdgesCertified

\* create_cond_br whose two edges fit.
LEMMA CondBrCertified ==
    ASSUME NEW f, Consistent(f), NEW c, Certifies(c, f),
           NEW b \in Blocks(f), NEW v \in Operands, IsValue(f, v),
           NEW t \in Blocks(f) \ {Entry}, NEW e \in Blocks(f) \ {Entry}, t # e,
           EdgeFits(c, b, t), EdgeFits(c, b, e)
    PROVE  Certifies(c, CreateCondBr(f, b, v, t, e))
<1> DEFINE p == AddPre(f, t, b)
           q == AddPre(p, e, b)
           r == AddSucc(q, b, e)
           h == AddSucc(r, b, t)
           i == CondBr(v, t, e)
           g == AddInstruction(h, b, i)
<1>1. CreateCondBr(f, b, v, t, e) = g
  BY DEF CreateCondBr
<1>2. i \in Instructions /\ i.op = "br"
  <2>1. i = [id |-> Global, op |-> "br", to |-> <<t, e>>, var |-> Global, args |-> <<v>>]
    BY DEF CondBr, Instruction
  <2>2. <<t, e>> \in Seq(Nat) /\ <<v>> \in Seq(Operands) /\ Global \in Operands
    BY BlocksFacts DEF Consistent, Global, Operands
  <2>3. QED
    BY <2>1, <2>2 DEF Instructions, Opcodes
<1>3. WellFormed(g)
  BY <1>1, CreateCondBrKeeps DEF Consistent
<1> HIDE DEF p, q, r, h, i, g
<1>4. WellFormed(p) /\ Blocks(p) = Blocks(f) /\ p.code = f.code /\ \A a : Succ(p, a) = Succ(f, a)
  BY PredecessorAdded DEF p, Consistent
<1>5. WellFormed(q) /\ Blocks(q) = Blocks(f) /\ q.code = f.code /\ \A a : Succ(q, a) = Succ(f, a)
  <2>1. e \in Blocks(p) /\ b \in Blocks(p)
    BY <1>4
  <2>2. /\ WellFormed(q) /\ Blocks(q) = Blocks(p) /\ q.code = p.code
        /\ \A a : Succ(q, a) = Succ(p, a)
    BY <1>4, <2>1, PredecessorAdded DEF q
  <2>3. QED
    BY <1>4, <2>2
<1>6. /\ WellFormed(r) /\ Blocks(r) = Blocks(f) /\ r.code = f.code
      /\ Succ(r, b) = Succ(f, b) \cup {e}
      /\ \A a \in Blocks(f) : a # b => Succ(r, a) = Succ(f, a)
  <2>1. e \in Blocks(q) /\ b \in Blocks(q)
    BY <1>5
  <2>2. SuccessorMore(q, b, e, r)
    BY <1>5, <2>1, SuccessorAdded DEF r
  <2>3. \A a \in Blocks(q) : Succ(q, a) = Succ(f, a)
    BY <1>4, <1>5
  <2>4. QED
    BY <1>5, <2>1, <2>2, <2>3 DEF SuccessorMore
<1>7. /\ WellFormed(h) /\ Blocks(h) = Blocks(f) /\ h.code = f.code
      /\ Succ(h, b) \subseteq Succ(f, b) \cup {t, e}
      /\ \A a \in Blocks(f) : a # b => Succ(h, a) = Succ(f, a)
  <2>1. t \in Blocks(r) /\ b \in Blocks(r)
    BY <1>6
  <2>2. SuccessorMore(r, b, t, h)
    BY <1>6, <2>1, SuccessorAdded DEF h
  <2>3. QED
    BY <1>6, <2>1, <2>2 DEF SuccessorMore
<1>8. EdgesAdded(f, b, {t, e}, g)
  BY <1>2, <1>3, <1>7, BranchEdges DEF g
<1>9. QED
  BY <1>1, <1>8, EdgesCertified

-----------------------------------------------------------------------------
\* The certificate after blocks were made behind the n that there are, where
\* the code has come to p: they follow p and come before all that follows p.
\* over: what dominates the later ones besides p; ent: the entry of the first.
Opened(c, p, n, over, ent) ==
    [dom  |-> [x \in Nat |-> IF x <= n THEN c.dom[x] ELSE c.dom[p] \cup over \cup {x}],
     rank |-> [x \in Nat |-> IF x > n THEN c.rank[p] + (x - n)
                             ELSE IF c.rank[x] > c.rank[p] THEN c.rank[x] + 3
                             ELSE c.rank[x]],
     ent  |-> [x \in Nat |-> IF x <= n THEN c.ent[x] ELSE IF x = n + 1 THEN ent ELSE 0]]

\* A new block x of those.
OpenedAt(f, c, p, over, ent, d, x) ==
    /\ d.dom[x] = c.dom[p] \cup over \cup {x}
    /\ d.ent[x] = IF x = NewestBlock(f) + 1 THEN ent ELSE 0
    /\ d.rank[p] < d.rank[x]
    /\ \A y \in Blocks(f) : c.rank[p] < c.rank[y] => d.rank[x] < d.rank[y]

\* g is f with new blocks, up to three.
BlocksAdded(f, g) ==
    /\ WellFormed(g)
    /\ NewestBlock(g) > NewestBlock(f) /\ NewestBlock(g) <= NewestBlock(f) + 3
    /\ \A b \in Blocks(f) : g.succ[b] = f.succ[b] /\ g.code[b] = f.code[b]
    /\ \A b \in Blocks(g) \ Blocks(f) : g.succ[b] = << >> /\ g.code[b] = << >>

\* d certifies g, where blocks were added to f that follow p.
OpenedBehind(f, c, p, g, over, ent, d) ==
    /\ Certifies(d, g)
    /\ Refines(f, c, d)
    /\ Blocks(f) \subseteq Blocks(g)
    /\ \A x \in Blocks(g) \ Blocks(f) :
          /\ OpenedAt(f, c, p, over, ent, d, x)
          /\ \A y \in Blocks(g) \ Blocks(f) : x < y => d.rank[x] < d.rank[y]

\* BasicBlock::create, twice or three times.
LEMMA OpenedCertified ==
    ASSUME NEW f, WellFormed(f), NEW c, Certifies(c, f), NEW p \in Blocks(f),
           NEW g, BlocksAdded(f, g), NEW over \in SUBSET Nat, NEW ent \in Nat
    PROVE  OpenedBehind(f, c, p, g, over, ent, Opened(c, p, NewestBlock(f), over, ent))
<1> DEFINE n == NewestBlock(f)
           m == NewestBlock(g)
           d == Opened(c, p, n, over, ent)
<1>1. /\ Blocks(f) = 1..n /\ Blocks(g) = 1..m /\ n \in Nat /\ m \in Nat
      /\ n < m /\ m <= n + 3
  BY BlocksFacts DEF BlocksAdded, NewestBlock
<1> HIDE DEF n, m
<1>2. /\ c.dom \in [Nat -> SUBSET Nat] /\ c.rank \in [Nat -> Nat] /\ c.ent \in [Nat -> Nat]
      /\ p \in 1..n /\ c.dom[p] \subseteq Nat /\ c.rank[p] \in Nat
  <2>1. c.dom \in [Nat -> SUBSET Nat] /\ c.rank \in [Nat -> Nat] /\ c.ent \in [Nat -> Nat]
    BY DEF Certifies, Certificates
  <2>2. p \in 1..n /\ p \in Nat
    BY <1>1
  <2>3. QED
    BY <2>1, <2>2
<1> DEFINE dom == d.dom
           rank == d.rank
           late == d.ent
           old == c.rank
<1>3. d \in Certificates
  <2>1. \A x \in Nat : (IF x <= n THEN c.dom[x] ELSE c.dom[p] \cup over \cup {x}) \in SUBSET Nat
    BY <1>2
  <2>2. dom \in [Nat -> SUBSET Nat]
    BY <2>1 DEF Opened
  <2>3. \A x \in Nat : old[x] \in Nat
    BY <1>2
  <2>4. \A x \in Nat : (IF x > n THEN old[p] + (x - n)
                       ELSE IF old[x] > old[p] THEN old[x] + 3 ELSE old[x]) \in Nat
    <3> HIDE DEF old
    <3>1. old[p] \in Nat
      BY <1>2, <2>3
    <3>2. QED
      BY <1>1, <2>3, <3>1
  <2>5. rank \in [Nat -> Nat]
    BY <2>4 DEF Opened
  <2>6. late \in [Nat -> Nat]
    BY <1>2 DEF Opened
  <2>7. QED
    BY <2>2, <2>5, <2>6 DEF Certificates, Opened
<1>4. /\ \A x \in Nat : x <= n => dom[x] = c.dom[x] /\ late[x] = c.ent[x]
      /\ \A x \in Nat : ~(x <= n) => /\ dom[x] = c.dom[p] \cup over \cup {x}
                                    /\ late[x] = IF x = n + 1 THEN ent ELSE 0
  BY DEF Opened
<1>12. /\ \A x \in Nat : rank[x] = IF x > n THEN old[p] + (x - n)
                                   ELSE IF old[x] > old[p] THEN old[x] + 3 ELSE old[x]
       /\ \A x \in Nat : old[x] \in Nat
       /\ old[p] \in Nat
  BY <1>2 DEF Opened
<1> HIDE DEF d, dom, rank, late, old
<1>13. /\ \A x \in Nat : ~(x > n) /\ old[x] > old[p] => rank[x] = old[x] + 3
       /\ \A x \in Nat : ~(x > n) /\ ~(old[x] > old[p]) => rank[x] = old[x]
       /\ \A x \in Nat : x > n => rank[x] = old[p] + (x - n)
  BY <1>12
<1>14. \A x \in 1..n : x \in Nat /\ ~(x > n)
  BY <1>1
<1>5. Refines(f, c, d)
  <2>1. \A b \in 1..n : dom[b] = c.dom[b] /\ late[b] = c.ent[b]
    BY <1>1, <1>4
  <2>2. ASSUME NEW a \in 1..n, NEW b \in 1..n, old[a] < old[b]
        PROVE  rank[a] < rank[b]
    <3>1. /\ a \in Nat /\ ~(a > n) /\ b \in Nat /\ ~(b > n)
          /\ old[a] \in Nat /\ old[b] \in Nat
      BY <1>12, <1>14
    <3>2. CASE old[a] > old[p]
      BY <1>12, <1>13, <2>2, <3>1, <3>2
    <3>3. CASE ~(old[a] > old[p])
      BY <1>12, <1>13, <2>2, <3>1, <3>3
    <3>4. QED
      BY <3>2, <3>3
  <2>3. QED
    BY <1>1, <2>1, <2>2 DEF Refines, dom, rank, late, old
<1>6. ASSUME NEW x \in Blocks(g) \ Blocks(f)
      PROVE  /\ OpenedAt(f, c, p, over, ent, d, x)
             /\ \A y \in Blocks(g) \ Blocks(f) : x < y => d.rank[x] < d.rank[y]
  <2>1. x \in Nat /\ x > n /\ x <= n + 3 /\ ~(x <= n)
    BY <1>1
  <2>2. rank[x] = old[p] + (x - n) /\ rank[p] = old[p] /\ p \in Nat
    BY <1>2, <1>12, <1>13, <1>14, <2>1
  <2>3. ASSUME NEW y \in Blocks(f), old[p] < old[y]
        PROVE  rank[x] < rank[y]
    <3>1. y \in Nat /\ ~(y > n) /\ old[y] \in Nat /\ old[y] > old[p]
      BY <1>1, <1>12, <1>14, <2>3
    <3>2. rank[y] = old[y] + 3
      BY <1>13, <3>1
    <3>3. QED
      BY <1>1, <1>12, <2>1, <2>2, <3>1, <3>2
  <2>4. rank[p] < rank[x]
    BY <1>1, <1>12, <2>1, <2>2
  <2>5. /\ dom[x] = c.dom[p] \cup over \cup {x}
        /\ late[x] = IF x = n + 1 THEN ent ELSE 0
    BY <1>4, <2>1
  <2>6. \A y \in Blocks(g) \ Blocks(f) : x < y => rank[x] < rank[y]
    BY <1>1, <1>12, <2>1, <2>2
  <2>7. QED
    BY <2>3, <2>4, <2>5, <2>6 DEF OpenedAt, n, dom, rank, late, old
<1>7. ASSUME NEW b \in Blocks(g)
      PROVE  BlockFits(d, g, b)
  <2>1. CASE b \in Blocks(f)
    <3>1. BlockFits(c, f, b) /\ Succ(g, b) = Succ(f, b) /\ g.code[b] = f.code[b]
      BY <2>1 DEF Certifies, BlocksAdded, Succ
    <3>2. Succ(f, b) \subseteq Blocks(f)
      BY <2>1 DEF WellFormed, Succ
    <3>3. d.dom[b] = c.dom[b]
      BY <1>5, <2>1 DEF Refines
    <3>4. \A t \in Succ(g, b) : EdgeFits(d, b, t)
      BY <1>5, <2>1, <3>1, <3>2 DEF BlockFits, EdgeFits, Refines
    <3>5. \A k \in DOMAIN g.code[b] : AccessFits(d, b, k, g.code[b][k])
      BY <3>1, <3>3 DEF BlockFits, AccessFits
    <3>6. QED
      BY <3>1, <3>3, <3>4, <3>5 DEF BlockFits
  <2>2. CASE b \notin Blocks(f)
    <3>1. g.succ[b] = << >> /\ g.code[b] = << >>
      BY <2>2 DEF BlocksAdded
    <3>2. Succ(g, b) = {} /\ DOMAIN g.code[b] = {}
      BY <3>1 DEF Succ, ToSet
    <3>3. b \in d.dom[b]
      BY <1>6, <2>2 DEF OpenedAt
    <3>4. QED
      BY <3>2, <3>3 DEF BlockFits
  <2>3. QED
    BY <2>1, <2>2
<1>8. d.dom[Entry] \subseteq {Entry}
  <2>1. 1 <= n
    BY <1>1
  <2>2. d.dom[Entry] = c.dom[Entry]
    BY <1>4, <2>1 DEF Entry, dom
  <2>3. QED
    BY <2>2 DEF Certifies
<1>9. Certifies(d, g) /\ Blocks(f) \subseteq Blocks(g)
  BY <1>1, <1>3, <1>7, <1>8 DEF Certifies
<1>10. QED
  BY <1>5, <1>6, <1>9 DEF d, n, OpenedBehind
-----------------------------------------------------------------------------
\* BasicBlock::create, in terms of the newest block.
LEMMA OneMade ==
    ASSUME NEW f, Consistent(f)
    PROVE  LET d == NewBlock(f)  n == NewestBlock(f) + 1
           IN  /\ Consistent(d) /\ NewestBlock(d) = n
               /\ n \notin Blocks(f)
               /\ Blocks(d) = Blocks(f) \cup {n}
               /\ \A b \in Blocks(f) : d.succ[b] = f.succ[b] /\ d.code[b] = f.code[b]
               /\ d.succ[n] = << >> /\ d.code[n] = << >>
<1>1. WellFormed(f)
  BY DEF Consistent
<1>2. QED
  BY <1>1, NewBlockKeeps, NewBlockFacts DEF NewestBlock

\* BasicBlock::create twice, as for the check of a subscript.
LEMMA TwoMade ==
    ASSUME NEW f, Consistent(f)
    PROVE  LET g == NewBlock(NewBlock(f))  n == NewestBlock(f)
           IN  /\ BlocksAdded(f, g) /\ Consistent(g)
               /\ n \in Nat /\ Blocks(f) = 1..n /\ Blocks(g) = 1..(n + 2)
<1> DEFINE d == NewBlock(f)
           g == NewBlock(d)
           n == NewestBlock(f)
<1>1. n \in Nat /\ Blocks(f) = 1..n
  BY NewestBlockFacts
<1>2. /\ Consistent(d) /\ NewestBlock(d) = n + 1
      /\ n + 1 \notin Blocks(f)
      /\ Blocks(d) = Blocks(f) \cup {n + 1}
      /\ \A b \in Blocks(f) : d.succ[b] = f.succ[b] /\ d.code[b] = f.code[b]
      /\ d.succ[n + 1] = << >> /\ d.code[n + 1] = << >>
  BY OneMade
<1> HIDE DEF d
<1>3. /\ Consistent(g) /\ NewestBlock(g) = n + 1 + 1
      /\ n + 1 + 1 \notin Blocks(d)
      /\ Blocks(g) = Blocks(d) \cup {n + 1 + 1}
      /\ \A b \in Blocks(d) : g.succ[b] = d.succ[b] /\ g.code[b] = d.code[b]
      /\ g.succ[n + 1 + 1] = << >> /\ g.code[n + 1 + 1] = << >>
  <2>1. Consistent(d) /\ NewestBlock(d) = n + 1
    BY <1>2
  <2> HIDE DEF n
  <2>2. QED
    BY <2>1, OneMade
<1> HIDE DEF g, n
<1>4. Blocks(g) \ Blocks(f) = {n + 1, n + 1 + 1}
  BY <1>2, <1>3
<1>5. NewestBlock(g) = n + 2 /\ Blocks(g) = 1..(n + 2)
  BY <1>1, <1>2, <1>3
<1>6. BlocksAdded(f, g)
  <2>1. \A b \in Blocks(f) : g.succ[b] = f.succ[b] /\ g.code[b] = f.code[b]
    BY <1>2, <1>3
  <2>2. \A b \in Blocks(g) \ Blocks(f) : g.succ[b] = << >> /\ g.code[b] = << >>
    BY <1>2, <1>3, <1>4
  <2>3. NewestBlock(g) > NewestBlock(f) /\ NewestBlock(g) <= NewestBlock(f) + 3
    BY <1>1, <1>5 DEF n
  <2>4. QED
    BY <1>3, <2>1, <2>2, <2>3 DEF BlocksAdded, Consistent
<1>7. QED
  BY <1>1, <1>3, <1>5, <1>6 DEF g, d, n

\* BasicBlock::create three times, as for an if or a while.
LEMMA ThreeMade ==
    ASSUME NEW f, Consistent(f)
    PROVE  LET g == NewBlock(NewBlock(NewBlock(f)))  n == NewestBlock(f)
           IN  /\ BlocksAdded(f, g) /\ Consistent(g)
               /\ n \in Nat /\ Blocks(f) = 1..n /\ Blocks(g) = 1..(n + 3)
<1> DEFINE d == NewBlock(NewBlock(f))
           g == NewBlock(d)
           n == NewestBlock(f)
<1>1. /\ BlocksAdded(f, d) /\ Consistent(d)
      /\ n \in Nat /\ Blocks(f) = 1..n /\ Blocks(d) = 1..(n + 2)
  BY TwoMade
<1> HIDE DEF d
<1>2. NewestBlock(d) = n + 2
  <2>1. Blocks(d) = 1..NewestBlock(d) /\ NewestBlock(d) \in Nat
    BY <1>1, NewestBlockFacts
  <2>2. QED
    BY <1>1, <2>1
<1>3. /\ Consistent(g) /\ NewestBlock(g) = n + 2 + 1
      /\ n + 2 + 1 \notin Blocks(d)
      /\ Blocks(g) = Blocks(d) \cup {n + 2 + 1}
      /\ \A b \in Blocks(d) : g.succ[b] = d.succ[b] /\ g.code[b] = d.code[b]
      /\ g.succ[n + 2 + 1] = << >> /\ g.code[n + 2 + 1] = << >>
  BY <1>1, <1>2, NewBlockKeeps, NewBlockFacts DEF Consistent, NewestBlock
<1> HIDE DEF g, n
<1>4. NewestBlock(g) = n + 3 /\ Blocks(g) = 1..(n + 3) /\ Blocks(f) \subseteq Blocks(d)
  BY <1>1, <1>3
<1>5. BlocksAdded(f, g)
  <2>1. \A b \in Blocks(f) : g.succ[b] = f.succ[b] /\ g.code[b] = f.code[b]
    BY <1>1, <1>3, <1>4 DEF BlocksAdded
  <2>2. \A b \in Blocks(g) \ Blocks(f) : g.succ[b] = << >> /\ g.code[b] = << >>
    BY <1>1, <1>3 DEF BlocksAdded
  <2>3. NewestBlock(g) > NewestBlock(f) /\ NewestBlock(g) <= NewestBlock(f) + 3
    BY <1>1, <1>4 DEF n
  <2>4. QED
    BY <1>3, <2>1, <2>2, <2>3 DEF BlocksAdded, Consistent
<1>6. QED
  BY <1>1, <1>3, <1>4, <1>5 DEF g, d, n

\* What was opened behind p follows p, and code that is to go on at p can go
\* on there.
LEMMA OpenedFlows ==
    ASSUME NEW f, NEW c, NEW p \in Blocks(f), NEW g, NEW over, NEW ent, NEW d,
           OpenedBehind(f, c, p, g, over, ent, d), NEW x \in Blocks(g) \ Blocks(f)
    PROVE  /\ over \subseteq {x} /\ d.ent[x] \in {0, p} => EdgeFits(d, p, x)
           /\ FlowsTo(f, c, p, g, d, x)
<1>1. /\ d.dom[p] = c.dom[p]
      /\ d.dom[x] = c.dom[p] \cup over \cup {x}
      /\ d.rank[p] < d.rank[x]
      /\ \A y \in Blocks(f) : c.rank[p] < c.rank[y] => d.rank[x] < d.rank[y]
  BY DEF OpenedBehind, OpenedAt, Refines
<1>2. QED
  BY <1>1 DEF OpenedBehind, EdgeFits, FlowsTo, Replaces

\* The check of a subscript: the code goes on behind the branch.
LEMMA CheckIndexFlows ==
    ASSUME NEW f, Consistent(f), NEW c, Certifies(c, f), NEW b \in Blocks(f),
           NEW i \in Operands, IsValue(f, i)
    PROVE  \E d : FlowsTo(f, c, b, CheckIndex(f, b, i), d, NewestBlock(f) + 2)
<1> DEFINE t == NewestBlock(f) + 1
           v == NextPlace(f, b)
           k == AddInstruction(f, b, Pure("lt", <<i, Literal(0)>>))
           e == NewBlock(NewBlock(k))
           g == CreateCondBr(e, b, v, t, t + 1)
           h == AddInstruction(g, t, Call)
           r == AddInstruction(h, t, Ret(Literal(0)))
           d == Opened(c, b, NewestBlock(k), {}, 0)
<1>1. CheckIndex(f, b, i) = r
  BY DEF CheckIndex
<1>2. Added(f, b, "lt", k)
  BY AddedPlain, LiteralFacts
<1>3. FlowsTo(f, c, b, k, c, b)
  <2>1. Literal(0) \in Operands
    BY LiteralFacts
  <2>2. QED
    BY <2>1, PlainCertified
<1> HIDE DEF k
<1>4. Consistent(k) /\ Blocks(k) = Blocks(f) /\ NewestBlock(k) = NewestBlock(f) /\ Certifies(c, k)
  BY <1>2, <1>3, SameNewest DEF Added, Continues, FlowsTo
<1>5. /\ BlocksAdded(k, e) /\ Consistent(e)
      /\ NewestBlock(f) \in Nat /\ Blocks(f) = 1..NewestBlock(f)
      /\ Blocks(e) = 1..(NewestBlock(f) + 2)
  BY <1>4, TwoMade
<1>6. OpenedBehind(k, c, b, e, {}, 0, d)
  BY <1>4, <1>5, OpenedCertified DEF Consistent
<1> HIDE DEF e, d
<1>7. /\ Extends(f, e) /\ b \in Blocks(e)
      /\ t \in Blocks(e) \ Blocks(f) /\ t + 1 \in Blocks(e) \ Blocks(f) /\ t # t + 1
      /\ Entry \in Blocks(f) /\ t + 1 = NewestBlock(f) + 2
  <2>1. Extends(k, e)
    BY <1>5, <1>6 DEF BlocksAdded, OpenedBehind, Extends
  <2>2. Extends(f, k)
    BY <1>2 DEF Added, Continues
  <2>3. NewestBlock(f) >= 1
    BY <1>5
  <2>4. QED
    BY <1>5, <2>1, <2>2, <2>3, ExtendsTransitive DEF Entry
<1>8. v \in Operands /\ IsValue(e, v)
  <2>1. v \in Operands /\ IsPlace(k, v) /\ Extends(k, e)
    BY <1>2, <1>5, <1>6 DEF Added, BlocksAdded, OpenedBehind, Extends
  <2>2. QED
    BY <2>1, ExtendsPlaces DEF IsValue
<1> HIDE DEF v, t
<1>9. EdgeFits(d, b, t) /\ EdgeFits(d, b, t + 1)
  <2>1. ASSUME NEW x \in Blocks(e) \ Blocks(k)
        PROVE  EdgeFits(d, b, x)
    <3>1. d.ent[x] = 0
      BY <1>6 DEF OpenedBehind, OpenedAt
    <3>2. QED
      BY <1>4, <1>6, <3>1, OpenedFlows
  <2>2. QED
    BY <1>4, <1>7, <2>1
<1>10. FlowsTo(k, c, b, e, d, t + 1)
  BY <1>4, <1>6, <1>7, OpenedFlows
<1>11. Certifies(d, g)
  BY <1>5, <1>7, <1>8, <1>9, <1>10, CondBrCertified DEF FlowsTo
<1>12. Consistent(g) /\ Blocks(g) = Blocks(e)
  BY <1>5, <1>7, <1>8, CondBrBranches DEF BranchedFrom
<1> HIDE DEF g
<1>13. Added(g, t, "call", h)
  BY <1>7, <1>12, AddedPlain
<1>14. Certifies(d, h)
  BY <1>7, <1>11, <1>12, PlainCertified DEF FlowsTo
<1> HIDE DEF h
<1>15. Consistent(h) /\ Blocks(h) = Blocks(e)
  BY <1>12, <1>13 DEF Added, Continues
<1>16. Literal(0) \in Operands /\ IsValue(h, Literal(0))
  BY LiteralFacts
<1>17. Added(h, t, "ret", r)
  BY <1>7, <1>15, <1>16, AddedPlain
<1>18. Certifies(d, r)
  BY <1>7, <1>14, <1>15, <1>16, PlainCertified DEF FlowsTo
<1> HIDE DEF r
<1>19. Blocks(r) = Blocks(e)
  BY <1>15, <1>17 DEF Added
<1>20. FlowsTo(k, c, b, r, d, t + 1)
  BY <1>10, <1>18, <1>19 DEF FlowsTo
<1>21. FlowsTo(f, c, b, r, d, NewestBlock(f) + 2)
  BY <1>3, <1>7, <1>20, FlowsTransitive
<1>22. QED
  BY <1>1, <1>21
-----------------------------------------------------------------------------
\* The storages in the first n scopes dominate the code at q.
HeldIn(c, sc, n, q) ==
    \A k \in 1..n, x \in Name :
        sc[k][x] \notin {Undeclared, Global} => sc[k][x][1] \in c.dom[q]

\* They dominate what the code goes on to as well.
LEMMA HeldLater ==
    ASSUME NEW f, NEW c, NEW b, NEW g, NEW d, NEW e, FlowsTo(f, c, b, g, d, e),
           NEW sc, NEW n, HeldIn(c, sc, n, b)
    PROVE  HeldIn(d, sc, n, e)
BY DEF FlowsTo, Replaces, HeldIn

\* What a name is found to stand for is an entry of one of the scopes.
LEMMA FindEntry ==
    ASSUME NEW f, NEW sc, ScopesFit(f, sc), NEW n \in Name, Find(sc, n) # Undeclared
    PROVE  \E m \in 1..Len(sc) : Find(sc, n) = sc[m][n]
<1> DEFINE declaring == {k \in DOMAIN sc : sc[k][n] # Undeclared}
           m == CHOOSE k \in declaring : \A j \in declaring : j <= k
<1>1. declaring # {} /\ Find(sc, n) = sc[m][n]
  BY DEF Find
<1>2. DOMAIN sc = 1..Len(sc) /\ Len(sc) \in Nat
  BY LenProperties DEF ScopesFit
<1>3. declaring \in SUBSET (1..Len(sc))
  BY <1>2
<1>4. m \in declaring
  <2> HIDE DEF declaring
  <2>1. \E k \in declaring : \A j \in declaring : j <= k
    BY <1>1, <1>2, <1>3, LargestIndex
  <2>2. QED
    BY <2>1 DEF m
<1>5. QED
  BY <1>1, <1>3, <1>4

\* A name that stands for a storage stands for one that the code has passed.
LEMMA FindPassed ==
    ASSUME NEW f, NEW g, ScopesFit(f, scope), Extends(f, g), NEW c, NEW b,
           HeldIn(c, scope, Len(scope), b), NEW e \in Name, Known(e)
    PROVE  Passed(g, c, b, Find(scope, e))
<1>1. Find(scope, e) # Undeclared
  BY DEF Known
<1>2. PICK m \in 1..Len(scope) : Find(scope, e) = scope[m][e]
  BY <1>1, FindEntry
<1>3. IsPlace(g, Find(scope, e))
  BY <1>1, FindFacts, ExtendsPlaces
<1>4. Find(scope, e) # Global => Find(scope, e)[1] \in c.dom[b]
  BY <1>1, <1>2 DEF HeldIn
<1>5. QED
  BY <1>3, <1>4 DEF Passed, IsPlace

\* From r's function and block the code goes on to v's, d certifies it.
Goes(r, c, v, d) == FlowsTo(r.f, c, r.at, v.f, d, v.at)

\* The code of an element's address, which the code behind it has passed.
LEMMA ElementFlows ==
    ASSUME NEW f, NEW b, NEW r, Evaluated(f, b, r), NEW c, Certifies(c, r.f)
    PROVE  \E d : /\ Goes(r, c, Element(r), d)
                  /\ Passed(Element(r).f, d, Element(r).at, Element(r).val)
<1> DEFINE g == CheckIndex(r.f, r.at, Literal(1))
           a == NewestBlock(g)
           h == AddInstruction(g, a, Pure("gep", <<Global, Literal(1)>>))
           s == NextPlace(g, a)
<1>1. Element(r) = [f |-> h, at |-> a, val |-> s]
  BY DEF Element, AddressOf
<1>2. Literal(1) \in Operands /\ \A u : IsValue(u, Literal(1))
  BY LiteralFacts
<1>3. Consistent(r.f) /\ r.at \in Blocks(r.f)
  BY DEF Evaluated, Continues
<1>4. Continues(r.f, r.at, g, a) /\ a = NewestBlock(r.f) + 2
  BY <1>2, <1>3, CheckIndexContinues
<1>5. PICK d : FlowsTo(r.f, c, r.at, g, d, a)
  BY <1>2, <1>3, <1>4, CheckIndexFlows
<1> HIDE DEF g
<1>6. Consistent(g) /\ a \in Blocks(g)
  BY <1>4 DEF Continues
<1>7. Global \in Operands /\ \A u : IsValue(u, Global)
  BY DEF Global, Operands, IsValue, IsPlace
<1> HIDE DEF a
<1>8. Added(g, a, "gep", h)
  BY <1>2, <1>6, <1>7, AddedPlain
<1>9. FlowsTo(g, d, a, h, d, a)
  BY <1>2, <1>5, <1>6, <1>7, PlainCertified DEF FlowsTo
<1>10. Consistent(h) /\ a \in Blocks(h) /\ IsPlace(h, s) /\ s[1] = a
  BY <1>6, <1>8 DEF Added, Continues, NextPlace
<1> HIDE DEF h, s
<1>11. Passed(h, d, a, s)
  <2>1. a \in d.dom[a]
    BY <1>9, <1>10 DEF FlowsTo, Certifies, BlockFits
  <2>2. QED
    BY <1>10, <2>1 DEF Passed, IsPlace
<1>12. FlowsTo(r.f, c, r.at, h, d, a)
  BY <1>5, <1>9, FlowsTransitive
<1>13. QED
  BY <1>1, <1>11, <1>12 DEF Goes

\* The code of a term.
LEMMA TermFlows ==
    ASSUME NEW f, NEW b, NEW r, Evaluated(f, b, r), ScopesFit(f, scope),
           NEW e \in {"0", "1", "call", "index"} \cup Name, Known(e),
           NEW c, Certifies(c, r.f), HeldIn(c, scope, Len(scope), r.at)
    PROVE  \E d : Goes(r, c, Term(r, e), d)
<1> DEFINE v == Term(r, e)
           p == NextPlace(r.f, r.at)
<1>1. Consistent(r.f) /\ r.at \in Blocks(r.f) /\ Extends(f, r.f)
  BY DEF Evaluated, Continues
<1>2. CASE e \in {"0", "1"}
  <2>1. v.f = r.f /\ v.at = r.at
    BY <1>2 DEF Term, Evaluated
  <2>2. QED
    BY <1>1, <2>1, FlowsReflexive DEF Goes
<1>3. CASE e = "call"
  <2> DEFINE g == AddInstruction(r.f, r.at, Call)
  <2>1. v = [f |-> g, at |-> r.at, val |-> p]
    BY <1>3 DEF Term, Evaluated
  <2>2. FlowsTo(r.f, c, r.at, g, c, r.at)
    BY <1>1, PlainCertified
  <2> HIDE DEF g, p
  <2>3. QED
    BY <2>1, <2>2 DEF Goes
<1>4. CASE e = "index"
  <2> DEFINE a == Element(r)
             k == AddInstruction(a.f, a.at, Load(a.val))
             z == NextPlace(a.f, a.at)
  <2>1. v = [f |-> k, at |-> a.at, val |-> z]
    BY <1>4 DEF Term, LoadedFrom
  <2>2. PICK d : Goes(r, c, a, d) /\ Passed(a.f, d, a.at, a.val)
    BY ElementFlows
  <2>3. Evaluated(f, b, a)
    BY ElementEvaluated
  <2> HIDE DEF a
  <2>4. Consistent(a.f) /\ a.at \in Blocks(a.f) /\ a.val \in Operands
    BY <2>3 DEF Evaluated, Continues
  <2>5. FlowsTo(a.f, d, a.at, k, d, a.at)
    BY <2>2, <2>4, AccessCertified DEF Goes, FlowsTo
  <2> HIDE DEF k, z
  <2>6. FlowsTo(r.f, c, r.at, k, d, a.at)
    BY <2>2, <2>5, FlowsTransitive DEF Goes
  <2>7. QED
    BY <2>1, <2>6 DEF Goes
<1>5. CASE e \notin {"0", "1", "call", "index"}
  <2> DEFINE s == Find(scope, e)
             g == AddInstruction(r.f, r.at, Load(s))
  <2>1. v = [f |-> g, at |-> r.at, val |-> p]
    BY <1>5 DEF Term, Evaluated
  <2>2. Passed(r.f, c, r.at, s)
    BY <1>1, <1>5, FindPassed
  <2>3. s \in Operands
    BY <1>5, FindFacts DEF Known
  <2> HIDE DEF s
  <2>4. FlowsTo(r.f, c, r.at, g, c, r.at)
    BY <1>1, <2>2, <2>3, AccessCertified
  <2> HIDE DEF g, p
  <2>5. QED
    BY <2>1, <2>4 DEF Goes
<1>6. QED
  BY <1>2, <1>3, <1>4, <1>5

\* The code of a second operand and of the addition.
LEMMA AddTermFlows ==
    ASSUME NEW f, NEW b, NEW r, Evaluated(f, b, r), ScopesFit(f, scope),
           NEW e \in {"0", "1", "call", "index"} \cup Name, Known(e),
           NEW c, Certifies(c, r.f), HeldIn(c, scope, Len(scope), r.at)
    PROVE  \E d : Goes(r, c, AddTerm(r, e), d)
<1> DEFINE q == Term(r, e)
           g == AddInstruction(q.f, q.at, Pure("add", <<r.val, q.val>>))
           p == NextPlace(q.f, q.at)
<1>1. PICK d : Goes(r, c, q, d)
  BY TermFlows
<1>2. Evaluated(f, b, q)
  BY TermEvaluated
<1>3. AddTerm(r, e) = [q EXCEPT !.f = g, !.val = p]
  BY DEF AddTerm
<1> HIDE DEF q
<1>4. AddTerm(r, e) = [f |-> g, at |-> q.at, val |-> p]
  <2> HIDE DEF g, p
  <2>1. QED
    BY <1>2, <1>3 DEF Evaluated
<1>5. Consistent(q.f) /\ q.at \in Blocks(q.f) /\ r.val \in Operands /\ q.val \in Operands
  BY <1>2 DEF Evaluated, Continues
<1>6. FlowsTo(q.f, d, q.at, g, d, q.at)
  BY <1>1, <1>5, PlainCertified DEF Goes, FlowsTo
<1> HIDE DEF g, p
<1>7. FlowsTo(r.f, c, r.at, g, d, q.at)
  BY <1>1, <1>6, FlowsTransitive DEF Goes
<1>8. QED
  BY <1>4, <1>7 DEF Goes

\* The code of an expression whose names are all declared.
LEMMA EvalFlows ==
    ASSUME NEW f, Consistent(f), NEW b \in Blocks(f), ScopesFit(f, scope),
           NEW e \in Expr, Declared(e),
           NEW c, Certifies(c, f), HeldIn(c, scope, Len(scope), b)
    PROVE  LET v == Eval(f, b, e) IN \E d : FlowsTo(f, c, b, v.f, d, v.at)
<1> DEFINE r0 == [f |-> f, at |-> b, val |-> Literal(0)]
           r == Term(r0, e[1])
           terms == {"0", "1", "call", "index"} \cup Name
<1>1. e \in Seq(terms) /\ Len(e) \in {1, 2}
  BY CminusfBuilderAssumption
<1>2. ASSUME NEW k \in 1..Len(e)
      PROVE  e[k] \in terms /\ Known(e[k])
  <2>1. e[k] \in terms /\ k \in DOMAIN e
    <3> HIDE DEF terms
    <3>1. QED
      BY <1>1, ElementOfSeq, LenProperties
  <2>2. e[k] \in ToSet(e)
    BY <2>1 DEF ToSet
  <2>3. QED
    BY <2>1, <2>2 DEF Known, Declared
<1>3. Evaluated(f, b, r0) /\ r0.f = f /\ r0.at = b
  BY ContinuesReflexive, LiteralFacts DEF Evaluated
<1> HIDE DEF r0
<1>4. e[1] \in terms /\ Known(e[1])
  <2>1. Len(e) = 1 \/ Len(e) = 2
    BY <1>1, Zenon
  <2>2. 1 \in 1..Len(e)
    BY <2>1
  <2>3. QED
    BY <1>2, <2>2
<1>5. Evaluated(f, b, r)
  BY <1>3, <1>4, TermEvaluated
<1>6. PICK d : Goes(r0, c, r, d)
  BY <1>3, <1>4, TermFlows
<1> HIDE DEF r
<1>7. FlowsTo(f, c, b, r.f, d, r.at)
  BY <1>3, <1>6 DEF Goes
<1>8. CASE Len(e) = 1
  BY <1>7, <1>8 DEF Eval, r, r0
<1>9. CASE Len(e) = 2
  <2>1. e[2] \in terms /\ Known(e[2])
    <3>1. 2 \in 1..Len(e)
      BY <1>9
    <3>2. QED
      BY <1>2, <3>1
  <2>2. Certifies(d, r.f) /\ HeldIn(d, scope, Len(scope), r.at)
    BY <1>7, HeldLater DEF FlowsTo
  <2>3. PICK m : Goes(r, d, AddTerm(r, e[2]), m)
    BY <1>5, <2>1, <2>2, AddTermFlows
  <2>4. Goes(r0, c, AddTerm(r, e[2]), m)
    BY <1>6, <2>3, FlowsTransitive DEF Goes
  <2>5. Eval(f, b, e) = AddTerm(r, e[2])
    BY <1>9 DEF Eval, r, r0
  <2>6. QED
    BY <1>3, <2>4, <2>5 DEF Goes
<1>10. QED
  BY <1>1, <1>8, <1>9
-----------------------------------------------------------------------------
\* A block that was there stays where it is while code grows behind another.
LEMMA FlowsElsewhere ==
    ASSUME NEW f, NEW c, NEW b, NEW g, NEW d, NEW e, FlowsTo(f, c, b, g, d, e),
           NEW x \in Blocks(f)
    PROVE  FlowsTo(f, c, x, g, d, x)
BY DEF FlowsTo, Refines, Replaces

\* The comparison and the branch on a value that was evaluated.
LEMMA BranchCertified ==
    ASSUME NEW v, v = [f |-> v.f, at |-> v.at, val |-> v.val],
           Consistent(v.f), v.at \in Blocks(v.f),
           v.val \in Operands, IsValue(v.f, v.val),
           NEW t \in Blocks(v.f) \ {Entry}, NEW e \in Blocks(v.f) \ {Entry}, t # e,
           NEW c, Certifies(c, v.f), EdgeFits(c, v.at, t), EdgeFits(c, v.at, e)
    PROVE  Certifies(c, Branch(v, t, e))
<1> DEFINE k == AddInstruction(v.f, v.at, Pure("ne", <<v.val, Literal(0)>>))
           p == NextPlace(v.f, v.at)
<1>1. Literal(0) \in Operands /\ IsValue(v.f, Literal(0))
  BY LiteralFacts
<1>2. Added(v.f, v.at, "ne", k)
  BY <1>1, AddedPlain
<1>3. Certifies(c, k)
  BY <1>1, PlainCertified DEF FlowsTo
<1>4. Branch(v, t, e) = CreateCondBr(k, v.at, p, t, e)
  BY DEF Branch
<1> HIDE DEF k, p
<1>5. /\ Consistent(k) /\ v.at \in Blocks(k) /\ Blocks(k) = Blocks(v.f)
      /\ p \in Operands /\ IsValue(k, p)
  BY <1>2 DEF Added, Continues, IsValue, p
<1>6. QED
  BY <1>3, <1>4, <1>5, CondBrCertified

-----------------------------------------------------------------------------
\* The branches that the visit of frame will make fit from the code at q.
Admits(c, frame, q) ==
    /\ frame.kind \in {"then", "else"} =>
          /\ c.dom[frame.next] \ {frame.next} \subseteq c.dom[q]
          /\ c.rank[q] < c.rank[frame.next]
    /\ frame.kind = "body" => c.dom[frame.at] \subseteq c.dom[q]

\* The code at q fits the first m pending visits and the first n scopes.
Stands(c, stk, sc, m, n, q) ==
    /\ \A i \in 1..m : Admits(c, stk[i], q)
    /\ HeldIn(c, sc, n, q)

\* The blocks where the visit j goes on fit the visits below it and the scopes
\* that will then be open.
FramePlaced(c, stk, sc, depth, j) ==
    /\ \A q \in Awaits(stk[j]) : c.ent[q] = 0 /\ Stands(c, stk, sc, j - 1, depth[j], q)
    /\ stk[j].kind = "then" => Admits(c, stk[j], stk[j].at)
    /\ stk[j].kind = "body" => c.ent[stk[j].at] # 0

\* The scopes that a visit opens for what is inside.
Opening(frame) == IF frame.kind = "compound" /\ frame.flag THEN 1 ELSE 0

\* depth[k] scopes are open while the visit k is the innermost, n now.
DepthFits(depth, stk, n) ==
    /\ depth \in [Nat -> Nat]
    /\ \A k \in 1..Len(stk) : depth[k] >= 2
    /\ \A k \in 1..Len(stk) : \A j \in 1..k : depth[j] <= depth[k]
    /\ \A k \in 2..Len(stk) : depth[k] = depth[k - 1] + Opening(stk[k])
    /\ depth[Len(stk)] = n

FramesPlaced(c, stk, sc, depth) == \A j \in DOMAIN stk : FramePlaced(c, stk, sc, depth, j)

StackPlaced(c, stk, sc, depth, q) ==
    /\ DepthFits(depth, stk, Len(sc))
    /\ FramesPlaced(c, stk, sc, depth)
    /\ Stands(c, stk, sc, Len(stk), Len(sc), q)

\* The inductive invariant about the flow of control.
FlowInv(c, depth) ==
    /\ Certifies(c, func)
    /\ ctl # "global" => StackPlaced(c, stack, scope, depth, insert)

FInv == \E c, depth : FlowInv(c, depth)

\* What a visit expects of a block outlasts the growth of the function.
LEMMA AdmitsLater ==
    ASSUME NEW f, NEW c, NEW b, NEW g, NEW d, NEW e, FlowsTo(f, c, b, g, d, e),
           NEW frame, FrameFits(f, frame), Admits(c, frame, b)
    PROVE  Admits(d, frame, e)
<1>1. frame.kind \in {"then", "else"} => frame.next \in Blocks(f)
  BY DEF FrameFits, Awaits
<1>2. frame.kind = "body" => frame.at \in Blocks(f)
  BY DEF FrameFits
<1>3. ASSUME frame.kind \in {"then", "else"}
      PROVE  /\ d.dom[frame.next] \ {frame.next} \subseteq d.dom[e]
             /\ d.rank[e] < d.rank[frame.next]
  BY <1>1, <1>3 DEF FlowsTo, Refines, Replaces, Admits
<1>4. ASSUME frame.kind = "body"
      PROVE  d.dom[frame.at] \subseteq d.dom[e]
  BY <1>2, <1>4 DEF FlowsTo, Refines, Replaces, Admits
<1>5. QED
  BY <1>3, <1>4 DEF Admits

\* So does all that the stack expects of it.
LEMMA StandsLater ==
    ASSUME NEW f, NEW c, NEW b, NEW g, NEW d, NEW e, FlowsTo(f, c, b, g, d, e),
           NEW stk, StackFits(f, stk), NEW sc, NEW m \in Nat, m <= Len(stk), NEW n,
           Stands(c, stk, sc, m, n, b)
    PROVE  Stands(d, stk, sc, m, n, e)
<1>1. DOMAIN stk = 1..Len(stk) /\ Len(stk) \in Nat
  BY LenProperties DEF StackFits
<1>2. ASSUME NEW i \in 1..m
      PROVE  Admits(d, stk[i], e)
  <2>1. i \in DOMAIN stk
    BY <1>1
  <2>2. FrameFits(f, stk[i]) /\ Admits(c, stk[i], b)
    BY <2>1 DEF StackFits, Stands
  <2>3. QED
    BY <2>2, AdmitsLater
<1>3. HeldIn(d, sc, n, e)
  BY HeldLater DEF Stands
<1>4. QED
  BY <1>2, <1>3 DEF Stands

\* The pending visits keep their places while the function grows.
LEMMA FramesLater ==
    ASSUME NEW f, NEW c, NEW b, NEW g, NEW d, NEW e, FlowsTo(f, c, b, g, d, e),
           NEW stk, StackFits(f, stk), NEW sc, NEW depth, FramesPlaced(c, stk, sc, depth)
    PROVE  FramesPlaced(d, stk, sc, depth)
<1>1. DOMAIN stk = 1..Len(stk) /\ Len(stk) \in Nat
  BY LenProperties DEF StackFits
<1>2. ASSUME NEW j \in DOMAIN stk
      PROVE  FramePlaced(d, stk, sc, depth, j)
  <2>1. FrameFits(f, stk[j]) /\ FramePlaced(c, stk, sc, depth, j)
    BY DEF StackFits, FramesPlaced
  <2>2. j - 1 \in Nat /\ j - 1 <= Len(stk)
    BY <1>1
  <2>3. ASSUME NEW q \in Awaits(stk[j])
        PROVE  d.ent[q] = 0 /\ Stands(d, stk, sc, j - 1, depth[j], q)
    <3>1. q \in Blocks(f)
      BY <2>1 DEF FrameFits
    <3>2. FlowsTo(f, c, q, g, d, q)
      BY <3>1, FlowsElsewhere
    <3>3. c.ent[q] = 0 /\ Stands(c, stk, sc, j - 1, depth[j], q)
      BY <2>1 DEF FramePlaced
    <3>4. d.ent[q] = 0
      BY <3>1, <3>3 DEF FlowsTo, Refines
    <3>5. QED
      BY <2>2, <3>2, <3>3, <3>4, StandsLater
  <2>4. ASSUME stk[j].kind = "then"
        PROVE  Admits(d, stk[j], stk[j].at)
    <3>1. stk[j].at \in Blocks(f)
      BY <2>1, <2>4 DEF FrameFits, Awaits
    <3>2. FlowsTo(f, c, stk[j].at, g, d, stk[j].at)
      BY <3>1, FlowsElsewhere
    <3>3. Admits(c, stk[j], stk[j].at)
      BY <2>1, <2>4 DEF FramePlaced
    <3>4. QED
      BY <2>1, <3>2, <3>3, AdmitsLater
  <2>5. ASSUME stk[j].kind = "body"
        PROVE  d.ent[stk[j].at] # 0
    BY <2>1, <2>5 DEF FrameFits, FramePlaced, FlowsTo, Refines
  <2>6. QED
    BY <2>3, <2>4, <2>5 DEF FramePlaced
<1>3. QED
  BY <1>2 DEF FramesPlaced

\* A visit stands by what is below it on the stack and by the outer scopes.
LEMMA FrameStays ==
    ASSUME NEW c, NEW stk, NEW sc, NEW depth, NEW new, NEW table, NEW deep,
           NEW j \in Nat, FramePlaced(c, stk, sc, depth, j),
           \A i \in 1..j : new[i] = stk[i], deep[j] = depth[j], j >= 1,
           Awaits(stk[j]) # {} => \A k \in 1..depth[j] : table[k] = sc[k]
    PROVE  FramePlaced(c, new, table, deep, j)
<1>1. new[j] = stk[j] /\ \A i \in 1..(j - 1) : new[i] = stk[i]
  OBVIOUS
<1>2. ASSUME NEW q \in Awaits(stk[j])
      PROVE  Stands(c, new, table, j - 1, deep[j], q)
  BY <1>1, <1>2 DEF FramePlaced, Stands, HeldIn
<1>3. QED
  BY <1>1, <1>2 DEF FramePlaced

\* One more visit on the stack.
LEMMA DepthPushed ==
    ASSUME NEW rest, NEW frame, NEW stk, OnTop(rest, frame, stk), rest # << >>,
           NEW depth, NEW n \in Nat, DepthFits(depth, rest, n), NEW m \in Nat,
           m = n + Opening(frame)
    PROVE  LET deep == [depth EXCEPT ![Len(stk)] = m]
           IN  DepthFits(deep, stk, m) /\ \A k \in DOMAIN rest : deep[k] = depth[k]
<1> DEFINE deep == [depth EXCEPT ![Len(stk)] = m]
           l == Len(rest)
<1>1. /\ l \in Nat /\ l >= 1 /\ DOMAIN rest = 1..l /\ Len(stk) = l + 1
      /\ \A k \in 1..l : stk[k] = rest[k]
      /\ stk[l + 1] = frame
  <2>1. Len(rest) # 0
    BY EmptySeq DEF OnTop
  <2>2. QED
    BY <2>1 DEF OnTop
<1>2. /\ depth \in [Nat -> Nat] /\ depth[l] = n
      /\ \A k \in 1..l : depth[k] >= 2
      /\ \A k \in 1..l : \A j \in 1..k : depth[j] <= depth[k]
      /\ \A k \in 2..l : depth[k] = depth[k - 1] + Opening(rest[k])
  BY DEF DepthFits
<1> HIDE DEF l
<1>3. /\ deep \in [Nat -> Nat] /\ deep[l + 1] = m
      /\ \A k \in 1..l : deep[k] = depth[k]
  <2>1. l + 1 \in Nat /\ deep = [depth EXCEPT ![l + 1] = m]
    BY <1>1
  <2> HIDE DEF deep
  <2>2. deep \in [Nat -> Nat] /\ \A k \in Nat : deep[k] = IF k = l + 1 THEN m ELSE depth[k]
    BY <1>2, <2>1
  <2>3. \A k \in 1..l : k \in Nat /\ k # l + 1
    BY <1>1
  <2>4. QED
    BY <2>1, <2>2, <2>3
<1> HIDE DEF deep
<1>4. Opening(frame) \in {0, 1} /\ n <= m /\ n >= 2
  <2>1. Opening(frame) \in {0, 1}
    BY DEF Opening
  <2>2. l \in 1..l
    BY <1>1
  <2>3. n >= 2
    BY <1>2, <2>2
  <2>4. QED
    BY <2>1, <2>3
<1>5. \A k \in 1..(l + 1) : deep[k] >= 2
  <2>1. \A k \in 1..l : deep[k] >= 2
    BY <1>2, <1>3
  <2>2. deep[l + 1] >= 2
    BY <1>3, <1>4
  <2>3. QED
    BY <1>1, <2>1, <2>2
<1>6. ASSUME NEW k \in 1..(l + 1), NEW j \in 1..k
      PROVE  deep[j] <= deep[k]
  <2>1. CASE k \in 1..l
    <3>1. j \in 1..l
      BY <1>1, <2>1
    <3>2. depth[j] <= depth[k]
      BY <1>2, <2>1
    <3>3. QED
      BY <1>3, <2>1, <3>1, <3>2
  <2>2. CASE k = l + 1 /\ j \in 1..l
    <3>1. l \in 1..l /\ j \in 1..l
      BY <1>1, <2>2
    <3>2. depth[j] <= depth[l]
      BY <1>2, <3>1
    <3>3. depth[j] \in Nat /\ deep[j] = depth[j] /\ deep[k] = m
      BY <1>2, <1>3, <2>2
    <3>4. QED
      BY <1>2, <1>4, <3>2, <3>3
  <2>3. CASE k = l + 1 /\ j = l + 1
    BY <1>3, <2>3
  <2>4. QED
    BY <1>1, <2>1, <2>2, <2>3
<1>7. ASSUME NEW k \in 2..(l + 1)
      PROVE  deep[k] = deep[k - 1] + Opening(stk[k])
  <2>1. CASE k \in 2..l
    <3>1. k \in 1..l /\ k - 1 \in 1..l
      BY <1>1, <2>1
    <3>2. depth[k] = depth[k - 1] + Opening(rest[k]) /\ rest[k] = stk[k]
      BY <1>1, <1>2, <2>1, <3>1
    <3>3. deep[k] = depth[k] /\ deep[k - 1] = depth[k - 1]
      BY <1>3, <3>1
    <3>4. QED
      BY <3>2, <3>3
  <2>2. CASE k = l + 1
    <3>1. k - 1 = l /\ l \in 1..l
      BY <1>1, <2>2
    <3>2. deep[k - 1] = n
      BY <1>2, <1>3, <3>1
    <3>3. QED
      BY <1>1, <1>3, <2>2, <3>2
  <2>3. QED
    BY <1>1, <2>1, <2>2
<1>8. DepthFits(deep, stk, m)
  BY <1>1, <1>3, <1>5, <1>6, <1>7 DEF DepthFits
<1>9. \A k \in DOMAIN rest : deep[k] = depth[k]
  BY <1>3 DEF OnTop, l
<1>10. QED
  BY <1>8, <1>9 DEF deep

\* One visit less.
LEMMA DepthPopped ==
    ASSUME NEW rest, NEW frame, NEW stk, OnTop(rest, frame, stk), rest # << >>,
           NEW depth, NEW n, DepthFits(depth, stk, n)
    PROVE  \E m \in Nat : /\ DepthFits(depth, rest, m) /\ n = m + Opening(frame)
                          /\ m >= 2
                          /\ \A k \in DOMAIN rest : depth[k] <= m /\ depth[k] \in Nat
<1> DEFINE l == Len(rest)
<1>1. /\ l \in Nat /\ l >= 1 /\ DOMAIN rest = 1..l /\ Len(stk) = l + 1
      /\ \A k \in 1..l : stk[k] = rest[k]
      /\ stk[l + 1] = frame
  <2>1. Len(rest) # 0
    BY EmptySeq DEF OnTop
  <2>2. QED
    BY <2>1 DEF OnTop
<1>2. /\ depth \in [Nat -> Nat] /\ depth[Len(stk)] = n
      /\ \A k \in 1..Len(stk) : depth[k] >= 2
      /\ \A k \in 1..Len(stk) : \A j \in 1..k : depth[j] <= depth[k]
      /\ \A k \in 2..Len(stk) : depth[k] = depth[k - 1] + Opening(stk[k])
  BY DEF DepthFits
<1> HIDE DEF l
<1>3. n = depth[l] + Opening(frame)
  <2> DEFINE p == Len(stk)
  <2>1. p \in 2..Len(stk) /\ p - 1 = l /\ stk[p] = frame
    BY <1>1
  <2>2. depth[p] = depth[p - 1] + Opening(stk[p])
    BY <1>2, <2>1, Zenon
  <2>3. QED
    BY <1>2, <2>1, <2>2
<1>4. /\ \A k \in 1..l : depth[k] >= 2
      /\ \A k \in 1..l : \A j \in 1..k : depth[j] <= depth[k]
  <2>1. \A k \in 1..l : k \in 1..Len(stk)
    BY <1>1
  <2>2. QED
    BY <1>2, <2>1
<1>5. \A k \in 2..l : depth[k] = depth[k - 1] + Opening(rest[k])
  <2>1. \A k \in 2..l : k \in 2..Len(stk) /\ k \in 1..l
    BY <1>1
  <2>2. QED
    BY <1>1, <1>2, <2>1
<1>6. DepthFits(depth, rest, depth[l])
  BY <1>2, <1>4, <1>5 DEF DepthFits, l
<1>7. depth[l] \in Nat /\ depth[l] >= 2 /\ \A k \in 1..l : depth[k] <= depth[l] /\ depth[k] \in Nat
  <2>1. l \in 1..l /\ l \in Nat
    BY <1>1
  <2>2. depth[l] \in Nat /\ depth[l] >= 2
    BY <1>2, <1>4, <2>1
  <2>3. \A k \in 1..l : depth[k] <= depth[l]
    BY <1>4, <2>1
  <2>4. \A k \in 1..l : depth[k] \in Nat
    BY <1>2
  <2>5. QED
    BY <2>2, <2>3, <2>4
<1>8. QED
  BY <1>1, <1>3, <1>6, <1>7
-----------------------------------------------------------------------------
\* Before the first function there is no flow.
LEMMA InitFInv == Init => FInv
<1> SUFFICES ASSUME Init
             PROVE  FInv
  OBVIOUS
<1> DEFINE c == [dom |-> [x \in Nat |-> {}], rank |-> [x \in Nat |-> 0],
                 ent |-> [x \in Nat |-> 0]]
<1>1. c \in Certificates /\ c.dom[Entry] \subseteq {Entry}
  BY DEF Certificates, Entry
<1> HIDE DEF c
<1>2. Certifies(c, func)
  BY <1>1, EmptyConsistent DEF Init, Certifies
<1>3. ctl = "global"
  BY DEF Init
<1>4. FlowInv(c, c)
  BY <1>2, <1>3 DEF FlowInv
<1>5. QED
  BY <1>4 DEF FInv

\* Inside a function: the certificate of its flow and what the frames say.
LEMMA FlowFacts ==
    ASSUME IInv, FInv, ctl # "global"
    PROVE  \E c, depth : /\ Certifies(c, func)
                         /\ DepthFits(depth, stack, Len(scope))
                         /\ FramesPlaced(c, stack, scope, depth)
                         /\ Stands(c, stack, scope, Len(stack), Len(scope), insert)
BY DEF FInv, FlowInv, StackPlaced

\* A statement whose code goes on fits the pending visits where it has come to.
LEMMA StatementFlows ==
    ASSUME IInv, FInv, AtStatement, UNCHANGED <<stack, scope>>,
           \A c : Certifies(c, func) /\ HeldIn(c, scope, Len(scope), insert) =>
                      \E d : FlowsTo(func, c, insert, func', d, insert')
    PROVE  FInv'
<1>1. ctl # "global" /\ StackFits(func, stack)
  BY StatementFacts DEF AtStatement
<1>2. PICK c, depth : /\ Certifies(c, func)
                      /\ DepthFits(depth, stack, Len(scope))
                      /\ FramesPlaced(c, stack, scope, depth)
                      /\ Stands(c, stack, scope, Len(stack), Len(scope), insert)
  BY <1>1, FlowFacts
<1>3. PICK d : FlowsTo(func, c, insert, func', d, insert')
  BY <1>2 DEF Stands
<1>4. FramesPlaced(d, stack, scope, depth)
  BY <1>1, <1>2, <1>3, FramesLater
<1>5. Stands(d, stack, scope, Len(stack), Len(scope), insert')
  <2>1. Len(stack) \in Nat /\ Len(stack) <= Len(stack)
    BY <1>1, LenProperties DEF StackFits
  <2>2. QED
    BY <1>1, <1>2, <1>3, <2>1, StandsLater
<1>6. FlowInv(d, depth)'
  BY <1>2, <1>3, <1>4, <1>5 DEF FlowInv, StackPlaced, FlowsTo
<1>7. QED
  BY <1>6 DEF FInv

\* visit(ASTExpressionStmt).
LEMMA ExpressionStmtFInv ==
    ASSUME IInv, FInv, NEW e \in Expr, ExpressionStmt(e)
    PROVE  FInv'
<1> DEFINE v == Eval(func, insert, e)
<1>1. AtStatement /\ Declared(e) /\ UNCHANGED <<stack, scope>>
  BY DEF ExpressionStmt
<1>2. func' = v.f /\ insert' = v.at
  BY DEF ExpressionStmt
<1>3. ASSUME NEW c, Certifies(c, func), HeldIn(c, scope, Len(scope), insert)
      PROVE  \E d : FlowsTo(func, c, insert, v.f, d, v.at)
  BY <1>1, <1>3, StatementFacts, EvalFlows
<1>4. QED
  BY <1>1, <1>2, <1>3, StatementFlows

\* visit(ASTAssignExpression) to a scalar.
LEMMA AssignStmtFInv ==
    ASSUME IInv, FInv, NEW n \in Name, NEW e \in Expr, AssignStmt(n, e)
    PROVE  FInv'
<1> DEFINE v == Eval(func, insert, e)
           s == Find(scope, n)
           g == AddInstruction(v.f, v.at, Store(s, v.val))
<1>1. AtStatement /\ Declared(<<n>>) /\ Declared(e) /\ UNCHANGED <<stack, scope>>
  BY DEF AssignStmt
<1>2. func' = g /\ insert' = v.at
  BY DEF AssignStmt
<1>3. Known(n)
  <2>1. n \in ToSet(<<n>>)
    <3>1. <<n>>[1] = n /\ 1 \in DOMAIN <<n>>
      OBVIOUS
    <3>2. QED
      BY <3>1 DEF ToSet
  <2>2. QED
    BY <1>1, <2>1 DEF Declared, Known
<1>4. Evaluated(func, insert, v)
  BY <1>1, StatementFacts, EvalEvaluated
<1>5. ASSUME NEW c, Certifies(c, func), HeldIn(c, scope, Len(scope), insert)
      PROVE  \E d : FlowsTo(func, c, insert, g, d, v.at)
  <2>1. PICK d : FlowsTo(func, c, insert, v.f, d, v.at)
    BY <1>1, <1>5, StatementFacts, EvalFlows
  <2> HIDE DEF v
  <2>2. HeldIn(d, scope, Len(scope), v.at)
    BY <1>5, <2>1, HeldLater
  <2>3. Consistent(v.f) /\ v.at \in Blocks(v.f) /\ v.val \in Operands /\ Extends(func, v.f)
    BY <1>4 DEF Evaluated, Continues
  <2>4. s \in Operands /\ Passed(v.f, d, v.at, s)
    BY <1>1, <1>3, <2>2, <2>3, StatementFacts, FindFacts, FindPassed DEF Known
  <2> HIDE DEF s
  <2>5. FlowsTo(v.f, d, v.at, g, d, v.at)
    BY <2>1, <2>3, <2>4, AccessCertified DEF FlowsTo
  <2> HIDE DEF g
  <2>6. QED
    BY <2>1, <2>5, FlowsTransitive
<1> HIDE DEF g
<1>6. QED
  BY <1>1, <1>2, <1>5, StatementFlows

\* visit(ASTAssignExpression) to an element.
LEMMA AssignElementFInv ==
    ASSUME IInv, FInv, NEW e \in Expr, AssignElement(e)
    PROVE  FInv'
<1> DEFINE r0 == [f |-> func, at |-> insert, val |-> Literal(0)]
           a == Element(r0)
           v == Eval(a.f, a.at, e)
           g == AddInstruction(v.f, v.at, Store(a.val, v.val))
<1>1. AtStatement /\ Declared(e) /\ UNCHANGED <<stack, scope>>
  BY DEF AssignElement
<1>2. func' = g /\ insert' = v.at
  BY DEF AssignElement
<1>3. Evaluated(func, insert, r0) /\ r0.f = func /\ r0.at = insert
  BY <1>1, StatementFacts, ContinuesReflexive, LiteralFacts DEF Evaluated
<1> HIDE DEF r0
<1>4. Evaluated(func, insert, a) /\ IsPlace(a.f, a.val)
  BY <1>3, ElementEvaluated
<1>5. ASSUME NEW c, Certifies(c, func), HeldIn(c, scope, Len(scope), insert)
      PROVE  \E d : FlowsTo(func, c, insert, g, d, v.at)
  <2>1. PICK d : Goes(r0, c, a, d) /\ Passed(a.f, d, a.at, a.val)
    BY <1>3, <1>5, ElementFlows
  <2> HIDE DEF a
  <2>2. FlowsTo(func, c, insert, a.f, d, a.at)
    BY <1>3, <2>1 DEF Goes
  <2>3. /\ Consistent(a.f) /\ a.at \in Blocks(a.f) /\ ScopesFit(a.f, scope)
        /\ a.val \in Operands
    BY <1>1, <1>4, StatementFacts, ScopesFitLater DEF Evaluated, Continues
  <2>4. HeldIn(d, scope, Len(scope), a.at)
    BY <1>5, <2>2, HeldLater
  <2>5. Evaluated(a.f, a.at, v)
    BY <1>1, <2>3, EvalEvaluated
  <2>6. PICK m : FlowsTo(a.f, d, a.at, v.f, m, v.at)
    BY <1>1, <2>2, <2>3, <2>4, EvalFlows DEF FlowsTo
  <2> HIDE DEF v
  <2>7. Consistent(v.f) /\ v.at \in Blocks(v.f) /\ v.val \in Operands /\ Extends(a.f, v.f)
    BY <2>5 DEF Evaluated, Continues
  <2>8. Passed(v.f, m, v.at, a.val)
    <3>1. a.val # Global => a.val[1] \in m.dom[v.at]
      BY <2>1, <2>6 DEF Passed, FlowsTo, Replaces
    <3>2. IsPlace(v.f, a.val)
      BY <1>4, <2>3, <2>7, ExtendsPlaces
    <3>3. QED
      BY <3>1, <3>2 DEF Passed, IsPlace
  <2>9. FlowsTo(v.f, m, v.at, g, m, v.at)
    BY <2>3, <2>6, <2>7, <2>8, AccessCertified DEF FlowsTo
  <2> HIDE DEF g
  <2>10. FlowsTo(func, c, insert, v.f, m, v.at)
    BY <2>2, <2>6, FlowsTransitive
  <2>11. QED
    BY <2>9, <2>10, FlowsTransitive
<1> HIDE DEF g
<1>6. QED
  BY <1>1, <1>2, <1>5, StatementFlows

\* visit(ASTReturnStmt).
LEMMA ReturnStmtFInv ==
    ASSUME IInv, FInv, NEW e \in Expr, ReturnStmt(e)
    PROVE  FInv'
<1> DEFINE v == Eval(func, insert, e)
           g == AddInstruction(v.f, v.at, Ret(v.val))
<1>1. AtStatement /\ Declared(e) /\ UNCHANGED <<stack, scope>>
  BY DEF ReturnStmt
<1>2. func' = g /\ insert' = v.at
  BY DEF ReturnStmt
<1>3. Evaluated(func, insert, v)
  BY <1>1, StatementFacts, EvalEvaluated
<1>4. ASSUME NEW c, Certifies(c, func), HeldIn(c, scope, Len(scope), insert)
      PROVE  \E d : FlowsTo(func, c, insert, g, d, v.at)
  <2>1. PICK d : FlowsTo(func, c, insert, v.f, d, v.at)
    BY <1>1, <1>4, StatementFacts, EvalFlows
  <2> HIDE DEF v
  <2>2. Consistent(v.f) /\ v.at \in Blocks(v.f) /\ v.val \in Operands
    BY <1>3 DEF Evaluated, Continues
  <2>3. FlowsTo(v.f, d, v.at, g, d, v.at)
    BY <2>1, <2>2, PlainCertified DEF FlowsTo
  <2> HIDE DEF g
  <2>4. QED
    BY <2>1, <2>3, FlowsTransitive
<1> HIDE DEF g
<1>5. QED
  BY <1>1, <1>2, <1>4, StatementFlows

\* The end of visit(ASTFunDeclaration).
LEMMA EndFunctionFInv ==
    ASSUME IInv, FInv, EndFunction
    PROVE  FInv'
<1>1. /\ ctl = "done" /\ ctl' = "global"
      /\ func' = IF HasTerminator(func, insert) THEN func
                 ELSE AddInstruction(func, insert, Ret(Literal(0)))
  BY DEF EndFunction
<1>2. Consistent(func) /\ insert \in Blocks(func)
  BY <1>1 DEF IInv, FunctionInv
<1>3. PICK c, depth : Certifies(c, func)
  BY DEF FInv, FlowInv
<1>4. Certifies(c, AddInstruction(func, insert, Ret(Literal(0))))
  <2>1. Literal(0) \in Operands
    BY LiteralFacts
  <2>2. QED
    BY <1>2, <1>3, <2>1, PlainCertified DEF FlowsTo
<1>5. Certifies(c, func')
  BY <1>1, <1>3, <1>4
<1>6. FlowInv(c, depth)'
  BY <1>1, <1>5 DEF FlowInv
<1>7. QED
  BY <1>6 DEF FInv
-----------------------------------------------------------------------------
\* A visit on top of those in rest waits at blocks that fit them.
FrameHolds(c, rest, sc, frame) ==
    /\ \A q \in Awaits(frame) : c.ent[q] = 0 /\ Stands(c, rest, sc, Len(rest), Len(sc), q)
    /\ frame.kind = "then" => Admits(c, frame, frame.at)
    /\ frame.kind = "body" => c.ent[frame.at] # 0

\* The scopes of the table are those of sc, and more at most.
Deeper(sc, table) ==
    /\ Len(sc) \in Nat /\ Len(table) \in Nat
    /\ \A k \in 1..Len(sc) : table[k] = sc[k]

\* A visit is pushed: the stack stays in place.
LEMMA StackPushed ==
    ASSUME NEW rest, NEW frame, NEW stk, OnTop(rest, frame, stk), rest # << >>,
           NEW c, NEW sc, NEW depth, DepthFits(depth, rest, Len(sc)),
           FramesPlaced(c, rest, sc, depth), FrameHolds(c, rest, sc, frame),
           NEW table, Deeper(sc, table), Len(table) = Len(sc) + Opening(frame),
           NEW b, Stands(c, rest, sc, Len(rest), Len(sc), b),
           Admits(c, frame, b), HeldIn(c, table, Len(table), b)
    PROVE  \E deep : StackPlaced(c, stk, table, deep, b)
<1> DEFINE l == Len(rest)
           deep == [depth EXCEPT ![Len(stk)] = Len(table)]
<1>1. /\ l \in Nat /\ DOMAIN rest = 1..l /\ Len(stk) = l + 1
      /\ DOMAIN stk = (1..l) \cup {l + 1}
      /\ \A k \in 1..l : stk[k] = rest[k]
      /\ stk[l + 1] = frame
  BY DEF OnTop
<1>2. DepthFits(deep, stk, Len(table)) /\ \A k \in DOMAIN rest : deep[k] = depth[k]
  BY DepthPushed DEF Deeper
<1> HIDE DEF deep
<1>3. ASSUME NEW j \in 1..l
      PROVE  FramePlaced(c, stk, table, deep, j)
  <2>1. /\ FramePlaced(c, rest, sc, depth, j) /\ deep[j] = depth[j] /\ j \in Nat /\ j >= 1
        /\ \A i \in 1..j : stk[i] = rest[i]
    BY <1>1, <1>2 DEF FramesPlaced
  <2>2. \A k \in 1..depth[j] : table[k] = sc[k]
    <3>1. l \in 1..Len(rest) /\ j \in 1..l
      BY <1>1
    <3>2. depth[j] <= depth[l] /\ depth[l] = Len(sc) /\ depth \in [Nat -> Nat]
      BY <3>1 DEF DepthFits
    <3>3. depth[j] \in Nat
      BY <2>1, <3>2
    <3>4. depth[j] <= Len(sc) /\ Len(sc) \in Nat
      BY <3>2 DEF Deeper
    <3>5. \A k \in 1..depth[j] : k \in 1..Len(sc)
      BY <3>3, <3>4
    <3>6. QED
      BY <3>5 DEF Deeper
  <2>3. QED
    BY <2>1, <2>2, FrameStays
<1>4. FramePlaced(c, stk, table, deep, l + 1)
  <2>1. l + 1 - 1 = l /\ deep[l + 1] = Len(table)
    BY <1>1, <1>2 DEF DepthFits
  <2>2. ASSUME NEW q \in Awaits(frame)
        PROVE  c.ent[q] = 0 /\ Stands(c, stk, table, l, Len(table), q)
    <3>1. c.ent[q] = 0 /\ Stands(c, rest, sc, l, Len(sc), q)
      BY DEF FrameHolds
    <3>2. frame.kind # "compound"
      BY DEF Awaits
    <3>3. Len(table) = Len(sc)
      BY <3>2 DEF Opening, Deeper
    <3>4. HeldIn(c, table, Len(table), q)
      BY <3>1, <3>3 DEF Stands, HeldIn, Deeper
    <3>5. QED
      BY <1>1, <3>1, <3>4 DEF Stands
  <2>3. QED
    BY <1>1, <2>1, <2>2 DEF FramePlaced, FrameHolds
<1>5. FramesPlaced(c, stk, table, deep)
  BY <1>1, <1>3, <1>4 DEF FramesPlaced
<1>6. Stands(c, stk, table, Len(stk), Len(table), b)
  <2>1. \A i \in 1..l : Admits(c, stk[i], b)
    BY <1>1 DEF Stands
  <2>2. \A i \in 1..Len(stk) : i \in 1..l \/ i = l + 1
    BY <1>1
  <2>3. QED
    BY <1>1, <2>1, <2>2 DEF Stands
<1>7. QED
  BY <1>2, <1>5, <1>6 DEF StackPlaced

\* A visit is popped: the stack below it was in place, and so it is for a block
\* that fits, with the scopes that the visit opened closed.
LEMMA StackPopped ==
    ASSUME NEW rest, NEW frame, NEW stk, OnTop(rest, frame, stk), rest # << >>,
           NEW c, NEW sc, NEW depth, DepthFits(depth, stk, Len(sc)),
           FramesPlaced(c, stk, sc, depth),
           NEW table, Deeper(table, sc), Len(sc) = Len(table) + Opening(frame)
    PROVE  DepthFits(depth, rest, Len(table)) /\ FramesPlaced(c, rest, table, depth)
<1>1. PICK m \in Nat : /\ DepthFits(depth, rest, m) /\ Len(sc) = m + Opening(frame)
                       /\ m >= 2
                       /\ \A k \in DOMAIN rest : depth[k] <= m /\ depth[k] \in Nat
  BY DepthPopped
<1>2. m = Len(table)
  BY <1>1 DEF Opening, Deeper
<1>3. ASSUME NEW j \in DOMAIN rest
      PROVE  FramePlaced(c, rest, table, depth, j)
  <2>1. /\ j \in DOMAIN stk /\ j \in Nat /\ j >= 1
        /\ \A i \in 1..j : stk[i] = rest[i]
    BY DEF OnTop
  <2>2. \A k \in 1..depth[j] : table[k] = sc[k]
    BY <1>1, <1>2 DEF Deeper
  <2>3. FramePlaced(c, stk, sc, depth, j)
    BY <2>1 DEF FramesPlaced
  <2>4. QED
    BY <2>1, <2>2, <2>3, FrameStays
<1>4. QED
  BY <1>1, <1>2, <1>3 DEF FramesPlaced

\* visit(ASTCompoundStmt) up to its declarations.
LEMMA OpenCompoundFInv ==
    ASSUME IInv, FInv, OpenCompound
    PROVE  FInv'
<1> DEFINE flag == ~inFunc
           top == Frame("compound", 0, 0, flag)
<1>1. /\ ctl # "global" /\ ctl' = "decls"
      /\ scope' = IF inFunc THEN scope ELSE Append(scope, NoNames)
      /\ stack' = Append(stack, top)
      /\ func' = func /\ insert' = insert
  BY DEF OpenCompound, AtStatement
<1>2. stack \in Seq(Frames) /\ stack # << >> /\ inFunc \in BOOLEAN
  BY <1>1 DEF IInv, StackFits, Controlled
<1>3. top \in Frames /\ top.kind = "compound" /\ (top.flag <=> ~inFunc)
  <2>1. flag \in BOOLEAN
    BY DEF IInv
  <2> HIDE DEF flag
  <2>2. top \in Frames /\ top.kind = "compound" /\ top.flag = flag
    BY <2>1, FrameFacts
  <2> HIDE DEF top
  <2>3. QED
    BY <2>2 DEF flag
<1> HIDE DEF top
<1>4. OnTop(stack, top, stack')
  BY <1>1, <1>2, <1>3, PushOnTop
<1>5. PICK c, depth : /\ Certifies(c, func)
                      /\ DepthFits(depth, stack, Len(scope))
                      /\ FramesPlaced(c, stack, scope, depth)
                      /\ Stands(c, stack, scope, Len(stack), Len(scope), insert)
  BY <1>1, FlowFacts
<1>6. FrameHolds(c, stack, scope, top) /\ Admits(c, top, insert)
  BY <1>3 DEF FrameHolds, Admits, Awaits
<1>7. ScopesFit(func, scope) /\ Len(scope) \in Nat
  BY LenProperties DEF IInv, ScopesFit
<1>8. /\ Deeper(scope, scope') /\ Len(scope') = Len(scope) + Opening(top)
      /\ HeldIn(c, scope', Len(scope'), insert)
  <2>1. CASE inFunc
    <3>1. scope' = scope /\ Opening(top) = 0
      BY <1>1, <1>3, <2>1 DEF Opening
    <3>2. QED
      BY <1>5, <1>7, <3>1 DEF Deeper, Stands
  <2>2. CASE ~inFunc
    <3>1. scope' = Append(scope, NoNames) /\ Opening(top) = 1
      BY <1>1, <1>3, <2>2 DEF Opening
    <3>2. scope \in Seq([Name -> Operands \cup {Undeclared}]) /\ NoNames \in [Name -> Operands \cup {Undeclared}]
      BY <1>7 DEF ScopesFit, NoNames
    <3>3. /\ Len(scope') = Len(scope) + 1
          /\ \A k \in 1..Len(scope) : scope'[k] = scope[k]
          /\ scope'[Len(scope) + 1] = NoNames
      BY <3>1, <3>2, AppendProperties
    <3>4. HeldIn(c, scope', Len(scope'), insert)
      <4>1. \A k \in 1..Len(scope') : k \in 1..Len(scope) \/ k = Len(scope) + 1
        BY <1>7, <3>3
      <4>2. \A n \in Name : NoNames[n] = Undeclared
        BY DEF NoNames
      <4>3. QED
        BY <1>5, <3>3, <4>1, <4>2 DEF Stands, HeldIn
    <3>5. QED
      BY <1>7, <3>1, <3>3, <3>4 DEF Deeper
  <2>3. QED
    BY <1>2, <2>1, <2>2
<1>9. PICK deep : StackPlaced(c, stack', scope', deep, insert)
  BY <1>2, <1>4, <1>5, <1>6, <1>8, StackPushed
<1>10. FlowInv(c, deep)'
  BY <1>1, <1>5, <1>9 DEF FlowInv
<1>11. QED
  BY <1>10 DEF FInv

\* visit(ASTCompoundStmt) from its last statement on.
LEMMA CloseCompoundFInv ==
    ASSUME IInv, FInv, CloseCompound
    PROVE  FInv'
<1> DEFINE rest == Front(stack)
           top == Last(stack)
<1>1. /\ ctl \in {"decls", "list"}
      /\ scope' = IF top.flag THEN Front(scope) ELSE scope
      /\ stack' = rest
      /\ func' = func /\ insert' = insert
  BY DEF CloseCompound
<1>2. stack \in Seq(Frames) /\ stack # << >> /\ top.kind = "compound" /\ StackNested(stack)
  BY <1>1 DEF IInv, StackFits, Controlled
<1>3. OnTop(rest, top, stack)
  BY <1>2, PopOnTop
<1> HIDE DEF rest, top
<1>4. rest # << >> /\ top.flag \in BOOLEAN /\ Len(rest) \in Nat /\ Len(stack) = Len(rest) + 1
  <2>1. Len(stack) # 1
    BY <1>2, <1>3 DEF StackNested, FrameNested, OnTop
  <2>2. Len(rest) # 0 /\ Len(rest) \in Nat /\ top \in Frames
    BY <1>3, <2>1 DEF OnTop
  <2>3. QED
    BY <1>3, <2>2, EmptySeq DEF OnTop, Frames
<1>5. PICK c, depth : /\ Certifies(c, func)
                      /\ DepthFits(depth, stack, Len(scope))
                      /\ FramesPlaced(c, stack, scope, depth)
                      /\ Stands(c, stack, scope, Len(stack), Len(scope), insert)
  BY <1>1, FlowFacts
<1>6. ScopesFit(func, scope) /\ Len(scope) \in Nat
  BY LenProperties DEF IInv, ScopesFit
<1>7. Deeper(scope', scope) /\ Len(scope) = Len(scope') + Opening(top)
  <2>1. CASE ~top.flag
    <3>1. scope' = scope /\ Opening(top) = 0
      BY <1>1, <2>1 DEF Opening
    <3>2. QED
      BY <1>6, <3>1 DEF Deeper
  <2>2. CASE top.flag
    <3>1. scope' = Front(scope) /\ Opening(top) = 1
      BY <1>1, <1>2, <2>2 DEF Opening
    <3>2. Len(scope) >= 1
      <4>1. PICK m \in Nat : Len(scope) = m + Opening(top)
        BY <1>3, <1>4, <1>5, DepthPopped
      <4>2. QED
        BY <3>1, <4>1
    <3>3. /\ Len(Front(scope)) = Len(scope) - 1
          /\ \A k \in 1..(Len(scope) - 1) : Front(scope)[k] = scope[k]
      <4>1. Front(scope) = [k \in 1..(Len(scope) - 1) |-> scope[k]]
        <5>1. Len(scope) - 1 \in Nat
          BY <1>6, <3>2
        <5>2. QED
          BY <1>6, <3>2, <5>1 DEF Front
      <4>2. Len(scope) - 1 \in Nat
        BY <1>6, <3>2
      <4>3. QED
        BY <4>1, <4>2
    <3>4. QED
      BY <1>6, <3>1, <3>2, <3>3 DEF Deeper
  <2>3. QED
    BY <1>4, <2>1, <2>2
<1>8. DepthFits(depth, rest, Len(scope')) /\ FramesPlaced(c, rest, scope', depth)
  BY <1>3, <1>4, <1>5, <1>7, StackPopped
<1>9. Stands(c, rest, scope', Len(rest), Len(scope'), insert)
  <2>1. Len(scope') \in Nat /\ Len(scope') <= Len(scope) /\ \A k \in 1..Len(scope') : scope'[k] = scope[k] /\ k \in 1..Len(scope)
    BY <1>6, <1>7 DEF Deeper, Opening
  <2>2. HeldIn(c, scope', Len(scope'), insert)
    BY <1>5, <2>1 DEF Stands, HeldIn
  <2>3. \A i \in 1..Len(rest) : i \in 1..Len(stack) /\ stack[i] = rest[i]
    BY <1>3 DEF OnTop
  <2>4. QED
    BY <1>5, <2>2, <2>3 DEF Stands
<1>10. FlowInv(c, depth)'
  BY <1>1, <1>5, <1>8, <1>9 DEF FlowInv, StackPlaced
<1>11. QED
  BY <1>10 DEF FInv
\* Scope::push changes the last scope alone, and only by what it pushes.
LEMMA PushEntries ==
    ASSUME NEW f, NEW sc, ScopesFit(f, sc), NEW n \in Name, NEW s \in Operands
    PROVE  /\ Len(Push(sc, n, s)) = Len(sc) /\ Len(sc) \in Nat
           /\ \A k \in 1..Len(sc) : k # Len(sc) => Push(sc, n, s)[k] = sc[k]
           /\ \A k \in 1..Len(sc), x \in Name : Push(sc, n, s)[k][x] \in {sc[k][x], s}
<1> DEFINE T == [Name -> Operands \cup {Undeclared}]
           table == [sc[Len(sc)] EXCEPT ![n] = s]
           new == [sc EXCEPT ![Len(sc)] = table]
<1>1. sc \in Seq(T) /\ sc # << >>
  BY DEF ScopesFit
<1>2. Len(sc) \in 1..Len(sc) /\ Len(sc) \in Nat /\ DOMAIN sc = 1..Len(sc)
  <2> HIDE DEF T
  <2>1. Len(sc) \in Nat \ {0} /\ DOMAIN sc = 1..Len(sc)
    BY <1>1, EmptySeq, LenProperties
  <2>2. QED
    BY <2>1
<1>3. sc[Len(sc)] \in T
  <2> HIDE DEF T
  <2>1. QED
    BY <1>1, <1>2, ElementOfSeq
<1>4. table \in T /\ \A m \in Name : table[m] = IF m = n THEN s ELSE sc[Len(sc)][m]
  BY <1>3
<1>5. Push(sc, n, s) = new \/ Push(sc, n, s) = sc
  BY DEF Push
<1> HIDE DEF T, table
<1>6. /\ new \in Seq(T) /\ Len(new) = Len(sc)
      /\ \A k \in 1..Len(sc) : new[k] = IF k = Len(sc) THEN table ELSE sc[k]
  BY <1>1, <1>2, <1>4, ExceptSeq
<1> HIDE DEF new
<1>7. \A k \in 1..Len(sc), x \in Name : new[k][x] \in {sc[k][x], s}
  BY <1>4, <1>6
<1>8. QED
  BY <1>2, <1>5, <1>6, <1>7

\* The last scope belongs to the compound on top of the stack alone, and not
\* to a branch that waits below it.
LEMMA WaitsOutside ==
    ASSUME IInv, ctl = "decls", NEW depth, DepthFits(depth, stack, Len(scope)),
           NEW j \in DOMAIN stack, Awaits(stack[j]) # {}
    PROVE  depth[j] \in Nat /\ depth[j] < Len(scope)
<1> DEFINE l == Len(stack)
<1>1. /\ stack \in Seq(Frames) /\ stack # << >> /\ Last(stack).kind = "compound"
      /\ StackNested(stack)
  BY DEF IInv, StackFits, Controlled
<1>2. l \in Nat /\ l # 0 /\ DOMAIN stack = 1..l /\ stack[l].kind = "compound"
  BY <1>1, LenProperties, EmptySeq DEF Last
<1> HIDE DEF l
<1>3. j # l /\ j # 1
  <2>1. stack[j].kind \in {"then", "else", "body"}
    BY DEF Awaits
  <2>2. QED
    BY <1>1, <1>2, <2>1 DEF StackNested, FrameNested
<1>4. j \in 1..(l - 1) /\ l - 1 \in 1..l /\ l \in 2..l /\ l # 2 /\ l \in DOMAIN stack
  BY <1>2, <1>3
<1>5. stack[l].flag
  BY <1>1, <1>2, <1>4 DEF StackNested, FrameNested
<1>6. Opening(stack[l]) = 1
  BY <1>2, <1>5 DEF Opening
<1>7. /\ depth \in [Nat -> Nat] /\ depth[l] = Len(scope)
      /\ depth[j] <= depth[l - 1]
      /\ depth[l] = depth[l - 1] + Opening(stack[l])
  BY <1>4 DEF DepthFits, l
<1>8. depth[l - 1] \in Nat /\ depth[j] \in Nat
  BY <1>2, <1>4, <1>7
<1>9. QED
  BY <1>6, <1>7, <1>8

\* visit(ASTVarDeclaration): the storage is made where the code has come to.
LEMMA VarDeclarationFInv ==
    ASSUME IInv, FInv, NEW n \in Name, VarDeclaration(n)
    PROVE  FInv'
<1>1. ctl \in {"global", "decls"} /\ UNCHANGED <<insert, stack, ctl>>
  BY DEF VarDeclaration
<1>2. CASE ctl = "global"
  <2>1. Len(scope) = 1
    BY <1>2 DEF IInv, Controlled, ScopesOpen
  <2>2. func' = func
    BY <2>1 DEF VarDeclaration
  <2>3. PICK c, depth : FlowInv(c, depth)
    BY DEF FInv
  <2>4. FlowInv(c, depth)'
    BY <1>1, <1>2, <2>2, <2>3 DEF FlowInv
  <2>5. QED
    BY <2>4 DEF FInv
<1>3. CASE ctl = "decls"
  <2> DEFINE s == NextPlace(func, insert)
  <2>1. PICK c, depth : /\ Certifies(c, func)
                        /\ DepthFits(depth, stack, Len(scope))
                        /\ FramesPlaced(c, stack, scope, depth)
                        /\ Stands(c, stack, scope, Len(stack), Len(scope), insert)
    BY <1>3, FlowFacts
  <2>2. Len(stack) \in Nat /\ DOMAIN stack = 1..Len(stack) /\ Len(stack) # 0
    <3>1. stack \in Seq(Frames) /\ stack # << >>
      BY <1>3 DEF IInv, StackFits, Controlled
    <3>2. QED
      BY <3>1, EmptySeq, LenProperties
  <2>3. Len(scope) # 1
    <3>1. Len(stack) \in 1..Len(stack)
      BY <2>2
    <3>2. depth[Len(stack)] >= 2 /\ depth[Len(stack)] = Len(scope)
      BY <2>1, <3>1 DEF DepthFits
    <3>3. QED
      BY <3>2
  <2>4. func' = AddInstruction(func, insert, Alloca(s)) /\ scope' = Push(scope, n, s)
    BY <2>3 DEF VarDeclaration
  <2>5. Consistent(func) /\ insert \in Blocks(func) /\ ScopesFit(func, scope)
    BY <1>3 DEF IInv, FunctionInv
  <2>6. FlowsTo(func, c, insert, func', c, insert)
    BY <2>1, <2>4, <2>5, PlainCertified
  <2>7. s \in Operands /\ s[1] = insert
    <3>1. Added(func, insert, "alloca", func')
      BY <2>4, <2>5, AddedPlain
    <3>2. QED
      BY <3>1 DEF Added, NextPlace
  <2> HIDE DEF s
  <2>8. /\ Len(scope') = Len(scope) /\ Len(scope) \in Nat
        /\ \A k \in 1..Len(scope) : k # Len(scope) => scope'[k] = scope[k]
        /\ \A k \in 1..Len(scope), x \in Name : scope'[k][x] \in {scope[k][x], s}
    BY <2>4, <2>5, <2>7, PushEntries
  <2>9. Stands(c, stack, scope', Len(stack), Len(scope'), insert)
    <3>1. insert \in c.dom[insert]
      BY <2>1, <2>5 DEF Certifies, BlockFits
    <3>2. ASSUME NEW k \in 1..Len(scope'), NEW x \in Name,
                 scope'[k][x] \notin {Undeclared, Global}
          PROVE  scope'[k][x][1] \in c.dom[insert]
      <4>1. k \in 1..Len(scope) /\ scope'[k][x] \in {scope[k][x], s}
        BY <2>8
      <4>2. CASE scope'[k][x] = s
        BY <2>7, <3>1, <4>2
      <4>3. CASE scope'[k][x] = scope[k][x]
        BY <2>1, <3>2, <4>1, <4>3 DEF Stands, HeldIn
      <4>4. QED
        BY <4>1, <4>2, <4>3
    <3>3. QED
      BY <2>1, <3>2 DEF Stands, HeldIn
  <2>10. ASSUME NEW j \in DOMAIN stack
         PROVE  FramePlaced(c, stack, scope', depth, j)
    <3>1. FramePlaced(c, stack, scope, depth, j) /\ j \in Nat /\ j >= 1
      BY <2>1, <2>2 DEF FramesPlaced
    <3>2. ASSUME Awaits(stack[j]) # {}, NEW k \in 1..depth[j]
          PROVE  scope'[k] = scope[k]
      <4>1. depth[j] \in Nat /\ depth[j] < Len(scope)
        BY <1>3, <2>1, <3>2, WaitsOutside
      <4>2. k \in 1..Len(scope) /\ k # Len(scope)
        BY <2>8, <4>1
      <4>3. QED
        BY <2>8, <4>2
    <3>3. QED
      BY <3>1, <3>2, FrameStays
  <2>11. StackPlaced(c, stack, scope', depth, insert)
    BY <2>1, <2>8, <2>9, <2>10 DEF StackPlaced, FramesPlaced
  <2>12. FlowInv(c, depth)'
    BY <1>1, <2>6, <2>11 DEF FlowInv, FlowsTo
  <2>13. QED
    BY <2>12 DEF FInv
<1>4. QED
  BY <1>1, <1>2, <1>3

\* visit(ASTFunDeclaration): a function starts with its entry block alone.
LEMMA FunDeclarationFInv ==
    ASSUME IInv, FInv, NEW params, params = << >> \/ \E n \in Name : params = <<n>>,
           FunDeclaration(params)
    PROVE  FInv'
<1> DEFINE f == NewBlock(EmptyFunction)
           s == NextPlace(f, Entry)
           sc == Append(scope, NoNames)
           g == AddInstruction(f, Entry, Alloca(s))
           h == AddInstruction(g, Entry, Store(s, Argument))
           top == Frame("fun", 0, 0, FALSE)
           c == [dom |-> [x \in Nat |-> {x}], rank |-> [x \in Nat |-> 0],
                 ent |-> [x \in Nat |-> 0]]
           depth == [k \in Nat |-> 2]
<1>1. /\ ctl = "global" /\ ctl' = "compound" /\ insert' = Entry
      /\ stack' = Append(stack, top)
      /\ params = << >> => func' = f /\ scope' = sc
      /\ params # << >> => func' = h /\ scope' = Push(sc, params[1], s)
  BY DEF FunDeclaration
<1>2. stack = << >> /\ Len(scope) = 1 /\ ScopesFit(func, scope)
  BY <1>1 DEF IInv, Controlled, ScopesOpen
<1>3. Consistent(f) /\ Blocks(f) = {Entry} /\ f.code[Entry] = << >> /\ f.succ[Entry] = << >>
  <2>1. Consistent(EmptyFunction) /\ Blocks(EmptyFunction) = {} /\ NewestBlock(EmptyFunction) = 0
    BY EmptyConsistent
  <2>2. WellFormed(EmptyFunction) /\ Len(EmptyFunction.code) = 0
    BY <2>1 DEF Consistent, NewestBlock
  <2>3. Consistent(f)
    BY <2>1, NewBlockKeeps
  <2>4. /\ Blocks(f) = Blocks(EmptyFunction) \cup {Len(EmptyFunction.code) + 1}
        /\ f.succ[Len(EmptyFunction.code) + 1] = << >>
        /\ f.code[Len(EmptyFunction.code) + 1] = << >>
    BY <2>2, NewBlockFacts
  <2>5. Len(EmptyFunction.code) + 1 = Entry
    BY <2>2 DEF Entry
  <2>6. QED
    BY <2>1, <2>3, <2>4, <2>5
<1> HIDE DEF f
<1>4. /\ c \in Certificates /\ c.dom[Entry] = {Entry}
  BY DEF Certificates, Entry
<1> HIDE DEF c
<1>5. Certifies(c, f)
  <2>1. Succ(f, Entry) = {} /\ DOMAIN f.code[Entry] = {}
    BY <1>3 DEF Succ, ToSet
  <2>2. QED
    BY <1>3, <1>4, <2>1 DEF Certifies, BlockFits
<1>6. Added(f, Entry, "alloca", g) /\ Certifies(c, g)
  BY <1>3, <1>5, AddedPlain, PlainCertified DEF FlowsTo
<1>7. s \in Operands /\ s[1] = Entry /\ IsPlace(g, s) /\ s # Global
  BY <1>6 DEF Added, NextPlace
<1> HIDE DEF g, s
<1>8. Consistent(g) /\ Blocks(g) = {Entry}
  BY <1>3, <1>6 DEF Added, Continues
<1>9. Certifies(c, h)
  <2>1. Passed(g, c, Entry, s)
    BY <1>4, <1>7 DEF Passed, IsPlace
  <2>2. Argument \in Operands
    BY DEF Argument, Operands
  <2>3. QED
    BY <1>6, <1>7, <1>8, <2>1, <2>2, AccessCertified DEF FlowsTo
<1> HIDE DEF h
<1>10. Certifies(c, func')
  BY <1>1, <1>5, <1>9
<1>11. ScopesFit(func, sc) /\ Len(sc) = 2
  <2>1. ScopesFit(func, sc) /\ Len(sc) = Len(scope) + 1
    BY <1>2, ScopeEntered
  <2> HIDE DEF sc
  <2>2. QED
    BY <1>2, <2>1
<1>12. /\ Len(scope') = 2
       /\ \A k \in 1..2, x \in Name : scope'[k][x] \in {sc[k][x], s}
  <2>1. CASE params = << >>
    BY <1>1, <1>11, <2>1
  <2>2. ASSUME NEW n \in Name, params = <<n>>
        PROVE  /\ Len(scope') = 2
               /\ \A k \in 1..2, x \in Name : scope'[k][x] \in {sc[k][x], s}
    <3>1. scope' = Push(sc, n, s)
      <4>1. params # << >> /\ params[1] = n
        BY <2>2
      <4>2. QED
        BY <1>1, <4>1
    <3>2. /\ Len(Push(sc, n, s)) = Len(sc)
          /\ \A k \in 1..Len(sc), x \in Name : Push(sc, n, s)[k][x] \in {sc[k][x], s}
      <4>1. ScopesFit(func, sc) /\ s \in Operands
        BY <1>7, <1>11
      <4> HIDE DEF sc
      <4>2. QED
        BY <4>1, PushEntries
    <3>3. QED
      BY <1>11, <3>1, <3>2
  <2>3. QED
    BY <2>1, <2>2
<1>13. HeldIn(c, scope', 2, Entry)
  <2>1. \A k \in 1..2, x \in Name : sc[k][x] \in {Undeclared, Global}
    <3>1. scope \in Seq([Name -> Operands \cup {Undeclared}]) /\ NoNames \in [Name -> Operands \cup {Undeclared}]
      BY <1>2 DEF ScopesFit, NoNames
    <3>2. sc[1] = scope[1] /\ sc[2] = NoNames /\ 1 \in DOMAIN scope
      <4>1. 1 \in 1..Len(scope) /\ Len(scope) + 1 = 2 /\ DOMAIN scope = 1..Len(scope)
        BY <1>2, <3>1, LenProperties
      <4>2. QED
        BY <3>1, <4>1, AppendProperties
    <3>3. \A x \in Name : Storage(func, 1, scope[1][x])
      BY <1>2, <3>2 DEF ScopesFit
    <3>4. \A x \in Name : scope[1][x] \in {Undeclared, Global}
      BY <3>3 DEF Storage
    <3>5. \A x \in Name : NoNames[x] = Undeclared
      BY DEF NoNames
    <3>6. \A k \in 1..2 : k = 1 \/ k = 2
      OBVIOUS
    <3>7. QED
      BY <3>2, <3>4, <3>5, <3>6
  <2> HIDE DEF sc
  <2>2. QED
    BY <1>4, <1>7, <1>12, <2>1 DEF HeldIn
<1> HIDE DEF sc
<1>14. /\ top \in Frames /\ top.kind = "fun"
       /\ stack' = <<top>> /\ Len(stack') = 1 /\ DOMAIN stack' = {1} /\ stack'[1] = top
  <2>1. top \in Frames /\ top.kind = "fun"
    BY DEF Frame, Frames
  <2> HIDE DEF top
  <2>2. QED
    BY <1>1, <1>2, <2>1
<1> HIDE DEF top
<1>15. DepthFits(depth, stack', 2)
  <2>1. depth \in [Nat -> Nat] /\ \A k \in Nat : depth[k] = 2
    OBVIOUS
  <2> HIDE DEF depth
  <2>2. QED
    BY <1>14, <2>1 DEF DepthFits
<1> HIDE DEF depth
<1>16. FramesPlaced(c, stack', scope', depth)
  BY <1>14 DEF FramesPlaced, FramePlaced, Awaits
<1>17. Stands(c, stack', scope', 1, 2, Entry)
  BY <1>13, <1>14 DEF Stands, Admits
<1>18. StackPlaced(c, stack', scope', depth, Entry)
  BY <1>12, <1>14, <1>15, <1>16, <1>17 DEF StackPlaced
<1>19. \E cc, dd : Certifies(cc, func') /\ StackPlaced(cc, stack', scope', dd, insert')
  BY <1>1, <1>10, <1>18
<1>20. PICK cc, dd : Certifies(cc, func') /\ StackPlaced(cc, stack', scope', dd, insert')
  BY <1>19
<1>21. FlowInv(cc, dd)'
  BY <1>20 DEF FlowInv
<1>22. QED
  BY <1>21 DEF FInv

-----------------------------------------------------------------------------
\* The visitor of an if or a while has made its blocks and waits for its
\* statement.
LEMMA StatementWaits ==
    ASSUME IInv, AtStatement,
           NEW c, NEW depth, DepthFits(depth, stack, Len(scope)),
           FramesPlaced(c, stack, scope, depth),
           Stands(c, stack, scope, Len(stack), Len(scope), insert),
           NEW top \in Frames, top.kind \in {"then", "body"},
           stack' = Append(stack, top), scope' = scope,
           NEW d, \A x \in {insert'} \cup Awaits(top) : FlowsTo(func, c, insert, func', d, x),
           \A q \in Awaits(top) : d.ent[q] = 0,
           top.kind = "then" => Admits(d, top, top.at),
           top.kind = "body" => d.ent[top.at] # 0,
           Admits(d, top, insert')
    PROVE  FInv'
<1>1. /\ stack \in Seq(Frames) /\ stack # << >> /\ StackFits(func, stack)
      /\ ScopesFit(func, scope)
  BY StatementFacts
<1>2. OnTop(stack, top, stack')
  BY <1>1, PushOnTop
<1>3. Len(stack) \in Nat /\ Len(scope) \in Nat
  BY <1>1, LenProperties DEF ScopesFit
<1>4. FlowsTo(func, c, insert, func', d, insert')
  OBVIOUS
<1>5. FramesPlaced(d, stack, scope, depth)
  BY <1>1, <1>4, FramesLater
<1>6. \A x \in {insert'} \cup Awaits(top) : Stands(d, stack, scope, Len(stack), Len(scope), x)
  <2>1. Len(stack) <= Len(stack)
    BY <1>3
  <2>2. QED
    BY <1>1, <1>3, <2>1, StandsLater
<1>7. FrameHolds(d, stack, scope, top)
  BY <1>6 DEF FrameHolds
<1>8. Deeper(scope, scope) /\ Len(scope) = Len(scope) + Opening(top)
  BY <1>3 DEF Deeper, Opening
<1>9. HeldIn(d, scope, Len(scope), insert')
  BY <1>6 DEF Stands
<1>10. \E deep : StackPlaced(d, stack', scope, deep, insert')
  <2>1. \A b : Stands(d, stack, scope, Len(stack), Len(scope), b) /\ Admits(d, top, b)
               /\ HeldIn(d, scope, Len(scope), b) =>
                  \E deep : StackPlaced(d, stack', scope, deep, b)
    BY <1>1, <1>2, <1>5, <1>7, <1>8, StackPushed
  <2>2. QED
    BY <1>6, <1>9, <2>1
<1>11. PICK deep : StackPlaced(d, stack', scope', deep, insert')
  BY <1>10
<1>12. FlowInv(d, deep)'
  BY <1>4, <1>11 DEF FlowInv, FlowsTo
<1>13. QED
  BY <1>12 DEF FInv

\* visit(ASTSelectionStmt) up to the true branch.
LEMMA SelectionStmtFInv ==
    ASSUME IInv, FInv, NEW e \in Expr, NEW hasElse \in BOOLEAN, SelectionStmt(e, hasElse)
    PROVE  FInv'
<1> DEFINE v == Eval(func, insert, e)
           n == NewestBlock(v.f)
           t == NewestBlock(v.f) + 1
           f == NewBlock(NewBlock(NewBlock(v.f)))
           w == [v EXCEPT !.f = f]
           top == Frame("then", t + 1, t + 2, hasElse)
<1>1. AtStatement /\ Declared(e) /\ ctl # "global"
  BY DEF SelectionStmt, AtStatement
<1>2. Evaluated(func, insert, v)
  BY <1>1, StatementFacts, EvalEvaluated
<1>3. /\ func' = Branch(w, t, t + 1) /\ insert' = t
      /\ stack' = Append(stack, top) /\ scope' = scope
  BY DEF SelectionStmt
<1>4. PICK c, depth : /\ Certifies(c, func)
                      /\ DepthFits(depth, stack, Len(scope))
                      /\ FramesPlaced(c, stack, scope, depth)
                      /\ Stands(c, stack, scope, Len(stack), Len(scope), insert)
  BY <1>1, FlowFacts
<1>5. PICK d1 : FlowsTo(func, c, insert, v.f, d1, v.at)
  BY <1>1, <1>4, StatementFacts, EvalFlows DEF Stands
<1> HIDE DEF v
<1>6. Consistent(v.f) /\ Extends(func, v.f) /\ v.at \in Blocks(v.f) /\ WellFormed(v.f)
  BY <1>2 DEF Evaluated, Continues, Consistent
<1>7. /\ BlocksAdded(v.f, f) /\ Consistent(f)
      /\ n \in Nat /\ Blocks(v.f) = 1..n /\ Blocks(f) = 1..(n + 3)
  BY <1>6, ThreeMade
<1>8. n >= 1
  BY <1>6, <1>7
<1>9. ThreeAdded(v.f, f)
  BY <1>6, ThreeBlocks
<1> HIDE DEF f
<1>10. w = [f |-> f, at |-> v.at, val |-> v.val]
  BY <1>2 DEF Evaluated
<1> HIDE DEF w
<1> DEFINE d2 == Opened(d1, v.at, NewestBlock(v.f), {}, 0)
<1>11. OpenedBehind(v.f, d1, v.at, f, {}, 0, d2)
  <2>1. {} \in SUBSET Nat /\ 0 \in Nat /\ Certifies(d1, v.f)
    BY <1>5 DEF FlowsTo
  <2>2. QED
    BY <1>6, <1>7, <2>1, OpenedCertified
<1> HIDE DEF d2
<1>12. /\ t \in Nat /\ t # t + 1
       /\ {t, t + 1, t + 2} \subseteq Blocks(f) \ {Entry}
       /\ {t, t + 1, t + 2} \subseteq Blocks(f) \ Blocks(v.f)
       /\ NewestBlock(v.f) + 1 = t
  <2> HIDE DEF n
  <2>1. t = n + 1
    BY DEF n
  <2> HIDE DEF t
  <2>2. {n + 1, n + 2, n + 3} \subseteq Blocks(f) \ {Entry}
    BY <1>7, <1>8 DEF Entry
  <2>3. {n + 1, n + 2, n + 3} \cap Blocks(v.f) = {}
    BY <1>7
  <2>4. t + 1 = n + 2 /\ t + 2 = n + 3
    BY <1>7, <2>1
  <2>5. QED
    BY <1>7, <2>1, <2>2, <2>3, <2>4 DEF n
<1> HIDE DEF t
<1>13. \A x \in {t, t + 1, t + 2} : /\ EdgeFits(d2, v.at, x)
                                    /\ FlowsTo(v.f, d1, v.at, f, d2, x)
  <2>1. ASSUME NEW x \in {t, t + 1, t + 2}
        PROVE  EdgeFits(d2, v.at, x) /\ FlowsTo(v.f, d1, v.at, f, d2, x)
    <3>1. x \in Blocks(f) \ Blocks(v.f)
      BY <1>12
    <3>2. OpenedAt(v.f, d1, v.at, {}, 0, d2, x)
      BY <1>11, <3>1 DEF OpenedBehind
    <3>3. d2.ent[x] = 0
      BY <3>2 DEF OpenedAt
    <3>4. {} \subseteq {x} /\ d2.ent[x] \in {0, v.at}
      BY <3>3
    <3>5. QED
      BY <1>6, <1>11, <3>1, <3>4, OpenedFlows
  <2>2. QED
    BY <2>1
<1>14. Certifies(d2, func')
  <2>1. v.at \in Blocks(f) /\ v.val \in Operands /\ IsValue(f, v.val)
    BY <1>2, <1>6, <1>9, ExtendsPlaces DEF Evaluated, ThreeAdded, Extends
  <2>2. w.f = f /\ w.at = v.at /\ w.val = v.val
    BY <1>10
  <2>3. w = [f |-> w.f, at |-> w.at, val |-> w.val]
    BY <1>10, <2>2
  <2>4. t \in Blocks(w.f) \ {Entry} /\ t + 1 \in Blocks(w.f) \ {Entry} /\ t # t + 1
    BY <1>12, <2>2
  <2>5. Certifies(d2, w.f) /\ EdgeFits(d2, w.at, t) /\ EdgeFits(d2, w.at, t + 1)
    BY <1>11, <1>13, <2>2 DEF OpenedBehind
  <2>6. Certifies(d2, Branch(w, t, t + 1))
    BY <1>7, <2>1, <2>2, <2>3, <2>4, <2>5, BranchCertified
  <2>7. QED
    BY <1>3, <2>6
<1>15. Blocks(func') = Blocks(f)
  <2>1. v.at \in Blocks(f) /\ v.val \in Operands /\ IsValue(f, v.val)
    BY <1>2, <1>6, <1>9, ExtendsPlaces DEF Evaluated, ThreeAdded, Extends
  <2>2. w.f = f /\ w.at = v.at /\ w.val = v.val
    BY <1>10
  <2>3. w = [f |-> w.f, at |-> w.at, val |-> w.val]
    BY <1>10, <2>2
  <2>4. BranchedFrom(w.f, w.at, Branch(w, t, t + 1))
    BY <1>7, <1>12, <2>1, <2>2, <2>3, BranchLeaves
  <2>5. QED
    BY <1>3, <2>2, <2>4 DEF BranchedFrom
<1>16. \A x \in {t, t + 1, t + 2} : FlowsTo(func, c, insert, func', d2, x)
  <2>1. ASSUME NEW x \in {t, t + 1, t + 2}
        PROVE  FlowsTo(func, c, insert, func', d2, x)
    <3>1. FlowsTo(func, c, insert, f, d2, x)
      BY <1>5, <1>13, FlowsTransitive
    <3>2. QED
      BY <1>14, <1>15, <3>1 DEF FlowsTo
  <2>2. QED
    BY <2>1
<1>17. /\ top \in Frames /\ top.kind = "then"
       /\ top.at = t + 1 /\ top.next = t + 2
  BY <1>12, FrameFacts
<1> HIDE DEF top
<1>18. Awaits(top) = {t + 1, t + 2}
  BY <1>17 DEF Awaits
<1>19. \A q \in Awaits(top) : d2.ent[q] = 0
  <2>1. \A x \in {t + 1, t + 2} : OpenedAt(v.f, d1, v.at, {}, 0, d2, x)
    BY <1>11, <1>12 DEF OpenedBehind
  <2>2. QED
    BY <1>18, <2>1 DEF OpenedAt
<1>20. Admits(d2, top, t) /\ Admits(d2, top, t + 1)
  <2>1. OpenedAt(v.f, d1, v.at, {}, 0, d2, t) /\ OpenedAt(v.f, d1, v.at, {}, 0, d2, t + 1)
        /\ OpenedAt(v.f, d1, v.at, {}, 0, d2, t + 2)
    BY <1>11, <1>12 DEF OpenedBehind
  <2>2. /\ d2.dom[t + 2] \ {t + 2} \subseteq d2.dom[t]
        /\ d2.dom[t + 2] \ {t + 2} \subseteq d2.dom[t + 1]
    BY <2>1 DEF OpenedAt
  <2>3. d2.rank[t] < d2.rank[t + 2] /\ d2.rank[t + 1] < d2.rank[t + 2]
    <3>1. t < t + 2 /\ t + 1 < t + 2
      BY <1>12
    <3>2. QED
      BY <1>11, <1>12, <3>1 DEF OpenedBehind
  <2>4. QED
    BY <1>17, <2>2, <2>3 DEF Admits
<1>21. \A x \in {insert'} \cup Awaits(top) : FlowsTo(func, c, insert, func', d2, x)
  BY <1>3, <1>16, <1>18
<1>22. Admits(d2, top, insert') /\ Admits(d2, top, top.at)
  BY <1>3, <1>17, <1>20
<1>23. QED
  BY <1>1, <1>3, <1>4, <1>17, <1>19, <1>21, <1>22, StatementWaits

\* visit(ASTIterationStmt) up to the body: the judging block is the one that
\* a way back may lead to.
LEMMA IterationStmtFInv ==
    ASSUME IInv, FInv, NEW e \in Expr, IterationStmt(e)
    PROVE  FInv'
<1> DEFINE n == NewestBlock(func)
           j == NewestBlock(func) + 1
           f0 == NewBlock(NewBlock(NewBlock(func)))
           f == CreateBr(f0, insert, j)
           v == Eval(f, j, e)
           top == Frame("body", j, j + 2, FALSE)
           new == {j, j + 1, j + 2}
<1>1. AtStatement /\ Declared(e) /\ ctl # "global"
  BY DEF IterationStmt, AtStatement
<1>2. /\ func' = Branch(v, j + 1, j + 2) /\ insert' = j + 1
      /\ stack' = Append(stack, top) /\ scope' = scope
  BY DEF IterationStmt
<1>3. /\ Consistent(func) /\ insert \in Blocks(func) /\ WellFormed(func)
      /\ ScopesFit(func, scope)
  BY <1>1, StatementFacts DEF Consistent
<1>4. /\ BlocksAdded(func, f0) /\ Consistent(f0)
      /\ n \in Nat /\ Blocks(func) = 1..n /\ Blocks(f0) = 1..(n + 3)
  BY <1>3, ThreeMade
<1>5. ThreeAdded(func, f0)
  BY <1>3, ThreeBlocks
<1> HIDE DEF f0
<1>6. PICK c, depth : /\ Certifies(c, func)
                      /\ DepthFits(depth, stack, Len(scope))
                      /\ FramesPlaced(c, stack, scope, depth)
                      /\ Stands(c, stack, scope, Len(stack), Len(scope), insert)
  BY <1>1, FlowFacts
<1>7. /\ j \in Nat /\ j + 1 # j + 2 /\ insert # 0 /\ insert \in Nat
      /\ new \subseteq Blocks(f0) \ {Entry}
      /\ new \subseteq Blocks(f0) \ Blocks(func)
      /\ j < j + 1 /\ j < j + 2 /\ j + 1 # j /\ j + 2 # j
  <2>1. j = n + 1 /\ n >= 1 /\ insert \in 1..n
    BY <1>3, <1>4
  <2> HIDE DEF n, j
  <2>2. j + 1 = n + 2 /\ j + 2 = n + 3
    BY <1>4, <2>1
  <2>3. {n + 1, n + 2, n + 3} \subseteq Blocks(f0) \ {Entry}
    BY <1>4, <2>1 DEF Entry
  <2>4. {n + 1, n + 2, n + 3} \cap Blocks(func) = {}
    BY <1>4
  <2>5. QED
    BY <1>4, <2>1, <2>2, <2>3, <2>4
<1> DEFINE d1 == Opened(c, insert, NewestBlock(func), {j}, insert)
<1>8. OpenedBehind(func, c, insert, f0, {j}, insert, d1)
  <2>1. {j} \in SUBSET Nat
    BY <1>7
  <2>2. QED
    BY <1>3, <1>4, <1>6, <1>7, <2>1, OpenedCertified
<1> HIDE DEF d1
<1>9. /\ d1.dom[j] = c.dom[insert] \cup {j} /\ d1.ent[j] = insert
      /\ \A x \in {j + 1, j + 2} : d1.dom[x] = d1.dom[j] \cup {x} /\ d1.ent[x] = 0
      /\ \A x \in {j + 1, j + 2} : d1.rank[j] < d1.rank[x]
  <2>1. \A x \in new : OpenedAt(func, c, insert, {j}, insert, d1, x)
    BY <1>7, <1>8 DEF OpenedBehind
  <2>2. d1.dom[j] = c.dom[insert] \cup {j} /\ d1.ent[j] = insert
    BY <2>1 DEF OpenedAt
  <2>3. \A x \in {j + 1, j + 2} : d1.dom[x] = d1.dom[j] \cup {x} /\ d1.ent[x] = 0
    BY <1>7, <2>1, <2>2 DEF OpenedAt
  <2>4. \A x \in {j + 1, j + 2} : d1.rank[j] < d1.rank[x]
    BY <1>7, <1>8 DEF OpenedBehind
  <2>5. QED
    BY <2>2, <2>3, <2>4
<1>10. \A x \in new : FlowsTo(func, c, insert, f0, d1, x)
  BY <1>3, <1>7, <1>8, OpenedFlows
<1>11. EdgeFits(d1, insert, j)
  <2>1. j \in Blocks(f0) \ Blocks(func)
    BY <1>7
  <2>2. {j} \subseteq {j} /\ d1.ent[j] \in {0, insert}
    BY <1>9
  <2>3. QED
    BY <1>3, <1>8, <2>1, <2>2, OpenedFlows
<1> HIDE DEF j
<1>12. /\ Consistent(f) /\ Blocks(f) = Blocks(f0) /\ insert \in Blocks(f0)
       /\ Extends(func, f)
  <2>1. insert \in Blocks(f0) /\ j \in Blocks(f0) \ {Entry}
    BY <1>3, <1>5, <1>7 DEF ThreeAdded, Extends
  <2>2. BranchedFrom(f0, insert, f)
    BY <1>4, <2>1, BrBranches
  <2>3. QED
    BY <1>5, <2>1, <2>2, ExtendsTransitive DEF BranchedFrom, ThreeAdded
<1>13. Certifies(d1, f)
  <2>1. j \in Blocks(f0) \ {Entry}
    BY <1>7
  <2>2. QED
    BY <1>4, <1>8, <1>11, <1>12, <2>1, BrCertified DEF OpenedBehind
<1> HIDE DEF f
<1>14. \A x \in new : FlowsTo(func, c, insert, f, d1, x)
  BY <1>10, <1>12, <1>13 DEF FlowsTo
<1>15. HeldIn(d1, scope, Len(scope), j)
  BY <1>6, <1>14, HeldLater DEF Stands
<1>16. ScopesFit(f, scope) /\ j \in Blocks(f)
  BY <1>3, <1>7, <1>12, ScopesFitLater
<1>17. Evaluated(f, j, v)
  BY <1>1, <1>12, <1>16, EvalEvaluated
<1>18. PICK d2 : FlowsTo(f, d1, j, v.f, d2, v.at)
  BY <1>1, <1>12, <1>13, <1>15, <1>16, EvalFlows
<1> HIDE DEF v
<1>19. \A x \in new : FlowsTo(func, c, insert, v.f, d2, x)
  <2>1. ASSUME NEW x \in new
        PROVE  FlowsTo(func, c, insert, v.f, d2, x)
    <3>1. x \in Blocks(f)
      BY <1>7, <1>12
    <3>2. FlowsTo(f, d1, x, v.f, d2, x)
      BY <1>18, <3>1, FlowsElsewhere
    <3>3. FlowsTo(func, c, insert, f, d1, x)
      BY <1>14
    <3>4. QED
      BY <3>2, <3>3, FlowsTransitive
  <2>2. QED
    BY <2>1
<1>20. \A x \in new : d2.dom[x] = d1.dom[x] /\ d2.ent[x] = d1.ent[x] /\ x \in Blocks(f)
  BY <1>7, <1>12, <1>18 DEF FlowsTo, Refines
<1>21. EdgeFits(d2, v.at, j + 1) /\ EdgeFits(d2, v.at, j + 2)
  <2>1. ASSUME NEW x \in {j + 1, j + 2}
        PROVE  EdgeFits(d2, v.at, x)
    <3>1. d2.dom[x] = d1.dom[j] \cup {x} /\ d2.ent[x] = 0 /\ d1.rank[j] < d1.rank[x]
          /\ x \in Blocks(f)
      BY <1>9, <1>20
    <3>2. d1.dom[j] \subseteq d2.dom[v.at] /\ d2.rank[v.at] < d2.rank[x]
      BY <1>18, <3>1 DEF FlowsTo, Replaces
    <3>3. QED
      BY <3>1, <3>2 DEF EdgeFits
  <2>2. QED
    BY <2>1
<1>22. /\ Consistent(v.f) /\ Extends(f, v.f) /\ v.at \in Blocks(v.f)
       /\ v.val \in Operands /\ IsValue(v.f, v.val)
       /\ v = [f |-> v.f, at |-> v.at, val |-> v.val]
  BY <1>17 DEF Evaluated, Continues
<1>23. j + 1 \in Blocks(v.f) \ {Entry} /\ j + 2 \in Blocks(v.f) \ {Entry}
  BY <1>7, <1>12, <1>22 DEF Extends
<1>24. Certifies(d2, func')
  <2>1. Certifies(d2, v.f)
    BY <1>18 DEF FlowsTo
  <2>2. QED
    BY <1>2, <1>7, <1>21, <1>22, <1>23, <2>1, BranchCertified
<1>25. Blocks(func') = Blocks(v.f)
  <2>1. BranchedFrom(v.f, v.at, func')
    BY <1>2, <1>7, <1>22, <1>23, BranchLeaves
  <2>2. QED
    BY <2>1 DEF BranchedFrom
<1>26. \A x \in new : FlowsTo(func, c, insert, func', d2, x)
  BY <1>19, <1>24, <1>25 DEF FlowsTo
<1>27. /\ top \in Frames /\ top.kind = "body"
       /\ top.at = j /\ top.next = j + 2
  BY <1>7 DEF Frame, Frames
<1> HIDE DEF top
<1>28. Awaits(top) = {j + 2}
  BY <1>27 DEF Awaits
<1>29. \A q \in Awaits(top) : d2.ent[q] = 0
  BY <1>9, <1>20, <1>28
<1>30. d2.ent[top.at] # 0 /\ Admits(d2, top, insert')
  <2>1. d2.ent[j] # 0
    BY <1>7, <1>9, <1>20
  <2>2. d2.dom[j] \subseteq d2.dom[j + 1]
    BY <1>9, <1>20
  <2>3. QED
    BY <1>2, <1>27, <2>1, <2>2 DEF Admits
<1>31. \A x \in {insert'} \cup Awaits(top) : FlowsTo(func, c, insert, func', d2, x)
  BY <1>2, <1>26, <1>28
<1>32. QED
  BY <1>1, <1>2, <1>6, <1>27, <1>29, <1>30, <1>31, StatementWaits

-----------------------------------------------------------------------------
\* Closing the block that was left is certified where the edge is.
LEMMA CloseBranchCertified ==
    ASSUME Consistent(func), insert \in Blocks(func), NEW target \in Blocks(func) \ {Entry},
           NEW c, Certifies(c, func), EdgeFits(c, insert, target)
    PROVE  Certifies(c, CloseBranch(target))
BY BrCertified DEF CloseBranch

\* What the visit on top of the stack was promised, and what it leaves below.
LEMMA TopPlaced ==
    ASSUME IInv, NEW rest, NEW top, Resumes(rest, top), top.kind \in {"then", "else", "body"},
           NEW c, NEW depth, DepthFits(depth, stack, Len(scope)),
           FramesPlaced(c, stack, scope, depth),
           Stands(c, stack, scope, Len(stack), Len(scope), insert)
    PROVE  /\ Admits(c, top, insert)
           /\ \A q \in Awaits(top) :
                 c.ent[q] = 0 /\ Stands(c, rest, scope, Len(rest), Len(scope), q)
           /\ top.kind = "then" => Admits(c, top, top.at)
           /\ top.kind = "body" => c.ent[top.at] # 0
           /\ DepthFits(depth, rest, Len(scope)) /\ FramesPlaced(c, rest, scope, depth)
<1>1. /\ OnTop(rest, top, stack) /\ rest # << >>
      /\ ScopesFit(func, scope)
  BY DEF Resumes
<1>2. Len(scope) \in Nat /\ Deeper(scope, scope) /\ Len(scope) = Len(scope) + Opening(top)
  <2>1. Len(scope) \in Nat
    BY <1>1, LenProperties DEF ScopesFit
  <2>2. QED
    BY <2>1 DEF Deeper, Opening
<1>3. DepthFits(depth, rest, Len(scope)) /\ FramesPlaced(c, rest, scope, depth)
  BY <1>1, <1>2, StackPopped
<1> DEFINE m == Len(stack)
<1>4. /\ m \in Nat /\ m - 1 = Len(rest) /\ m \in DOMAIN stack /\ m \in 1..m
      /\ stack[m] = top /\ \A k \in 1..Len(rest) : stack[k] = rest[k]
  BY <1>1 DEF OnTop
<1>5. depth[m] = Len(scope)
  BY DEF DepthFits
<1>6. FramePlaced(c, stack, scope, depth, m)
  BY <1>4 DEF FramesPlaced
<1> HIDE DEF m
<1>7. Admits(c, top, insert)
  <2>1. \A i \in 1..m : Admits(c, stack[i], insert)
    BY DEF Stands, m
  <2>2. QED
    BY <1>4, <2>1
<1>8. \A q \in Awaits(top) :
          c.ent[q] = 0 /\ Stands(c, stack, scope, Len(rest), Len(scope), q)
  BY <1>4, <1>5, <1>6 DEF FramePlaced
<1>9. \A q : Stands(c, stack, scope, Len(rest), Len(scope), q) =>
                 Stands(c, rest, scope, Len(rest), Len(scope), q)
  BY <1>4 DEF Stands
<1>10. /\ top.kind = "then" => Admits(c, top, top.at)
       /\ top.kind = "body" => c.ent[top.at] # 0
  BY <1>4, <1>6 DEF FramePlaced
<1>11. QED
  BY <1>3, <1>7, <1>8, <1>9, <1>10

\* The visitor above goes on in a block that was waiting.
LEMMA BranchOver ==
    ASSUME NEW rest, NEW c, NEW depth, Certifies(c, func'),
           DepthFits(depth, rest, Len(scope)), FramesPlaced(c, rest, scope, depth),
           Stands(c, rest, scope, Len(rest), Len(scope), insert'),
           stack' = rest, scope' = scope
    PROVE  FInv'
<1>1. StackPlaced(c, rest, scope, depth, insert')
  BY DEF StackPlaced
<1>2. \E cc, dd : Certifies(cc, func') /\ StackPlaced(cc, stack', scope', dd, insert')
  BY <1>1
<1>3. PICK cc, dd : Certifies(cc, func') /\ StackPlaced(cc, stack', scope', dd, insert')
  BY <1>2
<1>4. FlowInv(cc, dd)'
  BY <1>3 DEF FlowInv
<1>5. QED
  BY <1>4 DEF FInv

\* visit(ASTSelectionStmt) behind the else part.
LEMMA EndElseFInv ==
    ASSUME IInv, FInv, EndElse
    PROVE  FInv'
<1> DEFINE rest == Front(stack)
           top == Last(stack)
<1>1. /\ ctl = "done" /\ top.kind = "else"
      /\ func' = CloseBranch(top.next) /\ insert' = top.next
      /\ stack' = rest /\ scope' = scope
  BY DEF EndElse
<1>2. Resumes(rest, top)
  BY <1>1, DoneResumes
<1> HIDE DEF rest, top
<1>3. top.next \in Blocks(func) \ {Entry} /\ Awaits(top) = {top.next}
      /\ Consistent(func) /\ insert \in Blocks(func)
  BY <1>1, <1>2 DEF Resumes, FrameFits, Awaits
<1>4. PICK c, depth : /\ Certifies(c, func)
                      /\ DepthFits(depth, stack, Len(scope))
                      /\ FramesPlaced(c, stack, scope, depth)
                      /\ Stands(c, stack, scope, Len(stack), Len(scope), insert)
  BY <1>1, FlowFacts
<1>5. /\ Admits(c, top, insert) /\ c.ent[top.next] = 0
      /\ Stands(c, rest, scope, Len(rest), Len(scope), top.next)
      /\ DepthFits(depth, rest, Len(scope)) /\ FramesPlaced(c, rest, scope, depth)
  BY <1>1, <1>2, <1>3, <1>4, TopPlaced
<1>6. EdgeFits(c, insert, top.next)
  BY <1>1, <1>5 DEF Admits, EdgeFits
<1>7. Certifies(c, func')
  BY <1>1, <1>3, <1>4, <1>6, CloseBranchCertified
<1>8. QED
  BY <1>1, <1>5, <1>7, BranchOver

\* visit(ASTIterationStmt) behind the body: the way back to the judging block.
LEMMA EndBodyFInv ==
    ASSUME IInv, FInv, EndBody
    PROVE  FInv'
<1> DEFINE rest == Front(stack)
           top == Last(stack)
<1>1. /\ ctl = "done" /\ top.kind = "body"
      /\ func' = CloseBranch(top.at) /\ insert' = top.next
      /\ stack' = rest /\ scope' = scope
  BY DEF EndBody
<1>2. Resumes(rest, top)
  BY <1>1, DoneResumes
<1> HIDE DEF rest, top
<1>3. top.at \in Blocks(func) \ {Entry} /\ Awaits(top) = {top.next}
      /\ Consistent(func) /\ insert \in Blocks(func)
  BY <1>1, <1>2 DEF Resumes, FrameFits, Awaits
<1>4. PICK c, depth : /\ Certifies(c, func)
                      /\ DepthFits(depth, stack, Len(scope))
                      /\ FramesPlaced(c, stack, scope, depth)
                      /\ Stands(c, stack, scope, Len(stack), Len(scope), insert)
  BY <1>1, FlowFacts
<1>5. /\ Admits(c, top, insert) /\ c.ent[top.at] # 0
      /\ Stands(c, rest, scope, Len(rest), Len(scope), top.next)
      /\ DepthFits(depth, rest, Len(scope)) /\ FramesPlaced(c, rest, scope, depth)
  BY <1>1, <1>2, <1>3, <1>4, TopPlaced
<1>6. EdgeFits(c, insert, top.at)
  <2>1. top.at \in c.dom[top.at]
    BY <1>3, <1>4 DEF Certifies, BlockFits
  <2>2. c.dom[top.at] \subseteq c.dom[insert]
    BY <1>1, <1>5 DEF Admits
  <2>3. QED
    BY <1>5, <2>1, <2>2 DEF EdgeFits
<1>7. Certifies(c, func')
  BY <1>1, <1>3, <1>4, <1>6, CloseBranchCertified
<1>8. QED
  BY <1>1, <1>5, <1>7, BranchOver

\* visit(ASTSelectionStmt) behind the true branch.
LEMMA EndThenFInv ==
    ASSUME IInv, FInv, EndThen
    PROVE  FInv'
<1> DEFINE rest == Front(stack)
           top == Last(stack)
           closed == CloseBranch(top.next)
           fr == Frame("else", 0, top.next, FALSE)
<1>1. ctl = "done" /\ top.kind = "then" /\ scope' = scope
  BY DEF EndThen
<1>2. Resumes(rest, top)
  BY <1>1, DoneResumes
<1>3. /\ top.flag => /\ func' = closed /\ insert' = top.at
                     /\ stack' = Append(rest, fr)
      /\ ~top.flag => /\ func' = CreateBr(closed, top.at, top.next)
                      /\ insert' = top.next /\ stack' = rest
  BY DEF EndThen
<1> HIDE DEF rest, top
<1>4. /\ top.next \in Blocks(func) \ {Entry} /\ top.at \in Blocks(func) \ {Entry}
      /\ Awaits(top) = {top.at, top.next}
      /\ Consistent(func) /\ insert \in Blocks(func)
      /\ OnTop(rest, top, stack) /\ rest # << >> /\ rest \in Seq(Frames)
  BY <1>1, <1>2 DEF Resumes, FrameFits, Awaits, OnTop
<1>5. PICK c, depth : /\ Certifies(c, func)
                      /\ DepthFits(depth, stack, Len(scope))
                      /\ FramesPlaced(c, stack, scope, depth)
                      /\ Stands(c, stack, scope, Len(stack), Len(scope), insert)
  BY <1>1, FlowFacts
<1>6. /\ Admits(c, top, insert) /\ Admits(c, top, top.at) /\ c.ent[top.next] = 0
      /\ Stands(c, rest, scope, Len(rest), Len(scope), top.next)
      /\ Stands(c, rest, scope, Len(rest), Len(scope), top.at)
      /\ DepthFits(depth, rest, Len(scope)) /\ FramesPlaced(c, rest, scope, depth)
  BY <1>1, <1>2, <1>4, <1>5, TopPlaced
<1>7. EdgeFits(c, insert, top.next) /\ EdgeFits(c, top.at, top.next)
  BY <1>1, <1>6 DEF Admits, EdgeFits
<1>8. Certifies(c, closed) /\ BranchedFrom(func, insert, closed)
  BY <1>4, <1>5, <1>7, CloseBranchCertified, CloseBranchLeaves
<1> HIDE DEF closed
<1>9. CASE ~top.flag
  <2>1. func' = CreateBr(closed, top.at, top.next) /\ insert' = top.next /\ stack' = rest
    BY <1>3, <1>9
  <2>2. Consistent(closed) /\ Blocks(closed) = Blocks(func)
    BY <1>8 DEF BranchedFrom
  <2>3. Certifies(c, func')
    BY <1>4, <1>7, <1>8, <2>1, <2>2, BrCertified
  <2>4. QED
    BY <1>1, <1>6, <2>1, <2>3, BranchOver
<1>10. CASE top.flag
  <2>1. func' = closed /\ insert' = top.at /\ stack' = Append(rest, fr)
    BY <1>3, <1>10
  <2>2. fr \in Frames /\ fr.kind = "else" /\ fr.next = top.next
    <3>1. top.next \in Nat
      BY <1>4 DEF OnTop, Frames
    <3>2. QED
      BY <3>1 DEF Frame, Frames
  <2> HIDE DEF fr
  <2>3. Awaits(fr) = {top.next}
    BY <2>2 DEF Awaits
  <2>4. FrameHolds(c, rest, scope, fr)
    BY <1>6, <2>2, <2>3 DEF FrameHolds
  <2>5. Admits(c, fr, top.at)
    BY <1>1, <1>6, <2>2 DEF Admits
  <2>6. Deeper(scope, scope) /\ Len(scope) = Len(scope) + Opening(fr)
    <3>1. ScopesFit(func, scope)
      BY <1>2 DEF Resumes
    <3>2. Len(scope) \in Nat
      BY <3>1, LenProperties DEF ScopesFit
    <3>3. QED
      BY <2>2, <3>2 DEF Deeper, Opening
  <2>7. HeldIn(c, scope, Len(scope), top.at)
    BY <1>6 DEF Stands
  <2>8. OnTop(rest, fr, stack')
    BY <1>4, <2>1, <2>2, PushOnTop
  <2>9. \E deep : StackPlaced(c, stack', scope, deep, top.at)
    BY <1>4, <1>6, <2>4, <2>5, <2>6, <2>7, <2>8, StackPushed
  <2>10. PICK deep : StackPlaced(c, stack', scope', deep, insert')
    BY <1>1, <2>1, <2>9
  <2>11. FlowInv(c, deep)'
    BY <1>8, <2>1, <2>10 DEF FlowInv
  <2>12. QED
    BY <2>11 DEF FInv
<1>11. QED
  BY <1>9, <1>10

-----------------------------------------------------------------------------
\* A step that changes nothing.
LEMMA StutterFInv == FInv /\ UNCHANGED vars => FInv'
<1> SUFFICES ASSUME FInv, UNCHANGED vars
             PROVE  FInv'
  OBVIOUS
<1>1. PICK c, depth : FlowInv(c, depth)
  BY DEF FInv
<1>2. FlowInv(c, depth)'
  BY <1>1 DEF FlowInv, vars
<1>3. QED
  BY <1>2 DEF FInv

\* Every visit keeps a certificate for the function.
LEMMA NextFInv == IInv /\ FInv /\ [Next]_vars => FInv'
<1> SUFFICES ASSUME IInv, FInv, [Next]_vars
             PROVE  FInv'
  OBVIOUS
<1>1. CASE UNCHANGED vars
  BY <1>1, StutterFInv
<1>2. ASSUME NEW n \in Name, VarDeclaration(n)
      PROVE  FInv'
  BY <1>2, VarDeclarationFInv
<1>3. CASE FunDeclaration(<< >>)
  BY <1>3, FunDeclarationFInv
<1>4. ASSUME NEW n \in Name, FunDeclaration(<<n>>)
      PROVE  FInv'
  BY <1>4, FunDeclarationFInv
<1>5. CASE EndFunction
  BY <1>5, EndFunctionFInv
<1>6. CASE OpenCompound
  BY <1>6, OpenCompoundFInv
<1>7. CASE CloseCompound
  BY <1>7, CloseCompoundFInv
<1>8. ASSUME NEW e \in Expr, ExpressionStmt(e) \/ ReturnStmt(e) \/ IterationStmt(e)
      PROVE  FInv'
  BY <1>8, ExpressionStmtFInv, ReturnStmtFInv, IterationStmtFInv
<1>9. ASSUME NEW n \in Name, NEW e \in Expr, AssignStmt(n, e)
      PROVE  FInv'
  BY <1>9, AssignStmtFInv
<1>10. ASSUME NEW e \in Expr, NEW hasElse \in BOOLEAN, SelectionStmt(e, hasElse)
       PROVE  FInv'
  BY <1>10, SelectionStmtFInv
<1>11. CASE EndThen
  BY <1>11, EndThenFInv
<1>12. CASE EndElse
  BY <1>12, EndElseFInv
<1>13. CASE EndBody
  BY <1>13, EndBodyFInv
<1>14. ASSUME NEW e \in Expr, AssignElement(e)
       PROVE  FInv'
  BY <1>14, AssignElementFInv
<1>15. QED
  BY <1>1, <1>2, <1>3, <1>4, <1>5, <1>6, <1>7, <1>8, <1>9, <1>10, <1>11, <1>12, <1>13,
     <1>14, Zenon DEF Next

\* The function under construction is certified in every state.
THEOREM BuilderFlow == Spec => [](IInv /\ FInv)
<1>1. Init => IInv /\ FInv
  BY InitIInv, InitFInv
<1>2. IInv /\ FInv /\ [Next]_vars => (IInv /\ FInv)'
  BY NextIInv, NextFInv
<1>3. QED
  BY <1>1, <1>2, PTL DEF Spec

-----------------------------------------------------------------------------
\* A function that was finished has an entry block.
LEMMA FinishedHasEntry ==
    ASSUME IInv, Finished
    PROVE  Consistent(func) /\ WellFormed(func) /\ Entry \in Blocks(func)
<1>1. Consistent(func) /\ WellFormed(func) /\ func # EmptyFunction
  BY DEF IInv, FunctionInv, Consistent, Finished
<1>2. /\ Blocks(func) = 1..Len(func.code) /\ Len(func.code) \in Nat
      /\ func.pre \in Seq(Seq(Nat)) /\ func.succ \in Seq(Seq(Nat))
      /\ func.code \in Seq(Seq(Instructions))
  BY <1>1, BlocksFacts
<1>3. Len(func.code) # 0
  <2> SUFFICES ASSUME Len(func.code) = 0
               PROVE  FALSE
    OBVIOUS
  <2>1. Len(func.pre) = 0 /\ Len(func.succ) = 0
    BY <1>1 DEF WellFormed
  <2>2. func.pre = << >> /\ func.succ = << >> /\ func.code = << >>
    BY <1>2, <2>1, EmptySeq
  <2>3. func = [pre |-> func.pre, succ |-> func.succ, code |-> func.code]
    BY <1>1 DEF WellFormed, FunctionRecords
  <2>4. QED
    BY <1>1, <2>2, <2>3 DEF EmptyFunction
<1>4. QED
  BY <1>1, <1>2, <1>3 DEF Entry

\* What the certificate lists are dominators.
LEMMA CertifiedDominate ==
    ASSUME NEW f, WellFormed(f), Entry \in Blocks(f), NEW c, Certifies(c, f),
           NEW b \in Reachable(f), NEW d \in c.dom[b]
    PROVE  d \in DominatorSets(f)[b]
<1>1. Claims(f, c.dom)
  BY DEF Claims, Certifies, BlockFits, EdgeFits
<1>2. QED
  BY <1>1, ClaimsDominate

\* Each load and store of a local is dominated by the alloca that makes it.
LEMMA FInvStorage == IInv /\ FInv => StorageDominatesUses
<1> SUFFICES ASSUME IInv, FInv, Finished, NEW b \in DOMAIN DominatorSets(func),
                    NEW k \in DOMAIN func.code[b],
                    func.code[b][k].op \in {"load", "store"},
                    func.code[b][k].var # Global
             PROVE  /\ func.code[b][k].var[1] \in DominatorSets(func)[b]
                    /\ func.code[b][k].var[1] = b => func.code[b][k].var[2] < k
  BY DEF StorageDominatesUses
<1>1. WellFormed(func) /\ Entry \in Blocks(func)
  BY FinishedHasEntry
<1>2. b \in Reachable(func) /\ b \in Blocks(func)
  BY <1>1, DominatorSetsFacts, ReachableFacts
<1>3. PICK c, depth : FlowInv(c, depth)
  BY DEF FInv
<1>4. AccessFits(c, b, k, func.code[b][k]) /\ Certifies(c, func)
  BY <1>2, <1>3 DEF FlowInv, Certifies, BlockFits
<1>5. QED
  BY <1>1, <1>2, <1>4, CertifiedDominate DEF AccessFits

\* In every program's code, the alloca of a local dominates its loads and
\* stores: no path uses a storage that was not made.
THEOREM BuilderStorage == Spec => []StorageDominatesUses
<1>1. IInv /\ FInv => StorageDominatesUses
  BY FInvStorage
<1>2. QED
  BY <1>1, BuilderFlow, PTL

-----------------------------------------------------------------------------
\* The edges that a certified, consistent function has between reachable
\* blocks.
Certified(f, c) ==
    /\ Consistent(f) /\ WellFormed(f) /\ Entry \in Blocks(f)
    /\ Certifies(c, f)

\* A reachable block but the entry is entered from a reachable block of a
\* smaller rank.
LEMMA EnteredFromBelow ==
    ASSUME NEW f, NEW c, Certified(f, c), NEW b \in Reachable(f), b # Entry
    PROVE  \E p \in Reachable(f) : /\ b \in Succ(f, p)
                                   /\ c.ent[b] \in {0, p} /\ c.rank[p] < c.rank[b]
<1> DEFINE live == Reachable(f)
           C == {x \in live : b \notin c.dom[x]}
<1>1. WellFormed(f) /\ Entry \in Blocks(f) /\ Certifies(c, f)
  BY DEF Certified
<1>2. live \subseteq Blocks(f) /\ Entry \in live /\ \A x \in live : Succ(f, x) \subseteq live
  BY <1>1, ReachableFacts
<1>3. Entry \in C
  BY <1>1, <1>2 DEF Certifies
<1>4. b \notin C
  BY <1>1, <1>2 DEF Certifies, BlockFits
<1>5. PICK x \in C : ~(Succ(f, x) \subseteq C)
  <2>1. ~(live \subseteq C)
    BY <1>4
  <2> HIDE DEF C
  <2>2. QED
    BY <1>1, <1>3, <2>1, ReachableFacts
<1>6. PICK t \in Succ(f, x) : t \notin C
  BY <1>5
<1>7. b \in c.dom[t] /\ b \notin c.dom[x] /\ x \in live
  BY <1>2, <1>5, <1>6
<1>8. EdgeFits(c, x, t)
  BY <1>1, <1>2, <1>6, <1>7 DEF Certifies, BlockFits
<1>9. t = b
  BY <1>7, <1>8 DEF EdgeFits
<1>10. QED
  BY <1>6, <1>7, <1>8, <1>9 DEF EdgeFits

\* A dominator's rank is smaller.
LEMMA DominatorsBelow ==
    ASSUME NEW f, NEW c, Certified(f, c), NEW b \in Reachable(f),
           NEW h \in DominatorSets(f)[b], h # b
    PROVE  c.rank[h] < c.rank[b]
<1> DEFINE live == Reachable(f)
           around == ReachAvoiding(f, {Entry}, {h})
           S == {x \in live : x # h /\ c.rank[x] <= c.rank[h] /\ x \notin around}
<1>1. /\ WellFormed(f) /\ Entry \in Blocks(f) /\ Certifies(c, f)
      /\ Blocks(f) = 1..Len(f.code) /\ Len(f.code) \in Nat
  BY BlocksFacts DEF Certified
<1>2. live \subseteq Blocks(f) /\ Entry \in live /\ \A x \in live : Succ(f, x) \subseteq live
  BY <1>1, ReachableFacts
<1>3. /\ around \subseteq Blocks(f) \ {h}
      /\ Entry # h => Entry \in around
      /\ \A x \in around : Succ(f, x) \subseteq around \cup {h}
  BY <1>1, AroundFacts
<1>4. h \in live /\ b \notin around
  BY DominatorSetsFacts DEF Dominates
<1>5. \A x \in Blocks(f) : c.rank[x] \in Nat
  BY <1>1 DEF Certifies, Certificates
<1>6. IsFiniteSet(live)
  <2>1. 1 \in Int /\ Len(f.code) \in Int
    BY <1>1
  <2>2. IsFiniteSet(1..Len(f.code))
    BY <2>1, FS_Interval, Zenon
  <2>3. QED
    BY <1>1, <1>2, <2>2, FS_Subset
<1> HIDE DEF live, around
<1>7. S = {}
  <2> SUFFICES ASSUME S # {}
               PROVE  FALSE
    OBVIOUS
  <2>1. PICK x \in S : \A y \in S : c.rank[x] <= c.rank[y]
    <3>1. S \in SUBSET live /\ \A y \in live : c.rank[y] \in Nat
      BY <1>2, <1>5
    <3> HIDE DEF S
    <3>2. QED
      BY <1>6, <3>1, LeastRank
  <2>2. x # Entry
    BY <1>3, <2>1
  <2>3. PICK p \in live : x \in Succ(f, p) /\ c.rank[p] < c.rank[x]
    BY <2>1, <2>2, EnteredFromBelow DEF live
  <2>4. c.rank[p] \in Nat /\ c.rank[x] \in Nat /\ c.rank[h] \in Nat
    BY <1>2, <1>4, <1>5, <2>1, <2>3
  <2>5. p # h /\ c.rank[p] <= c.rank[h] /\ ~(c.rank[x] <= c.rank[p])
    BY <2>1, <2>3, <2>4
  <2>6. p \in around
    BY <2>1, <2>3, <2>5
  <2>7. QED
    BY <1>3, <2>1, <2>3, <2>6
<1>8. ~(c.rank[b] <= c.rank[h])
  BY <1>4, <1>7 DEF live
<1>9. QED
  BY <1>2, <1>4, <1>5, <1>8 DEF live

\* An edge from a block that its target does not dominate leads to a larger
\* rank.
LEMMA ForwardAscends ==
    ASSUME NEW f, NEW c, Certified(f, c), NEW b \in Reachable(f), NEW t \in Succ(f, b),
           t \notin DominatorSets(f)[b]
    PROVE  c.ent[t] \in {0, b} /\ c.rank[b] < c.rank[t]
<1>1. WellFormed(f) /\ Entry \in Blocks(f) /\ Certifies(c, f)
  BY DEF Certified
<1>2. b \in Blocks(f)
  BY <1>1, ReachableFacts
<1>3. EdgeFits(c, b, t)
  BY <1>1, <1>2 DEF Certifies, BlockFits
<1>4. t \notin c.dom[b]
  BY <1>1, CertifiedDominate
<1>5. QED
  BY <1>3, <1>4 DEF EdgeFits

\* A header is entered from one block only.
LEMMA HeaderEntered ==
    ASSUME NEW f, NEW c, Certified(f, c), NEW h \in Reachable(f),
           NEW b \in Pre(f, h) \cap Reachable(f), h \in DominatorSets(f)[b]
    PROVE  Cardinality({p \in Pre(f, h) \cap Reachable(f) : h \notin DominatorSets(f)[p]}) = 1
<1> DEFINE live == Reachable(f)
           Outside == {p \in Pre(f, h) \cap live : h \notin DominatorSets(f)[p]}
<1>1. /\ Consistent(f) /\ WellFormed(f) /\ Entry \in Blocks(f) /\ Certifies(c, f)
      /\ NoWayBack(f) /\ live \subseteq Blocks(f)
  BY ReachableFacts DEF Certified, Consistent
<1>2. \A p \in live : p \in Pre(f, h) <=> h \in Succ(f, p)
  BY <1>1, PredecessorsAre
<1>3. \A x \in live : c.rank[x] \in Nat
  <2>1. Blocks(f) \subseteq Nat
    BY <1>1, BlocksFacts
  <2>2. QED
    BY <1>1, <2>1 DEF Certifies, Certificates
<1>4. h # Entry
  BY <1>1 DEF NoWayBack, Pre, ToSet
<1>5. c.ent[h] # 0
  <2>1. EdgeFits(c, b, h)
    BY <1>1, <1>2 DEF Certifies, BlockFits
  <2>2. h = b \/ c.rank[h] < c.rank[b]
    BY DominatorsBelow
  <2>3. ~(c.rank[b] < c.rank[h])
    BY <1>3, <2>2
  <2>4. QED
    BY <2>1, <2>3 DEF EdgeFits
<1>6. PICK p \in live : h \in Succ(f, p) /\ c.ent[h] \in {0, p} /\ c.rank[p] < c.rank[h]
  BY <1>4, EnteredFromBelow
<1>7. p \in Outside
  <2>1. ASSUME h \in DominatorSets(f)[p]
        PROVE  FALSE
    <3>1. h = p \/ c.rank[h] < c.rank[p]
      BY <2>1, DominatorsBelow
    <3>2. QED
      BY <1>3, <1>6, <3>1
  <2>2. QED
    BY <1>2, <1>6, <2>1
<1>8. ASSUME NEW q \in Outside
      PROVE  q = p
  <2>1. c.ent[h] \in {0, q}
    BY <1>2, ForwardAscends
  <2>2. QED
    BY <1>5, <1>6, <2>1
<1>9. Outside = {p}
  BY <1>7, <1>8
<1>10. Cardinality({p}) = 1
  BY FS_Singleton
<1>11. QED
  BY <1>9, <1>10

\* Where the edges that are not back edges lead on to from S.
Onwards(f, S) ==
    LET doms == DominatorSets(f)
        live == DOMAIN doms
        Forward(b) == {t \in Succ(f, b) : t \notin doms[b]}
        R[Q \in SUBSET live] ==
            LET T == Q \cup UNION {Forward(e) : e \in Q}
            IN  IF T = Q THEN Q ELSE R[T]
    IN  R[S]

\* They never lead back: the ranks grow.
LEMMA OnwardsAscends ==
    ASSUME NEW f, NEW c, Certified(f, c), NEW h \in Reachable(f)
    PROVE  h \notin Onwards(f, {t \in Succ(f, h) : t \notin DominatorSets(f)[h]})
<1> DEFINE doms == DominatorSets(f)
           U == Reachable(f)
           next == [b \in U |-> {t \in Succ(f, b) : t \notin doms[b]}]
           R == CHOOSE R : R = [Q \in SUBSET U |->
                    LET T == Q \cup UNION {{t \in Succ(f, e) : t \notin doms[e]} : e \in Q}
                    IN  IF T = Q THEN Q ELSE R[T]]
           Above == {x \in U : c.rank[h] < c.rank[x]}
<1>1. /\ WellFormed(f) /\ Entry \in Blocks(f)
      /\ Blocks(f) = 1..Len(f.code) /\ Len(f.code) \in Nat
      /\ \A x \in Blocks(f) : c.rank[x] \in Nat
  BY BlocksFacts DEF Certified, Certifies, Certificates
<1>2. U \subseteq Blocks(f) /\ \A b \in U : Succ(f, b) \subseteq U
  BY <1>1, ReachableFacts
<1>3. DOMAIN doms = U
  BY DominatorSetsFacts
<1>4. IsFiniteSet(U)
  <2>1. 1 \in Int /\ Len(f.code) \in Int
    BY <1>1
  <2>2. IsFiniteSet(1..Len(f.code))
    BY <2>1, FS_Interval, Zenon
  <2>3. QED
    BY <1>1, <1>2, <2>2, FS_Subset
<1>5. \A S \in SUBSET U : Onwards(f, S) = R[S]
  BY <1>3 DEF Onwards
<1>6. next \in [U -> SUBSET U]
  BY <1>2
<1>7. \A Q : Searches(Q, U, next, {}) <=>
          Q = [S \in SUBSET U |->
                    LET T == S \cup UNION {{t \in Succ(f, e) : t \notin doms[e]} : e \in S}
                    IN  IF T = S THEN S ELSE Q[T]]
  <2>1. \A S \in SUBSET U :
            Grown(S, next, {}) = S \cup UNION {{t \in Succ(f, e) : t \notin doms[e]} : e \in S}
    BY DEF Grown
  <2> HIDE DEF U, next, doms
  <2>2. QED
    BY <2>1 DEF Searches
<1>8. Searches(R, U, next, {})
  <2> HIDE DEF U, next, doms
  <2>1. \E Q : Searches(Q, U, next, {})
    BY <1>6, SearchExists
  <2>2. QED
    BY <1>7, <2>1
<1> HIDE DEF R
<1>9. next[h] \in SUBSET U
  BY <1>6
<1>10. R[next[h]] = Least(next[h], U, next, {})
  <2> HIDE DEF U, next
  <2>1. next[h] \in SUBSET (U \ {})
    BY <1>9
  <2>2. QED
    BY <1>4, <1>6, <1>8, <2>1, SearchFindsLeast
<1>11. \A b \in U : \A t \in next[b] : c.rank[b] < c.rank[t]
  BY ForwardAscends
<1>12. next[h] \subseteq Above
  BY <1>9, <1>11
<1>13. Closed(Above, next, {})
  <2>1. \A b \in Above : next[b] \subseteq Above
    <3> SUFFICES ASSUME NEW b \in Above, NEW t \in next[b]
                 PROVE  t \in Above
      OBVIOUS
    <3>1. t \in U /\ b \in U /\ c.rank[b] < c.rank[t] /\ c.rank[h] < c.rank[b]
      BY <1>6, <1>11
    <3>2. c.rank[t] \in Nat /\ c.rank[b] \in Nat /\ c.rank[h] \in Nat
      BY <1>1, <1>2, <3>1
    <3> HIDE DEF U, next
    <3>3. QED
      BY <3>1, <3>2
  <2> HIDE DEF Above, next
  <2>2. QED
    BY <2>1 DEF Closed
<1>14. h \notin Above
  BY <1>1, <1>2
<1>15. h \notin R[next[h]]
  <2>1. Above \in SUBSET U
    OBVIOUS
  <2> HIDE DEF Above, next, U
  <2>2. QED
    BY <1>10, <1>12, <1>13, <1>14, <2>1 DEF Least
<1>16. QED
  BY <1>5, <1>9, <1>15

\* Every cycle passes through an edge back to a dominator, whose target is
\* entered from one block only.
LEMMA FInvLoops == IInv /\ FInv => LoopsHaveOneEntry
<1> SUFFICES ASSUME IInv, FInv, Finished
             PROVE  LoopsHaveOneEntry
  BY DEF LoopsHaveOneEntry
<1> DEFINE doms == DominatorSets(func)
           live == DOMAIN doms
<1>1. PICK c, depth : FlowInv(c, depth)
  BY DEF FInv
<1>2. Certified(func, c)
  BY <1>1, FinishedHasEntry DEF Certified, FlowInv
<1>3. live = Reachable(func)
  BY DominatorSetsFacts
<1>4. func.pre[Entry] = << >>
  BY <1>2 DEF Certified, Consistent, NoWayBack
<1>5. \A h \in live : h \notin Onwards(func, {t \in Succ(func, h) : t \notin doms[h]})
  BY <1>2, <1>3, OnwardsAscends
<1>6. \A h \in live :
          (\E b \in Pre(func, h) \cap live : h \in doms[b]) =>
              Cardinality({p \in Pre(func, h) \cap live : h \notin doms[p]}) = 1
  BY <1>2, <1>3, HeaderEntered
<1>7. QED
  BY <1>4, <1>5, <1>6 DEF LoopsHaveOneEntry, Onwards

\* The graph that the visitor makes of any program has natural loops only,
\* entered from one block, as LoopSearch and LoopInvHoist take them.
THEOREM BuilderLoops == Spec => []LoopsHaveOneEntry
<1>1. IInv /\ FInv => LoopsHaveOneEntry
  BY FInvLoops
<1>2. QED
  BY <1>1, BuilderFlow, PTL

-----------------------------------------------------------------------------
(* Where the branches are.  lightir.md's one terminator per block fails for *)
(* statements behind a return, but a branch ends its block: the visitor     *)
(* never comes back to a block that it has left by one.                     *)

\* Nothing stands behind a branch, the instruction that has targets.
BranchesLast(f) ==
    \A b \in Blocks(f) : \A k \in DOMAIN f.code[b] :
        f.code[b][k].to # << >> => k = Len(f.code[b])

Unbranched(f, b) == \A k \in DOMAIN f.code[b] : f.code[b][k].to = << >>

\* No two pending visits wait for the same block.
Apart(stk) ==
    /\ \A k \in DOMAIN stk : stk[k].kind = "then" => stk[k].at # stk[k].next
    /\ \A j, k \in DOMAIN stk : j # k => Awaits(stk[j]) \cap Awaits(stk[k]) = {}

\* The code stands in b, and it and the blocks waited for have no branch yet.
Waiting(f, stk, b) ==
    /\ Apart(stk) /\ b \notin Awaited(stk)
    /\ \A q \in Awaited(stk) \cup {b} : Unbranched(f, q)

\* What is written between f and g: to the blocks W and to new ones.
Writes(f, W, g) ==
    /\ Blocks(f) \subseteq Blocks(g) /\ BranchesLast(g)
    /\ \A x \in Blocks(f) \ W : g.code[x] = f.code[x]

\* The same from block b on, with c as the block where the code then stands.
Straight(f, b, g, c) ==
    Writes(f, {b}, g) /\ c \in Blocks(g) /\ Unbranched(g, c) /\ (c = b \/ c \notin Blocks(f))

\* The code is moved on from c.
LEMMA StraightOn ==
    ASSUME NEW f, NEW b, NEW g, NEW c, NEW h, NEW d,
           Straight(f, b, g, c), Straight(g, c, h, d)
    PROVE  Straight(f, b, h, d)
BY DEF Straight, Writes

\* Where nothing has been written, no branch has come.
LEMMA UnbranchedLater ==
    ASSUME NEW f, NEW W, NEW g, Writes(f, W, g), NEW x \in Blocks(f) \ W, Unbranched(f, x)
    PROVE  Unbranched(g, x)
BY DEF Writes, Unbranched

\* One instruction at the end of a block without a branch.
LEMMA AppendStraight ==
    ASSUME NEW f, WellFormed(f), BranchesLast(f), NEW b \in Blocks(f), Unbranched(f, b),
           NEW j, NEW g, g.code = [f.code EXCEPT ![b] = Append(f.code[b], j)]
    PROVE  /\ Writes(f, {b}, g) /\ Blocks(g) = Blocks(f)
           /\ j.to = << >> => Straight(f, b, g, b)
<1> DEFINE s == f.code[b]
           n == Len(s)
           t == Append(s, j)
<1>1. Blocks(g) = Blocks(f) /\ g.code[b] = t /\ \A x \in Blocks(f) \ {b} : g.code[x] = f.code[x]
  BY DEF Blocks
<1>2. s \in Seq(Instructions \cup {j})
  <2>1. s \in Seq(Instructions)
    BY BlocksFacts, ElementOfSeq
  <2>2. QED
    BY <2>1
<1> HIDE DEF s
<1>3. /\ n \in Nat /\ DOMAIN s = 1..n /\ Len(t) = n + 1 /\ DOMAIN t = 1..(n + 1)
      /\ t[n + 1] = j /\ \A k \in 1..n : t[k] = s[k]
  BY <1>2
<1> HIDE DEF n, t
<1>4. \A k \in 1..n : s[k].to = << >>
  BY <1>3 DEF Unbranched, s
<1>5. \A k \in DOMAIN t : k = n + 1 \/ (k \in 1..n /\ t[k].to = << >>)
  BY <1>3, <1>4
<1>6. BranchesLast(g)
  <2> SUFFICES ASSUME NEW x \in Blocks(g), NEW k \in DOMAIN g.code[x], g.code[x][k].to # << >>
               PROVE  k = Len(g.code[x])
    BY DEF BranchesLast
  <2>1. CASE x = b
    BY <1>1, <1>3, <1>5, <2>1
  <2>2. CASE x # b
    BY <1>1, <2>2 DEF BranchesLast
  <2>3. QED
    BY <2>1, <2>2
<1>7. j.to = << >> => Unbranched(g, b)
  BY <1>1, <1>3, <1>5 DEF Unbranched
<1>8. QED
  BY <1>1, <1>6, <1>7 DEF Writes, Straight

\* An instruction that is no branch.
LEMMA AddStraight ==
    ASSUME NEW f, WellFormed(f), BranchesLast(f), NEW b \in Blocks(f), Unbranched(f, b),
           NEW op, NEW var, NEW args
    PROVE  Straight(f, b, AddInstruction(f, b, Instruction(op, << >>, var, args)), b)
<1> DEFINE i == Instruction(op, << >>, var, args)
           j == [i EXCEPT !.id = NextPlace(f, b)]
           g == AddInstruction(f, b, i)
<1>1. j.to = << >>
  BY DEF Instruction
<1>2. g.code = [f.code EXCEPT ![b] = Append(f.code[b], j)]
  BY DEF AddInstruction, WellFormed, FunctionRecords
<1> HIDE DEF i, j, g
<1>3. QED
  BY <1>1, <1>2, AppendStraight DEF i, g

\* The kinds of instruction that the visitor emits besides branches.
LEMMA AddedStraight ==
    ASSUME NEW f, WellFormed(f), BranchesLast(f), NEW b \in Blocks(f), Unbranched(f, b)
    PROVE  /\ Straight(f, b, AddInstruction(f, b, Call), b)
           /\ \A s : /\ Straight(f, b, AddInstruction(f, b, Alloca(s)), b)
                     /\ Straight(f, b, AddInstruction(f, b, Load(s)), b)
                     /\ Straight(f, b, AddInstruction(f, b, Ret(s)), b)
           /\ \A s, v : Straight(f, b, AddInstruction(f, b, Store(s, v)), b)
           /\ \A args : \A op \in {"add", "ne", "lt", "gep"} :
                 Straight(f, b, AddInstruction(f, b, Pure(op, args)), b)
<1>1. \A op, var, args :
        Straight(f, b, AddInstruction(f, b, Instruction(op, << >>, var, args)), b)
  BY AddStraight
<1>2. QED
  BY <1>1 DEF Call, Alloca, Load, Ret, Store, Pure

\* A block is made.
LEMMA NewBlockStraight ==
    ASSUME NEW f, WellFormed(f), BranchesLast(f)
    PROVE  /\ Writes(f, {}, NewBlock(f))
           /\ Unbranched(NewBlock(f), NewestBlock(f) + 1)
<1>1. LET g == NewBlock(f)
      IN  /\ Blocks(g) = Blocks(f) \cup {Len(f.code) + 1}
          /\ \A b \in Blocks(f) : g.code[b] = f.code[b]
          /\ g.code[Len(f.code) + 1] = << >>
  BY NewBlockFacts
<1>2. QED
  BY <1>1 DEF Writes, BranchesLast, Unbranched, NewestBlock

\* The branches of create_br and create_cond_br.
LEMMA BranchWrites ==
    ASSUME NEW f, WellFormed(f), BranchesLast(f), NEW b \in Blocks(f), Unbranched(f, b),
           NEW t, NEW c, NEW e
    PROVE  Writes(f, {b}, CreateBr(f, b, t)) /\ Writes(f, {b}, CreateCondBr(f, b, c, t, e))
<1>1. ASSUME NEW h, h = [pre |-> h.pre, succ |-> h.succ, code |-> f.code], NEW i
      PROVE  Writes(f, {b}, AddInstruction(h, b, i))
  <2> DEFINE g == AddInstruction(h, b, i)
             j == [i EXCEPT !.id = NextPlace(h, b)]
  <2>1. g.code = [f.code EXCEPT ![b] = Append(f.code[b], j)]
    BY <1>1 DEF AddInstruction
  <2> HIDE DEF g, j
  <2>2. QED
    BY <2>1, AppendStraight DEF g
<1>2. f = [pre |-> f.pre, succ |-> f.succ, code |-> f.code]
  BY DEF WellFormed, FunctionRecords
<1>3. ASSUME NEW h, h = [pre |-> h.pre, succ |-> h.succ, code |-> f.code], NEW x, NEW y
      PROVE  /\ AddPre(h, x, y) = [pre |-> AddPre(h, x, y).pre, succ |-> AddPre(h, x, y).succ,
                                   code |-> f.code]
             /\ AddSucc(h, x, y) = [pre |-> AddSucc(h, x, y).pre, succ |-> AddSucc(h, x, y).succ,
                                    code |-> f.code]
  <2> DEFINE P == h.pre
             S == h.succ
             C == f.code
  <2>1. h = [pre |-> P, succ |-> S, code |-> C]
    BY <1>3
  <2>2. /\ AddPre(h, x, y) = [h EXCEPT !.pre = [P EXCEPT ![x] = Append(P[x], y)]]
        /\ AddSucc(h, x, y) = [h EXCEPT !.succ = [S EXCEPT ![x] = Append(S[x], y)]]
    BY DEF AddPre, AddSucc
  <2> HIDE DEF P, S, C
  <2>3. /\ AddPre(h, x, y) = [pre |-> [P EXCEPT ![x] = Append(P[x], y)], succ |-> S, code |-> C]
        /\ AddSucc(h, x, y) = [pre |-> P, succ |-> [S EXCEPT ![x] = Append(S[x], y)], code |-> C]
    BY <2>1, <2>2
  <2>4. QED
    BY <2>3 DEF C
<1>4. Writes(f, {b}, CreateBr(f, b, t))
  <2> DEFINE p == AddPre(f, t, b)
             q == AddSucc(p, b, t)
  <2>1. p = [pre |-> p.pre, succ |-> p.succ, code |-> f.code]
    BY <1>2, <1>3
  <2> HIDE DEF p
  <2>2. q = [pre |-> q.pre, succ |-> q.succ, code |-> f.code]
    BY <1>3, <2>1
  <2> HIDE DEF q
  <2>3. QED
    BY <1>1, <2>2 DEF CreateBr, p, q
<1>5. Writes(f, {b}, CreateCondBr(f, b, c, t, e))
  <2> DEFINE p == AddPre(f, t, b)
             q == AddPre(p, e, b)
             r == AddSucc(q, b, e)
             h == AddSucc(r, b, t)
  <2>1. p = [pre |-> p.pre, succ |-> p.succ, code |-> f.code]
    BY <1>2, <1>3
  <2> HIDE DEF p
  <2>2. q = [pre |-> q.pre, succ |-> q.succ, code |-> f.code]
    BY <1>3, <2>1
  <2> HIDE DEF q
  <2>3. r = [pre |-> r.pre, succ |-> r.succ, code |-> f.code]
    BY <1>3, <2>2
  <2> HIDE DEF r
  <2>4. h = [pre |-> h.pre, succ |-> h.succ, code |-> f.code]
    BY <1>3, <2>3
  <2> HIDE DEF h
  <2>5. QED
    BY <1>1, <2>4 DEF CreateCondBr, p, q, r, h
<1>6. QED
  BY <1>4, <1>5

\* The check of an index: what follows goes to the second of two new blocks.
LEMMA CheckIndexStraight ==
    ASSUME NEW f, Consistent(f), BranchesLast(f), NEW b \in Blocks(f), Unbranched(f, b),
           NEW i \in Operands, IsValue(f, i)
    PROVE  Straight(f, b, CheckIndex(f, b, i), NewestBlock(f) + 2)
<1> DEFINE t == NewestBlock(f) + 1
           c == AddInstruction(f, b, Pure("lt", <<i, Literal(0)>>))
           d == NewBlock(c)
           e == NewBlock(d)
           v == NextPlace(f, b)
           g == CreateCondBr(e, b, v, t, t + 1)
           h == AddInstruction(g, t, Call)
           r == AddInstruction(h, t, Ret(Literal(0)))
<1>1. CheckIndex(f, b, i) = r
  BY DEF CheckIndex
<1>2. Literal(0) \in Operands /\ IsValue(f, Literal(0))
  BY LiteralFacts
<1>3. Added(f, b, "lt", c) /\ Straight(f, b, c, b)
  BY <1>2, AddedPlain, AddedStraight DEF Consistent
<1> HIDE DEF c
<1>4. Consistent(c) /\ Blocks(c) = Blocks(f) /\ NewestBlock(c) = NewestBlock(f)
  BY <1>3, SameNewest DEF Added, Continues
<1>5. /\ BlockAdded(c, d) /\ WellFormed(c) /\ BranchesLast(c) /\ Unbranched(c, b)
      /\ Writes(c, {}, d) /\ Unbranched(d, t)
  BY <1>3, <1>4, NewBlockAdded, NewBlockStraight DEF Consistent, Straight, Writes
<1> HIDE DEF d
<1>6. BlockAdded(d, e) /\ Writes(d, {}, e) /\ Unbranched(e, NewestBlock(d) + 1)
  BY <1>5, NewBlockAdded, NewBlockStraight DEF BlockAdded, Consistent, Writes
<1> HIDE DEF e
<1>7. NewestBlock(f) \in Nat /\ NewestBlock(d) = t /\ Blocks(f) = 1..NewestBlock(f)
      /\ NewestBlock(f) >= 1
  BY <1>4, <1>5, NewestBlockFacts DEF BlockAdded
<1>8. Blocks(e) = Blocks(f) \cup {t, t + 1} /\ Consistent(e) /\ Blocks(d) = Blocks(f) \cup {t}
  BY <1>3, <1>4, <1>5, <1>6, <1>7 DEF Added, BlockAdded
<1>9. v \in Operands /\ IsValue(e, v)
  BY <1>3, <1>5, <1>6, ExtendsPlaces, ExtendsTransitive DEF Added, BlockAdded, IsValue
<1> HIDE DEF v
<1>10. t \in Blocks(e) /\ t + 1 \in Blocks(e) /\ b \in Blocks(e)
       /\ t # Entry /\ t + 1 # Entry /\ t # t + 1 /\ t # b /\ t + 1 # b
       /\ t \notin Blocks(f) /\ t + 1 \notin Blocks(f) /\ t + 1 \notin Blocks(d)
  BY <1>7, <1>8 DEF Entry
<1> HIDE DEF t
<1>11. Unbranched(e, b) /\ Unbranched(e, t) /\ Unbranched(e, t + 1) /\ BranchesLast(e)
  BY <1>4, <1>5, <1>6, <1>7, <1>8, UnbranchedLater DEF Writes
<1>12. Writes(e, {b}, g) /\ BranchedFrom(e, b, g)
  BY <1>8, <1>9, <1>10, <1>11, BranchWrites, CondBrBranches DEF Consistent
<1> HIDE DEF g
<1>13. /\ Consistent(g) /\ WellFormed(g) /\ Blocks(g) = Blocks(e) /\ BranchesLast(g)
       /\ Unbranched(g, t) /\ Unbranched(g, t + 1)
  BY <1>10, <1>11, <1>12, UnbranchedLater DEF BranchedFrom, Consistent, Writes
<1>14. Added(g, t, "call", h) /\ Straight(g, t, h, t)
  BY <1>10, <1>13, AddedStraight, AddedPlain
<1> HIDE DEF h
<1>15. WellFormed(h) /\ Blocks(h) = Blocks(e) /\ BranchesLast(h) /\ Unbranched(h, t)
  BY <1>13, <1>14 DEF Added, Continues, Consistent, Straight, Writes
<1>16. Straight(h, t, r, t)
  BY <1>10, <1>15, AddedStraight
<1> HIDE DEF r
<1>17. Unbranched(r, t + 1)
  <2>1. Unbranched(h, t + 1)
    BY <1>10, <1>13, <1>14, UnbranchedLater DEF Straight
  <2>2. QED
    BY <1>10, <1>15, <1>16, <2>1, UnbranchedLater DEF Straight
<1>18. Writes(f, {b}, r)
  <2>1. BranchesLast(r) /\ Blocks(e) \subseteq Blocks(r)
    BY <1>15, <1>16 DEF Straight, Writes
  <2>2. ASSUME NEW x \in Blocks(f) \ {b}
        PROVE  r.code[x] = f.code[x]
    <3>1. x # t
      BY <1>10
    <3>2. c.code[x] = f.code[x]
      BY <1>3 DEF Straight, Writes
    <3>3. d.code[x] = c.code[x]
      BY <1>4, <1>5 DEF Writes
    <3>4. e.code[x] = d.code[x]
      BY <1>6, <1>8 DEF Writes
    <3>5. g.code[x] = e.code[x]
      BY <1>8, <1>12 DEF Writes
    <3>6. h.code[x] = g.code[x]
      BY <1>8, <1>13, <1>14, <3>1 DEF Straight, Writes
    <3>7. r.code[x] = h.code[x]
      BY <1>8, <1>15, <1>16, <3>1 DEF Straight, Writes
    <3>8. QED
      BY <3>2, <3>3, <3>4, <3>5, <3>6, <3>7
  <2>3. QED
    BY <1>8, <2>1, <2>2 DEF Writes
<1>19. t + 1 = NewestBlock(f) + 2
  BY <1>7 DEF t
<1>20. t + 1 \in Blocks(r)
  BY <1>10, <1>15, <1>16 DEF Straight, Writes
<1>21. Straight(f, b, r, t + 1)
  BY <1>10, <1>17, <1>18, <1>20 DEF Straight
<1>22. QED
  BY <1>1, <1>19, <1>21

\* The code stands where it can be added to.
Stood(r) ==
    /\ r = [f |-> r.f, at |-> r.at, val |-> r.val]
    /\ Consistent(r.f) /\ r.at \in Blocks(r.f)
    /\ BranchesLast(r.f) /\ Unbranched(r.f, r.at)

\* The address of an element.
LEMMA ElementStraight ==
    ASSUME NEW r, Stood(r)
    PROVE  Straight(r.f, r.at, Element(r).f, Element(r).at) /\ Stood(Element(r))
<1> DEFINE g == CheckIndex(r.f, r.at, Literal(1))
           c == NewestBlock(g)
           h == AddInstruction(g, c, Pure("gep", <<Global, Literal(1)>>))
<1>1. Element(r) = [f |-> h, at |-> c, val |-> NextPlace(g, c)]
  BY DEF Element, AddressOf
<1>2. Literal(1) \in Operands /\ IsValue(r.f, Literal(1))
  BY LiteralFacts
<1>3. Continues(r.f, r.at, g, c) /\ Straight(r.f, r.at, g, c)
  BY <1>2, CheckIndexContinues, CheckIndexStraight DEF Stood
<1> HIDE DEF g
<1>4. Consistent(g) /\ c \in Blocks(g)
  BY <1>3 DEF Continues
<1>5. /\ Global \in Operands /\ IsValue(g, Global)
      /\ Literal(1) \in Operands /\ IsValue(g, Literal(1))
  BY <1>2 DEF Global, Operands, IsValue, IsPlace, Literal, IsInstruction
<1> HIDE DEF c
<1>6. Added(g, c, "gep", h) /\ Straight(g, c, h, c)
  BY <1>3, <1>4, <1>5, AddedPlain, AddedStraight DEF Consistent, Straight, Writes
<1> HIDE DEF h
<1>7. Stood(Element(r))
  BY <1>1, <1>6 DEF Stood, Added, Continues, Straight, Writes
<1>8. QED
  BY <1>1, <1>3, <1>6, <1>7, StraightOn

\* The visit of a term.
LEMMA TermStraight ==
    ASSUME NEW r, Stood(r), NEW e
    PROVE  Straight(r.f, r.at, Term(r, e).f, Term(r, e).at)
<1> DEFINE v == Term(r, e)
<1>1. WellFormed(r.f)
  BY DEF Stood, Consistent
<1>2. Straight(r.f, r.at, r.f, r.at)
  BY DEF Stood, Straight, Writes
<1>3. CASE e = "0" \/ e = "1"
  <2>1. v.f = r.f /\ v.at = r.at
    BY <1>3 DEF Term, Stood
  <2>2. QED
    BY <1>2, <2>1
<1>4. CASE e = "call"
  <2>1. v.f = AddInstruction(r.f, r.at, Call) /\ v.at = r.at
    BY <1>4 DEF Term, Stood
  <2>2. QED
    BY <1>1, <2>1, AddedStraight DEF Stood
<1>5. CASE e = "index"
  <2> DEFINE a == Element(r)
             k == AddInstruction(a.f, a.at, Load(a.val))
  <2>1. v.f = k /\ v.at = a.at
    BY <1>5 DEF Term, LoadedFrom
  <2>2. Straight(r.f, r.at, a.f, a.at) /\ Stood(a)
    BY ElementStraight
  <2> HIDE DEF a
  <2>3. Straight(a.f, a.at, k, a.at)
    BY <2>2, AddedStraight DEF Stood, Consistent
  <2> HIDE DEF k
  <2>4. QED
    BY <2>1, <2>2, <2>3, StraightOn
<1>6. CASE e \notin {"0", "1", "call", "index"}
  <2>1. v.f = AddInstruction(r.f, r.at, Load(Find(scope, e))) /\ v.at = r.at
    BY <1>6 DEF Term, Stood
  <2>2. QED
    BY <1>1, <2>1, AddedStraight DEF Stood
<1>7. QED
  BY <1>3, <1>4, <1>5, <1>6

\* The visit of an expression.
LEMMA EvalStraight ==
    ASSUME NEW f, Consistent(f), BranchesLast(f), NEW b \in Blocks(f), Unbranched(f, b),
           ScopesFit(f, scope), NEW e \in Expr, Declared(e)
    PROVE  LET v == Eval(f, b, e) IN Straight(f, b, v.f, v.at)
<1> DEFINE r0 == [f |-> f, at |-> b, val |-> Literal(0)]
           r == Term(r0, e[1])
           q == Term(r, e[2])
           terms == {"0", "1", "call", "index"} \cup Name
<1>1. e \in Seq(terms) /\ Len(e) \in {1, 2}
  BY CminusfBuilderAssumption
<1>2. ASSUME NEW k \in 1..Len(e)
      PROVE  e[k] \in terms /\ Known(e[k])
  <2>1. e[k] \in terms /\ k \in DOMAIN e
    <3> HIDE DEF terms
    <3>1. QED
      BY <1>1, ElementOfSeq, LenProperties
  <2>2. e[k] \in ToSet(e)
    BY <2>1 DEF ToSet
  <2>3. QED
    BY <2>1, <2>2 DEF Known, Declared
<1>3. Evaluated(f, b, r0) /\ Stood(r0) /\ r0.f = f /\ r0.at = b
  BY ContinuesReflexive, LiteralFacts DEF Evaluated, Stood
<1>4. 1 \in 1..Len(e) /\ (Len(e) = 1 \/ Len(e) = 2)
  <2>1. Len(e) = 1 \/ Len(e) = 2
    BY <1>1, Zenon
  <2>2. QED
    BY <2>1
<1> HIDE DEF r0
<1>5. Evaluated(f, b, r) /\ Straight(f, b, r.f, r.at) /\ Stood(r)
  <2>1. e[1] \in terms /\ Known(e[1])
    BY <1>2, <1>4
  <2>2. Evaluated(f, b, r) /\ Straight(f, b, r.f, r.at)
    BY <1>3, <2>1, TermEvaluated, TermStraight
  <2>3. QED
    BY <2>2 DEF Evaluated, Continues, Stood, Straight, Writes
<1> HIDE DEF r
<1>6. CASE Len(e) = 1
  BY <1>5, <1>6 DEF Eval, r, r0
<1>7. CASE Len(e) = 2
  <2> DEFINE g == AddInstruction(q.f, q.at, Pure("add", <<r.val, q.val>>))
             p == NextPlace(q.f, q.at)
  <2>1. 2 \in 1..Len(e)
    BY <1>7
  <2>2. e[2] \in terms /\ Known(e[2])
    BY <1>2, <2>1
  <2>3. Evaluated(r.f, r.at, r) /\ ScopesFit(r.f, scope)
    BY <1>5, ContinuesReflexive, ScopesFitLater DEF Evaluated, Continues
  <2>4. Evaluated(r.f, r.at, q) /\ Straight(r.f, r.at, q.f, q.at)
    BY <1>5, <2>2, <2>3, TermEvaluated, TermStraight
  <2>5. AddTerm(r, e[2]) = [q EXCEPT !.f = g, !.val = p]
    BY DEF AddTerm
  <2> HIDE DEF q
  <2>6. Straight(q.f, q.at, g, q.at)
    BY <2>4, AddedStraight DEF Evaluated, Continues, Consistent, Straight, Writes
  <2> HIDE DEF g, p
  <2>7. AddTerm(r, e[2]) = [f |-> g, at |-> q.at, val |-> p]
    BY <2>4, <2>5 DEF Evaluated
  <2>8. Eval(f, b, e) = AddTerm(r, e[2])
    BY <1>7 DEF Eval, r, r0
  <2>9. Straight(f, b, g, q.at)
    BY <1>5, <2>4, <2>6, StraightOn
  <2>10. QED
    BY <2>7, <2>8, <2>9
<1>8. QED
  BY <1>4, <1>6, <1>7

-----------------------------------------------------------------------------
(* The visits.                                                             *)

\* What the visits keep.
BranchInv ==
    /\ BranchesLast(func)
    /\ ctl # "global" => Waiting(func, stack, insert)

\* The code moves on, the pending visits stay.
LEMMA WaitingOn ==
    ASSUME NEW f, NEW stk, StackFits(f, stk), NEW b, Waiting(f, stk, b),
           NEW g, NEW c, Straight(f, b, g, c)
    PROVE  Waiting(g, stk, c)
<1>1. Awaited(stk) \subseteq Blocks(f) \ {b}
  BY DEF StackFits, FrameFits, Awaited, Waiting
<1>2. \A q \in Awaited(stk) : Unbranched(g, q)
  BY <1>1, UnbranchedLater DEF Waiting, Straight
<1>3. c \notin Awaited(stk)
  BY <1>1 DEF Straight
<1>4. QED
  BY <1>2, <1>3 DEF Waiting, Straight

\* One pending visit more, or less.
LEMMA ApartOnTop ==
    ASSUME NEW rest, NEW frame, NEW stk, OnTop(rest, frame, stk)
    PROVE  /\ Apart(stk) => /\ Apart(rest) /\ Awaits(frame) \cap Awaited(rest) = {}
                            /\ frame.kind = "then" => frame.at # frame.next
           /\ /\ Apart(rest) /\ Awaits(frame) \cap Awaited(rest) = {}
              /\ frame.kind = "then" => frame.at # frame.next
              => Apart(stk)
<1> DEFINE n == Len(stk)
<1>1. /\ DOMAIN stk = DOMAIN rest \cup {n} /\ n \notin DOMAIN rest /\ stk[n] = frame
      /\ \A k \in DOMAIN rest : stk[k] = rest[k]
  BY DEF OnTop
<1> HIDE DEF n
<1>2. ASSUME Apart(stk)
      PROVE  /\ Apart(rest) /\ Awaits(frame) \cap Awaited(rest) = {}
             /\ frame.kind = "then" => frame.at # frame.next
  <2>1. Apart(rest)
    BY <1>1, <1>2 DEF Apart
  <2>2. \A k \in DOMAIN rest : Awaits(frame) \cap Awaits(rest[k]) = {}
    BY <1>1, <1>2 DEF Apart
  <2>3. frame.kind = "then" => frame.at # frame.next
    BY <1>1, <1>2 DEF Apart
  <2>4. QED
    BY <2>1, <2>2, <2>3 DEF Awaited
<1>3. ASSUME Apart(rest), Awaits(frame) \cap Awaited(rest) = {},
             frame.kind = "then" => frame.at # frame.next
      PROVE  Apart(stk)
  <2>1. \A k \in DOMAIN rest : Awaits(frame) \cap Awaits(rest[k]) = {}
    BY <1>3 DEF Awaited
  <2>2. ASSUME NEW j \in DOMAIN stk, NEW k \in DOMAIN stk, j # k
        PROVE  Awaits(stk[j]) \cap Awaits(stk[k]) = {}
    <3>1. CASE j \in DOMAIN rest /\ k \in DOMAIN rest
      BY <1>1, <1>3, <2>2, <3>1 DEF Apart
    <3>2. CASE j = n
      BY <1>1, <2>1, <2>2, <3>2
    <3>3. CASE k = n
      BY <1>1, <2>1, <2>2, <3>3
    <3>4. QED
      BY <1>1, <3>1, <3>2, <3>3
  <2>3. \A k \in DOMAIN stk : stk[k].kind = "then" => stk[k].at # stk[k].next
    BY <1>1, <1>3 DEF Apart
  <2>4. QED
    BY <2>2, <2>3 DEF Apart
<1>4. QED
  BY <1>2, <1>3

\* Statements that stay in their block.
LEMMA StatementStraight ==
    ASSUME IInv, BranchInv, AtStatement, UNCHANGED stack,
           Straight(func, insert, func', insert')
    PROVE  BranchInv'
<1>1. StackFits(func, stack) /\ ctl # "global"
  BY StatementFacts DEF AtStatement
<1>2. Waiting(func', stack, insert') /\ BranchesLast(func')
  BY <1>1, WaitingOn DEF BranchInv, Straight, Writes
<1>3. QED
  BY <1>2 DEF BranchInv

\* An expression, where the code stands.
LEMMA StatementEvalStraight ==
    ASSUME IInv, BranchInv, AtStatement, NEW e \in Expr, Declared(e)
    PROVE  LET v == Eval(func, insert, e)
           IN  /\ Straight(func, insert, v.f, v.at) /\ Stood(v)
               /\ v.val \in Operands /\ IsValue(v.f, v.val)
<1>1. Evaluated(func, insert, Eval(func, insert, e))
  BY StatementFacts, EvalEvaluated
<1>2. BranchesLast(func) /\ Unbranched(func, insert)
  BY DEF BranchInv, AtStatement, Waiting
<1>3. LET v == Eval(func, insert, e) IN Straight(func, insert, v.f, v.at)
  BY <1>2, StatementFacts, EvalStraight
<1>4. QED
  BY <1>1, <1>3 DEF Evaluated, Continues, Stood, Straight, Writes

\* Expression, assignment and return statements.
LEMMA SimpleStatementsBranchInv ==
    ASSUME IInv, BranchInv, NEW e \in Expr,
           \/ ExpressionStmt(e) \/ ReturnStmt(e)
           \/ \E n \in Name : AssignStmt(n, e)
    PROVE  BranchInv'
<1> DEFINE v == Eval(func, insert, e)
<1>1. AtStatement /\ Declared(e) /\ UNCHANGED stack /\ insert' = v.at
  BY DEF ExpressionStmt, ReturnStmt, AssignStmt
<1>2. Straight(func, insert, v.f, v.at) /\ Stood(v)
  BY <1>1, StatementEvalStraight
<1>3. Straight(func, insert, func', v.at)
  <2>1. WellFormed(v.f) /\ BranchesLast(v.f) /\ v.at \in Blocks(v.f) /\ Unbranched(v.f, v.at)
    BY <1>2 DEF Stood, Consistent
  <2>2. CASE ExpressionStmt(e)
    BY <1>2, <2>2 DEF ExpressionStmt
  <2>3. CASE ReturnStmt(e)
    <3>1. func' = AddInstruction(v.f, v.at, Ret(v.val))
      BY <2>3 DEF ReturnStmt
    <3> HIDE DEF v
    <3>2. QED
      BY <1>2, <2>1, <3>1, AddedStraight, StraightOn
  <2>4. ASSUME NEW n \in Name, AssignStmt(n, e)
        PROVE  Straight(func, insert, func', v.at)
    <3>1. func' = AddInstruction(v.f, v.at, Store(Find(scope, n), v.val))
      BY <2>4 DEF AssignStmt
    <3> HIDE DEF v
    <3>2. QED
      BY <1>2, <2>1, <3>1, AddedStraight, StraightOn
  <2>5. QED
    BY <2>2, <2>3, <2>4
<1> HIDE DEF v
<1>4. QED
  BY <1>1, <1>3, StatementStraight

\* An assignment to an element.
LEMMA AssignElementBranchInv ==
    ASSUME IInv, BranchInv, NEW e \in Expr, AssignElement(e)
    PROVE  BranchInv'
<1> DEFINE r0 == [f |-> func, at |-> insert, val |-> Literal(0)]
           a == Element(r0)
           v == Eval(a.f, a.at, e)
           g == AddInstruction(v.f, v.at, Store(a.val, v.val))
<1>1. AtStatement /\ Declared(e) /\ UNCHANGED stack /\ func' = g /\ insert' = v.at
  BY DEF AssignElement
<1>2. BranchesLast(func) /\ Unbranched(func, insert)
  BY <1>1 DEF BranchInv, AtStatement, Waiting
<1>3. /\ Stood(r0) /\ Evaluated(func, insert, r0) /\ r0.f = func /\ r0.at = insert
  BY <1>1, <1>2, StatementFacts, ContinuesReflexive, LiteralFacts DEF Stood, Evaluated
<1> HIDE DEF r0
<1>4. Straight(func, insert, a.f, a.at) /\ Stood(a) /\ Evaluated(func, insert, a)
  BY <1>3, ElementStraight, ElementEvaluated
<1> HIDE DEF a
<1>5. ScopesFit(a.f, scope)
  BY <1>1, <1>4, StatementFacts, ScopesFitLater DEF Evaluated, Continues
<1>6. Straight(a.f, a.at, v.f, v.at) /\ Evaluated(a.f, a.at, v)
  BY <1>1, <1>4, <1>5, EvalStraight, EvalEvaluated DEF Stood
<1> HIDE DEF v
<1>7. Straight(v.f, v.at, g, v.at)
  BY <1>6, AddedStraight DEF Evaluated, Continues, Consistent, Straight, Writes
<1> HIDE DEF g
<1>8. Straight(func, insert, func', insert')
  BY <1>1, <1>4, <1>6, <1>7, StraightOn
<1>9. QED
  BY <1>1, <1>8, StatementStraight

\* The branch on a value.
LEMMA ValueBranchWrites ==
    ASSUME NEW v, Stood(v), v.val \in Operands, IsValue(v.f, v.val), NEW t, NEW e
    PROVE  Writes(v.f, {v.at}, Branch(v, t, e))
<1> DEFINE c == AddInstruction(v.f, v.at, Pure("ne", <<v.val, Literal(0)>>))
           p == NextPlace(v.f, v.at)
<1>1. Literal(0) \in Operands /\ IsValue(v.f, Literal(0))
  BY LiteralFacts
<1>2. Added(v.f, v.at, "ne", c) /\ Straight(v.f, v.at, c, v.at)
  BY <1>1, AddedPlain, AddedStraight DEF Stood, Consistent
<1>3. Branch(v, t, e) = CreateCondBr(c, v.at, p, t, e)
  BY DEF Branch
<1> HIDE DEF c, p
<1>4. WellFormed(c) /\ v.at \in Blocks(c) /\ BranchesLast(c) /\ Unbranched(c, v.at)
  BY <1>2 DEF Added, Continues, Consistent, Straight, Writes
<1>5. Writes(c, {v.at}, Branch(v, t, e))
  BY <1>3, <1>4, BranchWrites
<1>6. QED
  BY <1>2, <1>5 DEF Straight, Writes

\* BasicBlock::create, three times.
LEMMA ThreeBlocksStraight ==
    ASSUME NEW f, Consistent(f), BranchesLast(f)
    PROVE  LET g == NewBlock(NewBlock(NewBlock(f)))  n == NewestBlock(f)
           IN  /\ Writes(f, {}, g) /\ n \in Nat /\ Blocks(g) = 1..(n + 3)
               /\ \A x \in {n + 1, n + 2, n + 3} :
                     x \in Blocks(g) /\ x \notin Blocks(f) /\ Unbranched(g, x)
<1> DEFINE g == NewBlock(NewBlock(NewBlock(f)))
           n == NewestBlock(f)
<1>1. BlocksAdded(f, g) /\ n \in Nat /\ Blocks(f) = 1..n /\ Blocks(g) = 1..(n + 3)
  BY ThreeMade
<1> HIDE DEF g, n
<1>2. \A x \in {n + 1, n + 2, n + 3} : x \in Blocks(g) /\ x \notin Blocks(f)
  BY <1>1
<1>3. \A x \in Blocks(f) : x \in Blocks(g) /\ g.code[x] = f.code[x]
  BY <1>1 DEF BlocksAdded
<1>4. \A x \in Blocks(g) \ Blocks(f) : g.code[x] = << >>
  BY <1>1 DEF BlocksAdded
<1>5. Writes(f, {}, g)
  BY <1>3, <1>4 DEF Writes, BranchesLast
<1>6. \A x \in Blocks(g) \ Blocks(f) : Unbranched(g, x)
  BY <1>4 DEF Unbranched
<1>7. QED
  BY <1>1, <1>2, <1>5, <1>6 DEF g, n

\* An if or a while is begun: what it waits for is new, and so is the block
\* where the code then stands.
LEMMA BranchBegins ==
    ASSUME IInv, BranchInv, AtStatement, NEW top \in Frames, stack' = Append(stack, top),
           Writes(func, {insert}, func'),
           \A x \in {insert'} \cup Awaits(top) : x \notin Blocks(func) /\ Unbranched(func', x),
           insert' \notin Awaits(top), top.kind = "then" => top.at # top.next
    PROVE  BranchInv'
<1>1. /\ stack \in Seq(Frames) /\ StackFits(func, stack) /\ Waiting(func, stack, insert)
  BY StatementFacts DEF AtStatement, BranchInv
<1>2. OnTop(stack, top, stack') /\ TopSplit(func, stack, top, stack')
  BY <1>1, PushOnTop, OnTopFits
<1>3. Awaited(stack) \subseteq Blocks(func) \ {insert}
  BY <1>1 DEF StackFits, FrameFits, Awaited, Waiting
<1>4. Apart(stack')
  BY <1>1, <1>2, <1>3, ApartOnTop DEF Waiting
<1>5. \A q \in Awaited(stack) : Unbranched(func', q)
  BY <1>1, <1>3, UnbranchedLater DEF Waiting
<1>6. Awaited(stack') = Awaited(stack) \cup Awaits(top)
  BY <1>2 DEF TopSplit
<1>7. Waiting(func', stack', insert')
  BY <1>3, <1>4, <1>5, <1>6 DEF Waiting
<1>8. QED
  BY <1>7 DEF BranchInv, Writes

\* visit(ASTSelectionStmt), up to its branch.
LEMMA SelectionStmtBranchInv ==
    ASSUME IInv, BranchInv, NEW e \in Expr, NEW hasElse \in BOOLEAN, SelectionStmt(e, hasElse)
    PROVE  BranchInv'
<1> DEFINE v == Eval(func, insert, e)
           n == NewestBlock(v.f)
           f == NewBlock(NewBlock(NewBlock(v.f)))
           w == [v EXCEPT !.f = f]
           t == n + 1
           top == Frame("then", t + 1, t + 2, hasElse)
<1>1. AtStatement /\ Declared(e)
  BY DEF SelectionStmt
<1>2. func' = Branch(w, t, t + 1) /\ insert' = t /\ stack' = Append(stack, top)
  BY DEF SelectionStmt
<1>3. /\ Straight(func, insert, v.f, v.at) /\ Stood(v)
      /\ v.val \in Operands /\ IsValue(v.f, v.val)
  BY <1>1, StatementEvalStraight
<1> HIDE DEF v
<1>4. /\ Writes(v.f, {}, f) /\ n \in Nat /\ Blocks(f) = 1..(n + 3) /\ ThreeAdded(v.f, f)
      /\ \A x \in {n + 1, n + 2, n + 3} : x \in Blocks(f) /\ x \notin Blocks(v.f) /\ Unbranched(f, x)
  BY <1>3, ThreeBlocksStraight, ThreeBlocks DEF Stood
<1> HIDE DEF f
<1>5. /\ t \in Nat /\ t + 1 = n + 2 /\ t + 2 = n + 3 /\ t + 1 # t + 2 /\ t # t + 1 /\ t # t + 2
      /\ t + 1 \in Nat /\ t + 2 \in Nat
  BY <1>4
<1> HIDE DEF n
<1>6. /\ top \in Frames /\ top.kind = "then" /\ top.at = t + 1 /\ top.next = t + 2
      /\ Awaits(top) = {t + 1, t + 2}
  BY <1>5, FrameFacts DEF Awaits
<1>7. \A x \in {t, t + 1, t + 2} : x \in Blocks(f) /\ x \notin Blocks(v.f) /\ Unbranched(f, x)
  BY <1>4, <1>5
<1> HIDE DEF t, top
<1>8. w.f = f /\ w.at = v.at /\ w.val = v.val /\ w = [f |-> w.f, at |-> w.at, val |-> w.val]
  BY <1>3 DEF Stood
<1> HIDE DEF w
<1>9. Stood(w) /\ IsValue(w.f, w.val)
  <2>1. v.at \in Blocks(v.f) /\ Unbranched(v.f, v.at) /\ v.at \in Blocks(f)
    BY <1>3, <1>4 DEF Stood, Writes
  <2>2. Unbranched(f, v.at)
    BY <1>4, <2>1, UnbranchedLater
  <2>3. Consistent(f) /\ BranchesLast(f) /\ IsValue(f, v.val)
    BY <1>3, <1>4, ExtendsPlaces DEF ThreeAdded, Writes
  <2>4. QED
    BY <1>8, <2>1, <2>2, <2>3 DEF Stood
<1>10. Writes(f, {v.at}, func')
  BY <1>2, <1>3, <1>8, <1>9, ValueBranchWrites
<1>11. Blocks(func) \subseteq Blocks(v.f) /\ (v.at = insert \/ v.at \notin Blocks(func))
       /\ Blocks(v.f) \subseteq Blocks(f) /\ v.at \in Blocks(v.f)
  BY <1>3, <1>4 DEF Straight, Writes
<1>12. Writes(func, {insert}, func')
  <2>1. ASSUME NEW x \in Blocks(func) \ {insert}
        PROVE  func'.code[x] = func.code[x]
    <3>1. v.f.code[x] = func.code[x]
      BY <1>3 DEF Straight, Writes
    <3>2. f.code[x] = v.f.code[x]
      BY <1>4, <1>11 DEF Writes
    <3>3. func'.code[x] = f.code[x]
      BY <1>10, <1>11 DEF Writes
    <3>4. QED
      BY <3>1, <3>2, <3>3
  <2>2. QED
    BY <1>10, <1>11, <2>1 DEF Writes
<1>13. \A x \in {t, t + 1, t + 2} : x \notin Blocks(func) /\ Unbranched(func', x)
  BY <1>7, <1>10, <1>11, UnbranchedLater
<1>14. QED
  BY <1>1, <1>2, <1>5, <1>6, <1>12, <1>13, BranchBegins

\* visit(ASTIterationStmt), up to its branch.
LEMMA IterationStmtBranchInv ==
    ASSUME IInv, BranchInv, NEW e \in Expr, IterationStmt(e)
    PROVE  BranchInv'
<1> DEFINE n == NewestBlock(func)
           j == n + 1
           f0 == NewBlock(NewBlock(NewBlock(func)))
           f == CreateBr(f0, insert, j)
           v == Eval(f, j, e)
           top == Frame("body", j, j + 2, FALSE)
<1>1. AtStatement /\ Declared(e)
  BY DEF IterationStmt
<1>2. func' = Branch(v, j + 1, j + 2) /\ insert' = j + 1 /\ stack' = Append(stack, top)
  BY DEF IterationStmt
<1>3. /\ Consistent(func) /\ insert \in Blocks(func)
      /\ BranchesLast(func) /\ Unbranched(func, insert)
  BY <1>1, StatementFacts DEF BranchInv, AtStatement, Waiting
<1>4. /\ Writes(func, {}, f0) /\ n \in Nat /\ Blocks(f0) = 1..(n + 3) /\ ThreeAdded(func, f0)
      /\ \A x \in {n + 1, n + 2, n + 3} :
            x \in Blocks(f0) /\ x \notin Blocks(func) /\ Unbranched(f0, x)
  BY <1>3, ThreeBlocksStraight, ThreeBlocks
<1> HIDE DEF f0
<1>5. n >= 1
  BY <1>3, NewestBlockFacts
<1>6. /\ j \in Nat /\ j + 1 = n + 2 /\ j + 2 = n + 3 /\ j # j + 1 /\ j # j + 2 /\ j + 1 # j + 2
      /\ j + 2 \in Nat /\ j # Entry
  BY <1>4, <1>5 DEF Entry
<1>7. \A x \in {j, j + 1, j + 2} : x \in Blocks(f0) /\ x \notin Blocks(func) /\ Unbranched(f0, x)
  BY <1>4, <1>6
<1> HIDE DEF n
<1>8. top \in Frames /\ top.kind = "body" /\ Awaits(top) = {j + 2}
  <2>1. top \in Frames /\ top.kind = "body" /\ top.next = j + 2
    BY <1>6 DEF Frame, Frames
  <2> HIDE DEF top
  <2>2. QED
    BY <2>1 DEF Awaits
<1> HIDE DEF j, top
<1>9. insert \in Blocks(f0) /\ Unbranched(f0, insert) /\ BranchesLast(f0) /\ Consistent(f0)
  BY <1>3, <1>4, UnbranchedLater DEF Writes, ThreeAdded
<1>10. Writes(f0, {insert}, f) /\ BranchedFrom(f0, insert, f)
  BY <1>6, <1>7, <1>9, BranchWrites, BrBranches DEF Consistent
<1> HIDE DEF f
<1>11. /\ Consistent(f) /\ Extends(func, f) /\ Blocks(f) = Blocks(f0) /\ BranchesLast(f)
       /\ \A x \in {j, j + 1, j + 2} : x \in Blocks(f) /\ Unbranched(f, x)
  <2>1. Extends(func, f)
    BY <1>4, <1>10, ExtendsTransitive DEF ThreeAdded, BranchedFrom
  <2>2. \A x \in {j, j + 1, j + 2} : x # insert
    BY <1>3, <1>7
  <2>3. \A x \in {j, j + 1, j + 2} : Unbranched(f, x)
    BY <1>7, <1>10, <2>2, UnbranchedLater
  <2>4. QED
    BY <1>7, <1>10, <2>1, <2>3 DEF BranchedFrom, Writes
<1>12. Evaluated(f, j, v) /\ Straight(f, j, v.f, v.at)
  <2>1. ScopesFit(f, scope)
    BY <1>1, <1>11, StatementFacts, ScopesFitLater
  <2>2. QED
    BY <1>1, <1>11, <2>1, EvalEvaluated, EvalStraight
<1> HIDE DEF v
<1>13. Stood(v) /\ v.val \in Operands /\ IsValue(v.f, v.val)
  BY <1>12 DEF Evaluated, Continues, Stood, Straight, Writes
<1>14. Writes(v.f, {v.at}, func')
  BY <1>2, <1>13, ValueBranchWrites
<1>15. /\ Blocks(func) \subseteq Blocks(f) /\ Blocks(f) \subseteq Blocks(v.f)
       /\ v.at = j \/ v.at \notin Blocks(f)
  BY <1>4, <1>11, <1>12 DEF Straight, Writes
<1>16. Writes(func, {insert}, func')
  <2>1. ASSUME NEW x \in Blocks(func) \ {insert}
        PROVE  func'.code[x] = func.code[x]
    <3>1. x # j /\ x \in Blocks(f) /\ x # v.at
      BY <1>7, <1>15
    <3>2. f0.code[x] = func.code[x] /\ f.code[x] = f0.code[x]
      BY <1>4, <1>10, <1>11, <3>1 DEF Writes
    <3>3. v.f.code[x] = f.code[x]
      BY <1>12, <3>1 DEF Straight, Writes
    <3>4. func'.code[x] = v.f.code[x]
      BY <1>14, <1>15, <3>1 DEF Writes
    <3>5. QED
      BY <3>2, <3>3, <3>4
  <2>2. QED
    BY <1>14, <1>15, <2>1 DEF Writes
<1>17. \A x \in {j + 1, j + 2} : x \notin Blocks(func) /\ Unbranched(func', x)
  <2> SUFFICES ASSUME NEW x \in {j + 1, j + 2}
               PROVE  x \notin Blocks(func) /\ Unbranched(func', x)
    OBVIOUS
  <2>1. x # j /\ x \in Blocks(f) /\ Unbranched(f, x) /\ x \notin Blocks(func) /\ x # v.at
    BY <1>6, <1>7, <1>11, <1>15
  <2>2. Unbranched(v.f, x)
    BY <1>12, <2>1, UnbranchedLater DEF Straight
  <2>3. QED
    BY <1>14, <1>15, <2>1, <2>2, UnbranchedLater
<1>18. QED
  BY <1>1, <1>2, <1>6, <1>8, <1>16, <1>17, BranchBegins

\* The branch at the end of an arm or of a body.
LEMMA CloseBranchWrites ==
    ASSUME Consistent(func), insert \in Blocks(func), BranchesLast(func),
           Unbranched(func, insert), NEW target
    PROVE  Writes(func, {insert}, CloseBranch(target))
<1>1. Writes(func, {insert}, func)
  BY DEF Writes
<1>2. QED
  BY <1>1, BranchWrites DEF CloseBranch, Consistent

\* An arm or a body is over: the code stands in a block that was waited for.
LEMMA WaitingOver ==
    ASSUME NEW rest, NEW top, Resumes(rest, top), Waiting(func, stack, insert),
           NEW W, Writes(func, W, func'), NEW q \in Awaits(top),
           W \subseteq ({insert} \cup Awaits(top)) \ {q}
    PROVE  Waiting(func', rest, q)
<1>1. OnTop(rest, top, stack) /\ Awaited(stack) = Awaited(rest) \cup Awaits(top)
  BY DEF Resumes
<1>2. Apart(rest) /\ Awaits(top) \cap Awaited(rest) = {}
  BY <1>1, ApartOnTop DEF Waiting
<1>3. Awaited(stack) \subseteq Blocks(func)
  BY DEF Resumes, StackFits, FrameFits, Awaited
<1>4. \A x \in Awaited(rest) \cup {q} : x \in Blocks(func) \ W /\ Unbranched(func, x)
  BY <1>1, <1>2, <1>3 DEF Waiting
<1>5. QED
  BY <1>2, <1>4, UnbranchedLater DEF Waiting

\* The ends of the visits of if and while.
LEMMA BranchEndBranchInv ==
    ASSUME IInv, BranchInv, EndThen \/ EndElse \/ EndBody
    PROVE  BranchInv'
<1> DEFINE rest == Front(stack)
           top == Last(stack)
           closed == CloseBranch(top.next)
<1>1. ctl = "done" /\ Resumes(rest, top)
  BY DoneResumes DEF EndThen, EndElse, EndBody
<1>2. Consistent(func) /\ insert \in Blocks(func) /\ FrameFits(func, top)
  BY <1>1 DEF Resumes
<1>3. /\ BranchesLast(func) /\ Waiting(func, stack, insert) /\ Unbranched(func, insert)
  BY <1>1 DEF BranchInv, Waiting
<1>4. insert \notin Awaits(top) /\ (top.kind = "then" => top.at # top.next)
      /\ rest \in Seq(Frames) /\ \A q \in Awaits(top) : Unbranched(func, q)
  BY <1>1, <1>3, ApartOnTop DEF Waiting, Resumes, OnTop
<1>5. CASE EndElse \/ EndBody
  <2>1. /\ Awaits(top) = {top.next} /\ insert' = top.next /\ stack' = rest
        /\ func' = CloseBranch(top.next) \/ func' = CloseBranch(top.at)
    BY <1>5 DEF EndElse, EndBody, Awaits
  <2>2. Writes(func, {insert}, func')
    BY <1>2, <1>3, <2>1, CloseBranchWrites
  <2> HIDE DEF rest, top
  <2>3. Waiting(func', rest, top.next)
    BY <1>1, <1>3, <1>4, <2>1, <2>2, WaitingOver
  <2>4. QED
    BY <2>1, <2>2, <2>3 DEF BranchInv, Writes
<1>6. CASE EndThen
  <2>1. Awaits(top) = {top.at, top.next} /\ top.at # top.next
    BY <1>4, <1>6 DEF EndThen, Awaits
  <2>2. Writes(func, {insert}, closed)
    BY <1>2, <1>3, CloseBranchWrites
  <2>3. CASE top.flag
    <3> DEFINE frame == Frame("else", 0, top.next, FALSE)
    <3>1. func' = closed /\ insert' = top.at /\ stack' = Append(rest, frame)
      BY <1>6, <2>3 DEF EndThen
    <3> HIDE DEF rest, top, closed
    <3>2. Waiting(func', rest, top.at) /\ Waiting(func', rest, top.next)
      BY <1>1, <1>3, <1>4, <2>1, <2>2, <3>1, WaitingOver
    <3>3. frame \in Frames /\ frame.kind = "else" /\ Awaits(frame) = {top.next}
      <4>1. top.next \in Nat
        BY <1>2, <2>1, BlocksFacts DEF FrameFits, Consistent
      <4>2. frame \in Frames /\ frame.kind = "else" /\ frame.next = top.next
        BY <4>1 DEF Frame, Frames
      <4> HIDE DEF frame
      <4>3. QED
        BY <4>2 DEF Awaits
    <3> HIDE DEF frame
    <3>4. OnTop(rest, frame, stack')
      BY <1>4, <3>1, <3>3, PushOnTop
    <3>5. Apart(stack')
      BY <3>2, <3>3, <3>4, ApartOnTop DEF Waiting
    <3>6. Awaited(stack') = Awaited(rest) \cup {top.next}
      BY <3>3, <3>4, OnTopFits DEF TopSplit
    <3>7. Waiting(func', stack', insert')
      BY <2>1, <3>1, <3>2, <3>5, <3>6 DEF Waiting
    <3>8. QED
      BY <2>2, <3>1, <3>7 DEF BranchInv, Writes
  <2>4. CASE ~top.flag
    <3>1. func' = CreateBr(closed, top.at, top.next) /\ insert' = top.next /\ stack' = rest
      BY <1>6, <2>4 DEF EndThen
    <3>2. /\ top.at \in Blocks(func) /\ top.next \in Blocks(func) \ {Entry}
          /\ Unbranched(func, top.at) /\ top.at # insert
      BY <1>2, <1>4, <2>1 DEF FrameFits
    <3>3. BranchedFrom(func, insert, closed)
      BY <1>2, <3>2, CloseBranchLeaves
    <3> HIDE DEF rest, top, closed
    <3>4. /\ WellFormed(closed) /\ Blocks(closed) = Blocks(func)
          /\ BranchesLast(closed) /\ Unbranched(closed, top.at)
      BY <2>2, <3>2, <3>3, UnbranchedLater DEF BranchedFrom, Consistent, Writes
    <3>5. Writes(closed, {top.at}, func')
      BY <3>1, <3>2, <3>4, BranchWrites
    <3>6. Writes(func, {insert, top.at}, func')
      BY <2>2, <3>4, <3>5 DEF Writes
    <3>7. Waiting(func', rest, top.next)
      BY <1>1, <1>3, <1>4, <2>1, <3>2, <3>6, WaitingOver
    <3>8. QED
      BY <3>1, <3>6, <3>7 DEF BranchInv, Writes
  <2>5. QED
    BY <2>3, <2>4
<1>7. QED
  BY <1>5, <1>6

\* visit(ASTVarDeclaration): an alloca, or nothing.
LEMMA VarDeclarationBranchInv ==
    ASSUME IInv, BranchInv, NEW n \in Name, VarDeclaration(n)
    PROVE  BranchInv'
<1>1. CASE Len(scope) = 1
  BY <1>1 DEF VarDeclaration, BranchInv
<1>2. CASE Len(scope) # 1
  <2>1. /\ func' = AddInstruction(func, insert, Alloca(NextPlace(func, insert)))
        /\ UNCHANGED <<insert, stack, ctl>>
    BY <1>2 DEF VarDeclaration
  <2>2. ctl # "global"
    BY <1>2 DEF Controlled, ScopesOpen, IInv
  <2>3. WellFormed(func) /\ insert \in Blocks(func) /\ StackFits(func, stack)
    BY <2>2 DEF IInv, FunctionInv, Consistent
  <2>4. BranchesLast(func) /\ Waiting(func, stack, insert) /\ Unbranched(func, insert)
    BY <2>2 DEF BranchInv, Waiting
  <2>5. Straight(func, insert, func', insert)
    BY <2>1, <2>3, <2>4, AddedStraight
  <2>6. QED
    BY <2>1, <2>3, <2>4, <2>5, WaitingOn DEF BranchInv, Straight, Writes
<1>3. QED
  BY <1>1, <1>2

\* A frame that waits for no block.
LEMMA IdleOnTop ==
    ASSUME NEW rest, NEW frame, NEW stk, OnTop(rest, frame, stk),
           frame.kind \in {"fun", "compound"}, NEW f, NEW b
    PROVE  Waiting(f, stk, b) <=> Waiting(f, rest, b)
<1>1. Awaits(frame) = {}
  BY DEF Awaits
<1>2. Awaited(stk) = Awaited(rest)
  <2>1. TopSplit(f, rest, frame, stk)
    BY OnTopFits
  <2>2. QED
    BY <1>1, <2>1 DEF TopSplit
<1>3. QED
  BY <1>1, <1>2, ApartOnTop DEF Waiting

\* visit(ASTFunDeclaration), up to the body.
LEMMA FunDeclarationBranchInv ==
    ASSUME IInv, NEW params, FunDeclaration(params)
    PROVE  BranchInv'
<1> DEFINE f == NewBlock(EmptyFunction)
           s == NextPlace(f, Entry)
           g == AddInstruction(f, Entry, Alloca(s))
           frame == Frame("fun", 0, 0, FALSE)
<1>1. /\ func' = f \/ func' = AddInstruction(g, Entry, Store(s, Argument))
      /\ insert' = Entry /\ stack' = Append(stack, frame) /\ ctl = "global"
  BY DEF FunDeclaration
<1>2. Consistent(f) /\ Entry \in Blocks(f) /\ BranchesLast(f) /\ Unbranched(f, Entry)
  <2>1. BranchesLast(EmptyFunction)
    BY DEF BranchesLast, EmptyFunction, Blocks
  <2>2. BlockAdded(EmptyFunction, f) /\ Writes(EmptyFunction, {}, f)
        /\ Unbranched(f, NewestBlock(EmptyFunction) + 1)
    BY <2>1, EmptyConsistent, NewBlockAdded, NewBlockStraight DEF Consistent
  <2> HIDE DEF f
  <2>3. NewestBlock(EmptyFunction) + 1 = Entry
    BY EmptyConsistent DEF Entry
  <2>4. QED
    BY <2>2, <2>3 DEF BlockAdded, Writes
<1> HIDE DEF f
<1>3. Added(f, Entry, "alloca", g) /\ Straight(f, Entry, g, Entry)
  BY <1>2, AddedPlain, AddedStraight DEF Consistent
<1> HIDE DEF g
<1>4. Straight(g, Entry, AddInstruction(g, Entry, Store(s, Argument)), Entry)
  BY <1>3, AddedStraight DEF Added, Continues, Consistent, Straight, Writes
<1>5. BranchesLast(func') /\ Unbranched(func', Entry)
  BY <1>1, <1>2, <1>4 DEF Straight, Writes
<1>6. stack = << >>
  BY <1>1 DEF IInv, Controlled
<1>7. Waiting(func', stack, Entry)
  BY <1>5, <1>6 DEF Waiting, Apart, Awaited
<1>8. OnTop(stack, frame, stack') /\ frame.kind = "fun"
  <2>1. stack \in Seq(Frames)
    BY DEF IInv, StackFits
  <2>2. frame \in Frames /\ frame.kind = "fun"
    BY DEF Frame, Frames
  <2> HIDE DEF frame
  <2>3. QED
    BY <1>1, <2>1, <2>2, PushOnTop
<1> HIDE DEF frame
<1>9. Waiting(func', stack', Entry)
  BY <1>7, <1>8, IdleOnTop
<1>10. QED
  BY <1>1, <1>5, <1>9 DEF BranchInv

\* The return that is added at the end of a function.
LEMMA EndFunctionBranchInv ==
    ASSUME IInv, BranchInv, EndFunction
    PROVE  BranchInv'
<1>1. ctl = "done" /\ ctl' = "global"
  BY DEF EndFunction
<1>2. WellFormed(func) /\ insert \in Blocks(func)
  BY <1>1 DEF IInv, FunctionInv, Consistent
<1>3. BranchesLast(func) /\ Unbranched(func, insert)
  BY <1>1 DEF BranchInv, Waiting
<1>4. BranchesLast(func')
  BY <1>2, <1>3, AddedStraight DEF EndFunction, Straight, Writes
<1>5. QED
  BY <1>1, <1>4 DEF BranchInv

\* Compounds.
LEMMA CompoundBranchInv ==
    ASSUME IInv, BranchInv, OpenCompound \/ CloseCompound
    PROVE  BranchInv'
<1>1. stack \in Seq(Frames) /\ UNCHANGED <<func, insert>>
  BY DEF IInv, StackFits, OpenCompound, CloseCompound
<1>2. CASE OpenCompound
  <2> DEFINE frame == Frame("compound", 0, 0, ~inFunc)
  <2>1. stack' = Append(stack, frame) /\ ctl # "global"
    BY <1>2 DEF OpenCompound, AtStatement
  <2>2. frame \in Frames /\ frame.kind = "compound"
    BY DEF Frame, Frames
  <2> HIDE DEF frame
  <2>3. OnTop(stack, frame, stack')
    BY <1>1, <2>1, <2>2, PushOnTop
  <2>4. QED
    BY <1>1, <2>1, <2>2, <2>3, IdleOnTop DEF BranchInv
<1>3. CASE CloseCompound
  <2>1. stack' = Front(stack) /\ ctl \in {"decls", "list"}
    BY <1>3 DEF CloseCompound
  <2>2. stack # << >> /\ Last(stack).kind = "compound"
    BY <2>1 DEF IInv, Controlled
  <2>3. OnTop(Front(stack), Last(stack), stack)
    BY <1>1, <2>2, PopOnTop
  <2>4. Waiting(func, Front(stack), insert)
    BY <2>1, <2>2, <2>3, IdleOnTop DEF BranchInv
  <2>5. QED
    BY <1>1, <2>1, <2>4 DEF BranchInv
<1>4. QED
  BY <1>2, <1>3
\* Before the program nothing is written.
LEMMA InitBranchInv == Init => BranchInv
BY DEF Init, BranchInv, BranchesLast, EmptyFunction, Blocks

\* Every visit keeps the branches where they belong.
LEMMA NextBranchInv == IInv /\ BranchInv /\ [Next]_vars => BranchInv'
<1> SUFFICES ASSUME IInv, BranchInv, [Next]_vars
             PROVE  BranchInv'
  OBVIOUS
<1>1. CASE UNCHANGED vars
  BY <1>1 DEF vars, BranchInv
<1>2. CASE OpenCompound \/ CloseCompound
  BY <1>2, CompoundBranchInv
<1>3. CASE EndThen \/ EndElse \/ EndBody
  BY <1>3, BranchEndBranchInv
<1>4. CASE EndFunction
  BY <1>4, EndFunctionBranchInv
<1>5. CASE \E params : FunDeclaration(params)
  BY <1>5, FunDeclarationBranchInv
<1>6. QED
  BY <1>1, <1>2, <1>3, <1>4, <1>5, VarDeclarationBranchInv, SimpleStatementsBranchInv,
     AssignElementBranchInv, SelectionStmtBranchInv, IterationStmtBranchInv DEF Next

\* A branch ends its block, in every function and at every moment of its
\* visit; only a return can have code behind it.
THEOREM BuilderBranches == Spec => []BranchesLast(func)
<1>1. Init => IInv /\ BranchInv
  BY InitIInv, InitBranchInv
<1>2. IInv /\ BranchInv /\ [Next]_vars => (IInv /\ BranchInv)'
  BY NextIInv, NextBranchInv
<1>3. IInv /\ BranchInv => BranchesLast(func)
  BY DEF BranchInv
<1>4. QED
  BY <1>1, <1>2, <1>3, PTL DEF Spec

-----------------------------------------------------------------------------
(* Dominance on the live blocks is the order of a tree below the entry, with *)
(* ChildrenOf as its edges.                                                 *)

\* What the walk needs of the dominator sets: a forest with one root.
IsTree(live, doms) ==
    /\ DOMAIN doms = live /\ Entry \in live /\ doms[Entry] = {Entry}
    /\ \A b \in live : doms[b] \subseteq live /\ b \in doms[b] /\ Entry \in doms[b]
    /\ \A b \in live : \A a \in doms[b] : doms[a] \subseteq doms[b]
    /\ \A a, b \in live : a \in doms[b] /\ b \in doms[a] => a = b
    /\ \A b \in live : \A a, d \in doms[b] : a \in doms[d] \/ d \in doms[a]
    /\ \A b \in live : \A a \in doms[b] \ {b} : \E x \in ChildrenOf(doms, a) : x \in doms[b]

\* The ranks of a certificate make a least block out of every set of them.
LEMMA LeastLive ==
    ASSUME NEW f, NEW c, Certified(f, c), NEW S \in SUBSET Reachable(f), S # {}
    PROVE  \E x \in S : \A y \in S : c.rank[x] \in Nat /\ c.rank[y] \in Nat /\ c.rank[x] <= c.rank[y]
<1>1. /\ WellFormed(f) /\ Entry \in Blocks(f) /\ Certifies(c, f)
      /\ Blocks(f) = 1..Len(f.code) /\ Len(f.code) \in Nat
  BY BlocksFacts DEF Certified
<1>2. Reachable(f) \subseteq Blocks(f)
  BY <1>1, ReachableFacts
<1>3. \A x \in Reachable(f) : c.rank[x] \in Nat
  BY <1>1, <1>2 DEF Certifies, Certificates
<1>4. IsFiniteSet(Reachable(f))
  <2>1. 1 \in Int /\ Len(f.code) \in Int
    BY <1>1
  <2>2. IsFiniteSet(1..Len(f.code))
    BY <2>1, FS_Interval, Zenon
  <2>3. QED
    BY <1>1, <1>2, <2>2, FS_Subset
<1>5. PICK x \in S : \A y \in S : c.rank[x] <= c.rank[y]
  BY <1>3, <1>4, LeastRank
<1>6. QED
  BY <1>3, <1>5

\* Two blocks do not dominate each other.
LEMMA DominanceOneWay ==
    ASSUME NEW f, NEW c, Certified(f, c), NEW a \in Reachable(f), NEW b \in Reachable(f),
           a \in DominatorSets(f)[b], b \in DominatorSets(f)[a]
    PROVE  a = b
<1> SUFFICES ASSUME a # b
             PROVE  FALSE
  OBVIOUS
<1>1. c.rank[a] < c.rank[b] /\ c.rank[b] < c.rank[a]
  BY DominatorsBelow
<1>2. PICK x \in {a, b} : \A y \in {a, b} :
          c.rank[x] \in Nat /\ c.rank[y] \in Nat /\ c.rank[x] <= c.rank[y]
  BY LeastLive
<1>3. QED
  BY <1>1, <1>2

\* Of two dominators of a block one dominates the other.
LEMMA DominatorsCompare ==
    ASSUME NEW f, NEW c, Certified(f, c), NEW b \in Reachable(f),
           NEW a \in DominatorSets(f)[b], NEW d \in DominatorSets(f)[b]
    PROVE  a \in DominatorSets(f)[d] \/ d \in DominatorSets(f)[a]
<1> DEFINE doms == DominatorSets(f)
           S == {x \in Reachable(f) : \E u, v \in doms[x] : u \notin doms[v] /\ v \notin doms[u]}
<1>1. HasEntry(f)
  BY DEF Certified, HasEntry
<1>2. doms[Entry] = {Entry} /\ \A x \in Reachable(f) : x \in doms[x] /\ doms[x] \subseteq Reachable(f)
  BY <1>1, DominatorsOfLive
<1>3. S = {}
  <2> SUFFICES ASSUME S # {}
               PROVE  FALSE
    OBVIOUS
  <2>1. PICK x \in S : \A y \in S : c.rank[x] \in Nat /\ c.rank[y] \in Nat /\ c.rank[x] <= c.rank[y]
    <3>1. S \in SUBSET Reachable(f)
      OBVIOUS
    <3> HIDE DEF S
    <3>2. QED
      BY <3>1, LeastLive
  <2>2. PICK u \in doms[x], v \in doms[x] : u \notin doms[v] /\ v \notin doms[u]
    BY <2>1
  <2>3. x # Entry /\ x \in Reachable(f) /\ u \in Reachable(f) /\ v \in Reachable(f)
    BY <1>2, <2>1, <2>2
  <2>4. PICK p \in Reachable(f) : x \in Succ(f, p) /\ c.rank[p] < c.rank[x]
    BY <2>3, EnteredFromBelow
  <2>5. doms[x] \ {x} \subseteq doms[p]
    BY <1>1, <2>4, DominatorsThroughEdge
  <2>6. u # x /\ v # x
    BY <1>2, <2>2, <2>3
  <2>7. p \in S
    BY <2>2, <2>4, <2>5, <2>6
  <2>8. c.rank[x] \in Nat /\ c.rank[p] \in Nat /\ c.rank[x] <= c.rank[p]
    BY <2>1, <2>7
  <2>9. QED
    BY <2>4, <2>8
<1>4. b \notin S
  BY <1>3
<1>5. QED
  BY <1>4

\* A block strictly below another one is below one of its children.
LEMMA ChildTowards ==
    ASSUME NEW f, NEW c, Certified(f, c), NEW b \in Reachable(f),
           NEW a \in DominatorSets(f)[b], a # b
    PROVE  \E x \in ChildrenOf(DominatorSets(f), a) : x \in DominatorSets(f)[b]
<1> DEFINE doms == DominatorSets(f)
           S == {x \in doms[b] : a \in doms[x] /\ x # a}
<1>1. HasEntry(f)
  BY DEF Certified, HasEntry
<1>2. \A x \in Reachable(f) : x \in doms[x] /\ doms[x] \subseteq Reachable(f)
  BY <1>1, DominatorsOfLive
<1>3. b \in S /\ S \in SUBSET Reachable(f)
  BY <1>2
<1>4. PICK x \in S : \A y \in S : c.rank[x] \in Nat /\ c.rank[y] \in Nat /\ c.rank[x] <= c.rank[y]
  <2> HIDE DEF S
  <2>1. QED
    BY <1>3, LeastLive
<1>5. x \in doms[b] /\ a \in doms[x] /\ x # a /\ x \in Reachable(f) /\ a \in Reachable(f)
  BY <1>2
<1>6. ASSUME NEW y \in doms[x] \ {x}, y \notin doms[a]
      PROVE  FALSE
  <2>1. y \in Reachable(f) /\ y # a
    BY <1>2, <1>5, <1>6
  <2>2. a \in doms[y]
    BY <1>5, <1>6, DominatorsCompare
  <2>3. doms[x] \subseteq doms[b]
    BY <1>1, <1>5, DominanceTransitive
  <2>4. y \in S
    BY <1>6, <2>1, <2>2, <2>3
  <2>5. c.rank[y] < c.rank[x]
    BY <1>5, <1>6, DominatorsBelow
  <2>6. c.rank[x] \in Nat /\ c.rank[y] \in Nat /\ c.rank[x] <= c.rank[y]
    BY <1>4, <2>4
  <2>7. QED
    BY <2>5, <2>6
<1>7. x \in ChildrenOf(doms, a)
  <2>1. DOMAIN doms = Reachable(f)
    BY DominatorSetsFacts
  <2>2. doms[x] \ {x} \subseteq doms[a]
    BY <1>6
  <2> HIDE DEF doms
  <2>3. QED
    BY <1>5, <2>1, <2>2 DEF ChildrenOf
<1>8. QED
  BY <1>5, <1>7

\* In a function the dominator pass gets through, the sets are a tree.
LEMMA DominanceIsTree ==
    ASSUME NEW f, NEW c, Certified(f, c)
    PROVE  IsTree(Reachable(f), DominatorSets(f))
<1> DEFINE live == Reachable(f)
           doms == DominatorSets(f)
<1>1. HasEntry(f)
  BY DEF Certified, HasEntry
<1>2. /\ DOMAIN doms = live /\ Entry \in live /\ doms[Entry] = {Entry}
      /\ \A b \in live : doms[b] \subseteq live /\ b \in doms[b]
  BY <1>1, DominatorsOfLive, DominatorSetsFacts
<1>3. \A b \in live : Entry \in doms[b]
  <2> SUFFICES ASSUME NEW b \in live
               PROVE  Entry \in doms[b]
    OBVIOUS
  <2>1. ReachAvoiding(f, {Entry}, {Entry}) = {}
    <3> DEFINE around == ReachAvoiding(f, {Entry}, {Entry})
    <3>1. WellFormed(f) /\ Entry \in Blocks(f)
      BY DEF Certified
    <3>2. \A C : /\ Entry # Entry => Entry \in C
                 /\ \A x \in C \cap around : Succ(f, x) \subseteq C \cup {Entry}
                 => around \subseteq C
      BY <3>1, AroundFacts
    <3> HIDE DEF around
    <3>3. \A x \in {} \cap around : Succ(f, x) \subseteq {} \cup {Entry}
      OBVIOUS
    <3>5. (Entry # Entry => Entry \in {})
          /\ (\A x \in {} \cap around : Succ(f, x) \subseteq {} \cup {Entry}) => around \subseteq {}
      BY <3>2, Zenon
    <3>6. around \subseteq {}
      BY <3>3, <3>5
    <3>4. QED
      BY <3>6 DEF around
  <2>2. Dominates(f, Entry, b)
    BY <2>1 DEF Dominates
  <2>3. QED
    BY <1>2, <2>2, DominatorSetsFacts
<1>4. \A b \in live : \A a \in doms[b] : doms[a] \subseteq doms[b]
  BY <1>1, DominanceTransitive
<1>5. \A a, b \in live : a \in doms[b] /\ b \in doms[a] => a = b
  BY DominanceOneWay
<1>6. \A b \in live : \A a, d \in doms[b] : a \in doms[d] \/ d \in doms[a]
  BY DominatorsCompare
<1>7. \A b \in live : \A a \in doms[b] \ {b} : \E x \in ChildrenOf(doms, a) : x \in doms[b]
  BY ChildTowards
<1> HIDE DEF live, doms
<1>8. IsTree(live, doms)
  BY <1>2, <1>3, <1>4, <1>5, <1>6, <1>7 DEF IsTree
<1>9. QED
  BY <1>8 DEF live, doms
=============================================================================
