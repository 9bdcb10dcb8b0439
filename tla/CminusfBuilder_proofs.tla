----------------------- MODULE CminusfBuilder_proofs ------------------------
(***************************************************************************)
(* Proofs about the AST visitor, for all programs and every value of the   *)
(* constants: the visits keep the graph of the function consistent, leave  *)
(* no block open but those a pending visit still closes, and keep storages *)
(* in the scopes of their compounds.  What is loaded and stored is right   *)
(* too: an address is an alloca's or a gep's, a value stored comes first.  *)
(***************************************************************************)
EXTENDS CminusfBuilder, LightIR_proofs, WellFoundedInduction

\* The code from block b of f was continued: it goes on in block c of g.
Continues(f, b, g, c) ==
    /\ Consistent(g) /\ Extends(f, g)
    /\ c \in Blocks(g)
    /\ OpenBlocks(g) \subseteq (OpenBlocks(f) \ {b}) \cup {c}

\* Code that was continued twice has been continued.
LEMMA ContinuesTransitive ==
    ASSUME NEW f, NEW b, NEW g, NEW c, NEW h, NEW d,
           Continues(f, b, g, c), Continues(g, c, h, d)
    PROVE  Continues(f, b, h, d)
<1>1. Extends(f, h)
  BY ExtendsTransitive DEF Continues
<1>2. QED
  BY <1>1 DEF Continues

\* A visit that emits nothing leaves the code where it was.
LEMMA ContinuesReflexive ==
    ASSUME NEW f, Consistent(f), NEW b \in Blocks(f)
    PROVE  Continues(f, b, f, b)
BY DEF Continues, Extends

\* An instruction other than a branch was added at the end of b.
Added(f, b, op, g) ==
    /\ Continues(f, b, g, b)
    /\ Blocks(g) = Blocks(f)
    /\ NextPlace(f, b) \in Operands
    /\ IsPlace(g, NextPlace(f, b)) /\ NextPlace(f, b) # Global
    /\ g.code[NextPlace(f, b)[1]][NextPlace(f, b)[2]].op = op
    /\ op = "ret" => OpenBlocks(g) \subseteq OpenBlocks(f) \ {b}

\* Any instruction with operands from the function may follow at the end of a
\* block.
LEMMA AddPlain ==
    ASSUME NEW f, Consistent(f), NEW b \in Blocks(f),
           NEW op \in Opcodes,
           NEW var \in Operands, IsPlace(f, var) \/ var = NextPlace(f, b),
           NEW args \in Seq(Operands), \A v \in ToSet(args) : IsValue(f, v)
    PROVE  Added(f, b, op, AddInstruction(f, b, Instruction(op, << >>, var, args)))
<1> DEFINE i == Instruction(op, << >>, var, args)
           g == AddInstruction(f, b, i)
<1>1. WellFormed(f)
  BY DEF Consistent
<1>2. /\ i \in Instructions /\ i.to = << >> /\ i.op = op
      /\ i.var = var /\ i.args = args
  <2>1. << >> \in Seq(Nat) /\ Global \in Operands
    BY EmptySeq DEF Global, Operands
  <2>2. QED
    BY <2>1 DEF Instructions, Instruction
<1> HIDE DEF i
<1>3. Extends(f, g) /\ IsPlace(g, NextPlace(f, b))
  BY <1>1, <1>2, AddExtends
<1>4. Refers(g, i)
  <2>1. IsPlace(g, var)
    BY <1>3, ExtendsPlaces
  <2>2. \A v \in ToSet(args) : IsValue(g, v)
    BY <1>3, ExtendsPlaces
  <2>3. ToSet(i.to) = {}
    BY <1>2 DEF ToSet
  <2>4. QED
    BY <1>2, <2>1, <2>2, <2>3 DEF Refers
<1>5. Consistent(g)
  BY <1>2, <1>4, AddKeepsConsistent
<1>6. /\ Blocks(g) = Blocks(f)
      /\ NextPlace(f, b) \in Operands
      /\ NextPlace(f, b) # Global
      /\ g.code[NextPlace(f, b)[1]][NextPlace(f, b)[2]].op = i.op
      /\ OpenBlocks(g) \subseteq OpenBlocks(f) \cup {b}
      /\ IsTerminator(i) => OpenBlocks(g) \subseteq OpenBlocks(f) \ {b}
  BY <1>1, <1>2, <1>4, AddKeeps
<1> HIDE DEF g
<1>7. QED
  BY <1>2, <1>3, <1>5, <1>6 DEF Added, Continues, IsTerminator, g, i

\* The same for each kind of instruction that the visitor emits.
LEMMA AddedPlain ==
    ASSUME NEW f, Consistent(f), NEW b \in Blocks(f)
    PROVE  /\ Added(f, b, "call", AddInstruction(f, b, Call))
           /\ Added(f, b, "alloca", AddInstruction(f, b, Alloca(NextPlace(f, b))))
           /\ \A s \in Operands : IsPlace(f, s) =>
                 Added(f, b, "load", AddInstruction(f, b, Load(s)))
           /\ \A v \in Operands : IsValue(f, v) =>
                 Added(f, b, "ret", AddInstruction(f, b, Ret(v)))
           /\ \A s \in Operands, v \in Operands : IsPlace(f, s) /\ IsValue(f, v) =>
                 Added(f, b, "store", AddInstruction(f, b, Store(s, v)))
           /\ \A u \in Operands, v \in Operands, op \in {"add", "ne", "lt", "gep"} :
                 IsValue(f, u) /\ IsValue(f, v) =>
                     Added(f, b, op, AddInstruction(f, b, Pure(op, <<u, v>>)))
<1>1. /\ Global \in Operands /\ IsPlace(f, Global)
      /\ NextPlace(f, b) \in Operands
      /\ << >> \in Seq(Operands) /\ ToSet(<< >>) = {}
  <2>1. NextPlace(f, b) \in Operands
    <3>1. b \in Nat /\ f.code \in Seq(Seq(Instructions)) /\ Blocks(f) = 1..Len(f.code)
      BY BlocksFacts DEF Consistent
    <3>2. Len(f.code[b]) \in Nat
      BY <3>1, ElementOfSeq, LenProperties
    <3>3. QED
      BY <3>1, <3>2 DEF NextPlace, Operands
  <2>2. QED
    BY <2>1, EmptySeq DEF Global, Operands, IsPlace, ToSet
<1>2. {"call", "alloca", "load", "ret", "store", "add", "ne", "lt", "gep"} \subseteq Opcodes
  BY DEF Opcodes
<1>3. ASSUME NEW u, NEW v
      PROVE  ToSet(<<u>>) = {u} /\ ToSet(<<u, v>>) = {u, v}
  BY DEF ToSet
<1>4. Added(f, b, "call", AddInstruction(f, b, Call))
  BY <1>1, <1>2, AddPlain DEF Call
<1>5. Added(f, b, "alloca", AddInstruction(f, b, Alloca(NextPlace(f, b))))
  BY <1>1, <1>2, AddPlain DEF Alloca
<1>6. ASSUME NEW s \in Operands, IsPlace(f, s)
      PROVE  Added(f, b, "load", AddInstruction(f, b, Load(s)))
  BY <1>1, <1>2, <1>6, AddPlain DEF Load
<1>7. ASSUME NEW v \in Operands, IsValue(f, v)
      PROVE  Added(f, b, "ret", AddInstruction(f, b, Ret(v)))
  <2> DEFINE args == <<v>>
  <2>1. args \in Seq(Operands) /\ \A a \in ToSet(args) : IsValue(f, a)
    <3>1. args \in Seq(Operands)
      OBVIOUS
    <3>2. ToSet(args) = {v}
      BY <1>3, Zenon
    <3>3. QED
      BY <1>7, <3>1, <3>2
  <2>2. "ret" \in Opcodes
    BY <1>2
  <2> HIDE DEF args
  <2>3. Added(f, b, "ret", AddInstruction(f, b, Instruction("ret", << >>, Global, args)))
    BY <1>1, <1>2, <2>1, <2>2, AddPlain
  <2>4. QED
    BY <2>3 DEF Ret, args
<1>8. ASSUME NEW s \in Operands, NEW v \in Operands, IsPlace(f, s), IsValue(f, v)
      PROVE  Added(f, b, "store", AddInstruction(f, b, Store(s, v)))
  <2> DEFINE args == <<v>>
  <2>1. args \in Seq(Operands) /\ \A a \in ToSet(args) : IsValue(f, a)
    <3>1. args \in Seq(Operands)
      OBVIOUS
    <3>2. ToSet(args) = {v}
      BY <1>3, Zenon
    <3>3. QED
      BY <1>8, <3>1, <3>2
  <2>2. "store" \in Opcodes
    BY <1>2
  <2> HIDE DEF args
  <2>3. Added(f, b, "store", AddInstruction(f, b, Instruction("store", << >>, s, args)))
    BY <1>1, <1>2, <1>8, <2>1, <2>2, AddPlain
  <2>4. QED
    BY <2>3 DEF Store, args
<1>9. ASSUME NEW u \in Operands, NEW v \in Operands, NEW op \in {"add", "ne", "lt", "gep"},
             IsValue(f, u), IsValue(f, v)
      PROVE  Added(f, b, op, AddInstruction(f, b, Pure(op, <<u, v>>)))
  <2> DEFINE args == <<u, v>>
  <2>1. args \in Seq(Operands) /\ \A a \in ToSet(args) : IsValue(f, a)
    <3>1. args \in Seq(Operands)
      OBVIOUS
    <3>2. ToSet(args) = {u, v}
      BY <1>3, Zenon
    <3>3. QED
      BY <1>9, <3>1, <3>2
  <2>2. op \in Opcodes
    BY <1>2
  <2> HIDE DEF args
  <2>3. Added(f, b, op, AddInstruction(f, b, Instruction(op, << >>, Global, args)))
    BY <1>1, <1>2, <2>1, <2>2, AddPlain
  <2>4. QED
    BY <2>3 DEF Pure, args
<1>10. QED
  BY <1>4, <1>5, <1>6, <1>7, <1>8, <1>9

-----------------------------------------------------------------------------
\* What a name in scope k of a list of scopes may stand for.
Storage(f, k, s) ==
    \/ s = Undeclared
    \/ s = Global /\ k = 1
    \/ /\ k > 1 /\ s \in Operands
       /\ s[1] \in Blocks(f) /\ s[2] \in DOMAIN f.code[s[1]]
       /\ f.code[s[1]][s[2]].op = "alloca"

ScopesFit(f, sc) ==
    /\ sc \in Seq([Name -> Operands \cup {Undeclared}]) \ {<< >>}
    /\ \A k \in DOMAIN sc, n \in Name : Storage(f, k, sc[k][n])

\* What names stand for stays right while the function grows.
LEMMA ScopesFitLater ==
    ASSUME NEW f, NEW g, Extends(f, g), NEW sc, ScopesFit(f, sc)
    PROVE  ScopesFit(g, sc)
<1>1. ASSUME NEW k, NEW s, Storage(f, k, s)
      PROVE  Storage(g, k, s)
  BY <1>1 DEF Storage, Extends
<1>2. QED
  BY <1>1 DEF ScopesFit

\* A nonempty set of indices has a largest one.
LEMMA LargestIndex ==
    ASSUME NEW n \in Nat, NEW D \in SUBSET (1..n), D # {}
    PROVE  \E k \in D : \A j \in D : j <= k
<1> DEFINE T == {j..n : j \in D}
           S == 1..n
<1>1. IsWellFoundedOn(StrictSubsetOrdering(S), FiniteSubsetsOf(S))
  BY FS_StrictSubsetOrderingWellFounded
<1>2. T \subseteq FiniteSubsetsOf(S) /\ T # {}
  <2>1. ASSUME NEW j \in D
        PROVE  j..n \in FiniteSubsetsOf(S)
    <3>1. j \in Int /\ n \in Int /\ j..n \subseteq S
      OBVIOUS
    <3>2. IsFiniteSet(j..n)
      BY <3>1, FS_Interval, Zenon
    <3>3. QED
      BY <3>1, <3>2 DEF FiniteSubsetsOf
  <2>2. QED
    BY <2>1
<1>3. PICK x \in T : \A y \in T : ~(<<y, x>> \in StrictSubsetOrdering(S))
  <2> HIDE DEF T, S
  <2>1. QED
    BY <1>1, <1>2, WFMin, Zenon
<1>4. PICK k \in D : x = k..n
  OBVIOUS
<1>5. ASSUME NEW j \in D
      PROVE  j <= k
  <2>1. SUFFICES ASSUME k < j
                 PROVE  FALSE
    OBVIOUS
  <2>2. j..n \subseteq k..n /\ j..n # k..n /\ j..n \in SUBSET S /\ k..n \in SUBSET S
    BY <2>1
  <2>3. <<j..n, k..n>> \in StrictSubsetOrdering(S)
    BY <2>2 DEF StrictSubsetOrdering
  <2>4. QED
    BY <1>3, <1>4, <2>3
<1>6. QED
  BY <1>5

\* Scope::find gives what some scope holds.
LEMMA FindFacts ==
    ASSUME NEW f, NEW sc, ScopesFit(f, sc), NEW n \in Name, Find(sc, n) # Undeclared
    PROVE  Find(sc, n) \in Operands /\ IsPlace(f, Find(sc, n))
<1> DEFINE D == {k \in DOMAIN sc : sc[k][n] # Undeclared}
           m == CHOOSE k \in D : \A j \in D : j <= k
<1>1. Len(sc) \in Nat /\ DOMAIN sc = 1..Len(sc)
  BY LenProperties DEF ScopesFit
<1>2. D # {} /\ Find(sc, n) = sc[m][n]
  BY DEF Find
<1>3. m \in D
  <2>1. D \in SUBSET (1..Len(sc))
    BY <1>1
  <2> HIDE DEF D
  <2>2. \E k \in D : \A j \in D : j <= k
    BY <1>1, <1>2, <2>1, LargestIndex
  <2>3. QED
    BY <2>2
<1> HIDE DEF m
<1>4. Storage(f, m, sc[m][n]) /\ sc[m][n] # Undeclared
  BY <1>3 DEF ScopesFit
<1>5. QED
  BY <1>2, <1>4 DEF Storage, IsPlace, Global, Operands

-----------------------------------------------------------------------------
\* A new block of the function as NewBlockKeeps describes it, by one name.
BlockAdded(f, g) ==
    /\ Consistent(g) /\ Extends(f, g)
    /\ Blocks(g) = Blocks(f) \cup {NewestBlock(f) + 1}
    /\ NewestBlock(g) = NewestBlock(f) + 1
    /\ OpenBlocks(g) \subseteq OpenBlocks(f) \cup {NewestBlock(f) + 1}

\* BasicBlock::create.
LEMMA NewBlockAdded ==
    ASSUME NEW f, Consistent(f)
    PROVE  BlockAdded(f, NewBlock(f)) /\ NewestBlock(f) \in Nat
BY NewBlockKeeps DEF BlockAdded

\* The newest block has the highest number.
LEMMA NewestBlockFacts ==
    ASSUME NEW f, Consistent(f)
    PROVE  Blocks(f) = 1..NewestBlock(f) /\ NewestBlock(f) \in Nat
BY BlocksFacts DEF Consistent, NewestBlock

\* Functions with the same blocks have the same newest one.
LEMMA SameNewest ==
    ASSUME NEW f, NEW g, Consistent(f), Consistent(g), Blocks(f) = Blocks(g)
    PROVE  NewestBlock(f) = NewestBlock(g)
<1>1. /\ 1..NewestBlock(f) = 1..NewestBlock(g)
      /\ NewestBlock(f) \in Nat /\ NewestBlock(g) \in Nat
  BY NewestBlockFacts
<1>2. QED
  BY <1>1

\* A branch was added at the end of b.
BranchedFrom(f, b, g) ==
    /\ Consistent(g) /\ Extends(f, g)
    /\ Blocks(g) = Blocks(f)
    /\ OpenBlocks(g) \subseteq OpenBlocks(f) \ {b}

\* create_cond_br between different blocks, neither of them the entry.
LEMMA CondBrBranches ==
    ASSUME NEW f, Consistent(f), NEW b \in Blocks(f), NEW c \in Operands, IsValue(f, c),
           NEW t \in Blocks(f) \ {Entry}, NEW e \in Blocks(f) \ {Entry}, t # e
    PROVE  BranchedFrom(f, b, CreateCondBr(f, b, c, t, e))
BY CreateCondBrKeeps DEF BranchedFrom

\* create_br to any block but the entry.
LEMMA BrBranches ==
    ASSUME NEW f, Consistent(f), NEW b \in Blocks(f), NEW t \in Blocks(f) \ {Entry}
    PROVE  BranchedFrom(f, b, CreateBr(f, b, t))
BY CreateBrKeeps DEF BranchedFrom

\* A literal is a value of every function.
LEMMA LiteralFacts ==
    ASSUME NEW f, NEW n \in Nat
    PROVE  Literal(n) \in Operands /\ IsValue(f, Literal(n))
BY DEF Literal, Operands, IsValue, IsInstruction

\* The check of a subscript: the code goes on in the second new block.
LEMMA CheckIndexContinues ==
    ASSUME NEW f, Consistent(f), NEW b \in Blocks(f), NEW i \in Operands, IsValue(f, i)
    PROVE  /\ Continues(f, b, CheckIndex(f, b, i), NewestBlock(f) + 2)
           /\ NewestBlock(CheckIndex(f, b, i)) = NewestBlock(f) + 2
<1> DEFINE t == NewestBlock(f) + 1
           v == NextPlace(f, b)
           c == AddInstruction(f, b, Pure("lt", <<i, Literal(0)>>))
           d == NewBlock(c)
           e == NewBlock(d)
           g == CreateCondBr(e, b, v, t, t + 1)
           h == AddInstruction(g, t, Call)
           r == AddInstruction(h, t, Ret(Literal(0)))
<1>1. CheckIndex(f, b, i) = r
  BY DEF CheckIndex
<1>2. Added(f, b, "lt", c)
  BY AddedPlain, LiteralFacts
<1> HIDE DEF c
<1>3. Consistent(c) /\ NewestBlock(c) = NewestBlock(f)
  BY <1>2, SameNewest DEF Added, Continues
<1>4. BlockAdded(c, d)
  BY <1>3, NewBlockAdded
<1> HIDE DEF d
<1>5. BlockAdded(d, e)
  BY <1>4, NewBlockAdded DEF BlockAdded
<1> HIDE DEF e
<1>6. /\ Consistent(e) /\ Extends(f, e)
      /\ b \in Blocks(e)
      /\ t \in Blocks(e) \ {Entry} /\ t + 1 \in Blocks(e) \ {Entry} /\ t # t + 1
      /\ NewestBlock(e) = NewestBlock(f) + 2
      /\ OpenBlocks(e) \subseteq OpenBlocks(f) \cup {b, t, t + 1}
  <2>1. Extends(f, e)
    BY <1>2, <1>4, <1>5, ExtendsTransitive DEF Added, Continues, BlockAdded
  <2>2. NewestBlock(f) \in Nat /\ NewestBlock(f) >= 1
    BY NewestBlockFacts
  <2>3. /\ NewestBlock(d) = t /\ NewestBlock(e) = t + 1
        /\ Blocks(e) = Blocks(f) \cup {t, t + 1}
    BY <1>2, <1>3, <1>4, <1>5, <2>2 DEF Added, BlockAdded
  <2>4. OpenBlocks(e) \subseteq OpenBlocks(f) \cup {b, t, t + 1}
    BY <1>2, <1>3, <1>4, <1>5, <2>3 DEF Added, Continues, BlockAdded
  <2>5. QED
    BY <1>5, <2>1, <2>2, <2>3, <2>4 DEF BlockAdded, Entry
<1>7. v \in Operands /\ IsValue(e, v)
  BY <1>2, <1>4, <1>5, ExtendsPlaces, ExtendsTransitive DEF Added, BlockAdded, IsValue
<1>8. BranchedFrom(e, b, g)
  BY <1>6, <1>7, CondBrBranches
<1> HIDE DEF g, v
<1>9. Consistent(g) /\ t \in Blocks(g)
  BY <1>6, <1>8 DEF BranchedFrom
<1>10. Added(g, t, "call", h)
  BY <1>9, AddedPlain
<1> HIDE DEF h
<1>11. Added(h, t, "ret", r)
  <2>1. Consistent(h) /\ t \in Blocks(h) /\ 0 \in Nat
    BY <1>9, <1>10 DEF Added, Continues
  <2>2. Literal(0) \in Operands /\ IsValue(h, Literal(0))
    BY LiteralFacts
  <2>3. QED
    BY <2>1, <2>2, AddedPlain
<1> HIDE DEF r
<1>12. Extends(f, r)
  BY <1>6, <1>8, <1>10, <1>11, ExtendsTransitive DEF BranchedFrom, Added, Continues
<1>13. Consistent(r) /\ Blocks(r) = Blocks(e)
  BY <1>8, <1>10, <1>11 DEF BranchedFrom, Added, Continues
<1>14. OpenBlocks(r) \subseteq (OpenBlocks(f) \ {b}) \cup {t + 1}
  BY <1>6, <1>8, <1>10, <1>11 DEF BranchedFrom, Added, Continues
<1>15. NewestBlock(r) = NewestBlock(f) + 2
  BY <1>6, <1>13, SameNewest
<1>16. t + 1 = NewestBlock(f) + 2
  BY NewestBlockFacts
<1>17. QED
  BY <1>1, <1>6, <1>12, <1>13, <1>14, <1>15, <1>16 DEF Continues

-----------------------------------------------------------------------------
\* The visit of an expression at block b of f gives v.
Evaluated(f, b, v) ==
    /\ v = [f |-> v.f, at |-> v.at, val |-> v.val]
    /\ Continues(f, b, v.f, v.at)
    /\ v.val \in Operands /\ IsValue(v.f, v.val)

Known(e) == e \in Name => Find(scope, e) # Undeclared

\* An evaluation may go on where another one came to.
LEMMA EvaluatedFurther ==
    ASSUME NEW f, NEW b, NEW r, Evaluated(f, b, r),
           NEW g, NEW op, Added(r.f, r.at, op, g)
    PROVE  /\ Continues(f, b, g, r.at)
           /\ NextPlace(r.f, r.at) \in Operands
           /\ IsValue(g, NextPlace(r.f, r.at))
BY ContinuesTransitive DEF Evaluated, Added, IsValue

\* The address of an element, behind the check of its subscript.
LEMMA ElementEvaluated ==
    ASSUME NEW f, NEW b, NEW r, Evaluated(f, b, r)
    PROVE  Evaluated(f, b, Element(r)) /\ IsPlace(Element(r).f, Element(r).val)
<1> DEFINE g == CheckIndex(r.f, r.at, Literal(1))
           c == NewestBlock(g)
           h == AddInstruction(g, c, Pure("gep", <<Global, Literal(1)>>))
           a == NextPlace(g, c)
<1>1. Element(r) = [f |-> h, at |-> c, val |-> a]
  BY DEF Element, AddressOf
<1>2. Literal(1) \in Operands /\ IsValue(r.f, Literal(1))
  BY LiteralFacts
<1>3. Continues(r.f, r.at, g, c)
  BY <1>2, CheckIndexContinues DEF Evaluated, Continues
<1> HIDE DEF g
<1>4. Consistent(g) /\ c \in Blocks(g)
  BY <1>3 DEF Continues
<1>5. /\ Global \in Operands /\ IsValue(g, Global)
      /\ Literal(1) \in Operands /\ IsValue(g, Literal(1))
  BY <1>2 DEF Global, Operands, IsValue, IsPlace, Literal, IsInstruction
<1> HIDE DEF c
<1>6. Added(g, c, "gep", h)
  BY <1>4, <1>5, AddedPlain
<1> HIDE DEF h
<1>7. a \in Operands /\ IsPlace(h, a)
  BY <1>4, <1>6 DEF Added, Continues
<1> HIDE DEF a
<1>8. Continues(f, b, h, c)
  BY <1>3, <1>6, ContinuesTransitive DEF Evaluated, Added
<1>9. QED
  BY <1>1, <1>7, <1>8 DEF Evaluated, IsValue

\* The visit of a term: the code goes on in an open block and val is a value.
LEMMA TermEvaluated ==
    ASSUME NEW f, NEW b, NEW r, Evaluated(f, b, r), ScopesFit(f, scope),
           NEW e \in {"0", "1", "call", "index"} \cup Name, Known(e)
    PROVE  Evaluated(f, b, Term(r, e))
<1> DEFINE v == Term(r, e)
           p == NextPlace(r.f, r.at)
<1>1. Consistent(r.f) /\ r.at \in Blocks(r.f)
  BY DEF Evaluated, Continues
<1>2. \A n \in Nat : Literal(n) \in Operands /\ IsValue(r.f, Literal(n))
  BY LiteralFacts
<1>3. CASE e = "0"
  <2>1. v = [f |-> r.f, at |-> r.at, val |-> Literal(0)]
    BY <1>3 DEF Term, Evaluated
  <2>2. QED
    BY <1>2, <2>1 DEF Evaluated
<1>4. CASE e = "1"
  <2>1. v = [f |-> r.f, at |-> r.at, val |-> Literal(1)]
    BY <1>4 DEF Term, Evaluated
  <2>2. QED
    BY <1>2, <2>1 DEF Evaluated
<1>5. CASE e = "call"
  <2> DEFINE g == AddInstruction(r.f, r.at, Call)
  <2>1. v = [f |-> g, at |-> r.at, val |-> p]
    BY <1>5 DEF Term, Evaluated
  <2>2. Added(r.f, r.at, "call", g)
    BY <1>1, AddedPlain
  <2> HIDE DEF g, p
  <2>3. QED
    BY <2>1, <2>2, EvaluatedFurther DEF Evaluated, p
<1>6. CASE e = "index"
  <2> DEFINE a == Element(r)
             k == AddInstruction(a.f, a.at, Load(a.val))
             z == NextPlace(a.f, a.at)
  <2>1. v = [f |-> k, at |-> a.at, val |-> z]
    BY <1>6 DEF Term, LoadedFrom
  <2>2. Evaluated(f, b, a) /\ IsPlace(a.f, a.val)
    BY ElementEvaluated
  <2> HIDE DEF a
  <2>3. Added(a.f, a.at, "load", k)
    BY <2>2, AddedPlain DEF Evaluated, Continues
  <2> HIDE DEF k, z
  <2>4. QED
    BY <2>1, <2>2, <2>3, EvaluatedFurther DEF Evaluated, z
<1>7. CASE e \notin {"0", "1", "call", "index"}
  <2> DEFINE s == Find(scope, e)
             g == AddInstruction(r.f, r.at, Load(s))
  <2>1. v = [f |-> g, at |-> r.at, val |-> p]
    BY <1>7 DEF Term, Evaluated
  <2>2. s \in Operands /\ IsPlace(r.f, s)
    <3>1. s \in Operands /\ IsPlace(f, s)
      BY <1>7, FindFacts DEF Known
    <3>2. Extends(f, r.f)
      BY DEF Evaluated, Continues
    <3>3. QED
      BY <3>1, <3>2, ExtendsPlaces
  <2> HIDE DEF s
  <2>3. Added(r.f, r.at, "load", g)
    BY <1>1, <2>2, AddedPlain
  <2> HIDE DEF g, p
  <2>4. QED
    BY <2>1, <2>3, EvaluatedFurther DEF Evaluated, p
<1>8. QED
  BY <1>3, <1>4, <1>5, <1>6, <1>7

\* The visit of a second operand and the addition.
LEMMA AddTermEvaluated ==
    ASSUME NEW f, NEW b, NEW r, Evaluated(f, b, r), ScopesFit(f, scope),
           NEW e \in {"0", "1", "call", "index"} \cup Name, Known(e)
    PROVE  Evaluated(f, b, AddTerm(r, e))
<1> DEFINE q == Term(r, e)
           g == AddInstruction(q.f, q.at, Pure("add", <<r.val, q.val>>))
           p == NextPlace(q.f, q.at)
<1>1. Evaluated(r.f, r.at, r) /\ ScopesFit(r.f, scope)
  BY ContinuesReflexive, ScopesFitLater DEF Evaluated, Continues
<1>2. Evaluated(r.f, r.at, q)
  BY <1>1, TermEvaluated
<1>3. AddTerm(r, e) = [q EXCEPT !.f = g, !.val = p]
  BY DEF AddTerm
<1> HIDE DEF q
<1>4. AddTerm(r, e) = [f |-> g, at |-> q.at, val |-> p]
  <2> HIDE DEF g, p
  <2>1. QED
    BY <1>2, <1>3 DEF Evaluated
<1>5. /\ Consistent(q.f) /\ q.at \in Blocks(q.f)
      /\ r.val \in Operands /\ IsValue(q.f, r.val)
      /\ q.val \in Operands /\ IsValue(q.f, q.val)
  BY <1>2, ExtendsPlaces DEF Evaluated, Continues
<1>6. Added(q.f, q.at, "add", g)
  BY <1>5, AddedPlain
<1> HIDE DEF g, p
<1>7. Evaluated(f, b, q)
  BY <1>2, ContinuesTransitive DEF Evaluated
<1>8. QED
  BY <1>4, <1>6, <1>7, EvaluatedFurther DEF Evaluated, p

\* The visit of an expression whose names are all declared.
LEMMA EvalEvaluated ==
    ASSUME NEW f, Consistent(f), NEW b \in Blocks(f), ScopesFit(f, scope),
           NEW e \in Expr, Declared(e)
    PROVE  Evaluated(f, b, Eval(f, b, e))
<1> DEFINE r0 == [f |-> f, at |-> b, val |-> Literal(0)]
           r == Term(r0, e[1])
           terms == {"0", "1", "call", "index"} \cup Name
<1>1. e \in Seq(terms) /\ Len(e) \in {1, 2}
  BY CminusfBuilderAssumption
<1>2. ASSUME NEW k \in 1..Len(e)
      PROVE  e[k] \in terms /\ Known(e[k])
  <2>1. e[k] \in terms /\ k \in DOMAIN e
    <3> HIDE DEF terms
    <3>1. QED
      BY <1>1, ElementOfSeq, LenProperties
  <2>2. e[k] \in ToSet(e)
    BY <2>1 DEF ToSet
  <2>3. QED
    BY <2>1, <2>2 DEF Known, Declared
<1>3. Evaluated(f, b, r0)
  BY ContinuesReflexive, LiteralFacts DEF Evaluated
<1> HIDE DEF r0
<1>4. Evaluated(f, b, r)
  <2>1. 1 \in 1..Len(e)
    <3>1. Len(e) = 1 \/ Len(e) = 2
      BY <1>1, Zenon
    <3>2. QED
      BY <3>1
  <2>2. e[1] \in terms /\ Known(e[1])
    BY <1>2, <2>1
  <2>3. QED
    BY <1>3, <2>2, TermEvaluated
<1> HIDE DEF r
<1>5. CASE Len(e) = 1
  BY <1>4, <1>5 DEF Eval, r, r0
<1>6. CASE Len(e) = 2
  <2>1. Evaluated(f, b, AddTerm(r, e[2]))
    <3>1. 2 \in 1..Len(e)
      BY <1>6
    <3>2. e[2] \in terms /\ Known(e[2])
      BY <1>2, <3>1
    <3>3. QED
      BY <1>4, <3>2, AddTermEvaluated
  <2>2. QED
    BY <1>6, <2>1 DEF Eval, r, r0
<1>7. QED
  BY <1>1, <1>5, <1>6

\* The branch on a value that was evaluated, from where the code has come to.
LEMMA BranchLeaves ==
    ASSUME NEW v, v = [f |-> v.f, at |-> v.at, val |-> v.val],
           Consistent(v.f), v.at \in Blocks(v.f),
           v.val \in Operands, IsValue(v.f, v.val),
           NEW t \in Blocks(v.f) \ {Entry}, NEW e \in Blocks(v.f) \ {Entry}, t # e
    PROVE  BranchedFrom(v.f, v.at, Branch(v, t, e))
<1> DEFINE c == AddInstruction(v.f, v.at, Pure("ne", <<v.val, Literal(0)>>))
           p == NextPlace(v.f, v.at)
           g == CreateCondBr(c, v.at, p, t, e)
<1>1. Literal(0) \in Operands /\ IsValue(v.f, Literal(0))
  BY LiteralFacts
<1>2. Added(v.f, v.at, "ne", c)
  BY <1>1, AddedPlain
<1>3. Branch(v, t, e) = g
  BY DEF Branch
<1> HIDE DEF c, p
<1>4. /\ Consistent(c) /\ v.at \in Blocks(c) /\ Blocks(c) = Blocks(v.f)
      /\ p \in Operands /\ IsValue(c, p)
  BY <1>2 DEF Added, Continues, IsValue, p
<1>5. BranchedFrom(c, v.at, g)
  BY <1>4, CondBrBranches
<1> HIDE DEF g
<1>6. Extends(v.f, g)
  BY <1>2, <1>5, ExtendsTransitive DEF Added, Continues, BranchedFrom
<1>7. QED
  BY <1>2, <1>3, <1>5, <1>6 DEF BranchedFrom, Added, Continues

-----------------------------------------------------------------------------
\* What the frames of the pending visits hold, and how they are nested.
FrameFits(f, frame) ==
    /\ {frame.at, frame.next} \subseteq Blocks(f) \cup {0}
    /\ Awaits(frame) \subseteq Blocks(f) \ {Entry}
    /\ frame.kind = "body" => frame.at \in Blocks(f) \ {Entry}

StackFits(f, stk) ==
    /\ stk \in Seq(Frames)
    /\ \A k \in DOMAIN stk : FrameFits(f, stk[k])

Awaited(stk) == UNION {Awaits(stk[k]) : k \in DOMAIN stk}

\* The function's frame is the first one and its compound the second.
FrameNested(k, frame) ==
    /\ frame.kind = "fun" <=> k = 1
    /\ k = 2 => frame.kind = "compound"
    /\ frame.kind = "compound" => (frame.flag <=> k # 2)

StackNested(stk) == \A k \in DOMAIN stk : FrameNested(k, stk[k])

\* What is visited next fits the visits that are pending.
Controlled(stk, c, inF) ==
    /\ c \in {"global", "compound", "decls", "list", "stmt", "done"}
    /\ c = "global" <=> stk = << >>
    /\ inF <=> c = "compound"
    /\ c = "compound" => Len(stk) = 1
    /\ c \in {"decls", "list"} => Last(stk).kind = "compound"
    /\ c = "stmt" => Last(stk).kind \in {"then", "else", "body"}
    /\ c = "done" => Last(stk).kind # "compound"

Compounds == {frame \in Frames : frame.kind = "compound"}

\* The scopes that are open while the visits of stk are pending.
ScopesOpen(stk) ==
    IF stk = << >> THEN 1
    ELSE IF Len(stk) = 1 THEN 2
    ELSE Cardinality(Places(stk, Compounds)) + 1

\* The inductive invariant.
FunctionInv ==
    /\ Consistent(func)
    /\ insert \in Blocks(func) \cup {Entry}
    /\ ctl # "global" => insert \in Blocks(func)
    /\ OpenBlocks(func) \subseteq
           IF ctl = "global" THEN {} ELSE {insert} \cup Awaited(stack)

IInv ==
    /\ FunctionInv
    /\ StackFits(func, stack)
    /\ StackNested(stack)
    /\ Controlled(stack, ctl, inFunc)
    /\ ScopesFit(func, scope)
    /\ Len(scope) = ScopesOpen(stack)
    /\ inFunc \in BOOLEAN /\ items \in 0..MaxItems /\ funs \in 0..MaxFuns

-----------------------------------------------------------------------------
\* stk is rest with one more frame on top.
OnTop(rest, frame, stk) ==
    /\ rest \in Seq(Frames) /\ frame \in Frames /\ stk \in Seq(Frames)
    /\ Len(rest) \in Nat /\ DOMAIN rest = 1..Len(rest)
    /\ Len(stk) = Len(rest) + 1
    /\ DOMAIN stk = DOMAIN rest \cup {Len(stk)}
    /\ \A k \in DOMAIN rest : stk[k] = rest[k]
    /\ Last(stk) = frame /\ stk[Len(stk)] = frame
    /\ stk # << >>
    /\ Cardinality(Places(rest, Compounds)) \in Nat
    /\ Cardinality(Places(stk, Compounds)) =
           Cardinality(Places(rest, Compounds)) + (IF frame \in Compounds THEN 1 ELSE 0)

\* A pushed visit is the last of the stack.
LEMMA PushOnTop ==
    ASSUME NEW rest \in Seq(Frames), NEW frame \in Frames
    PROVE  OnTop(rest, frame, Append(rest, frame))
<1> DEFINE stk == Append(rest, frame)
<1>1. /\ stk \in Seq(Frames) /\ stk # << >>
      /\ Len(stk) = Len(rest) + 1
      /\ \A k \in 1..Len(rest) : stk[k] = rest[k]
      /\ stk[Len(rest) + 1] = frame
  BY AppendProperties
<1>2. /\ Cardinality(Places(rest, Compounds)) \in Nat
      /\ Cardinality(Places(stk, Compounds)) =
             Cardinality(Places(rest, Compounds)) + (IF frame \in Compounds THEN 1 ELSE 0)
  BY CountAppend
<1> HIDE DEF stk
<1>3. Len(rest) \in Nat /\ DOMAIN rest = 1..Len(rest) /\ DOMAIN stk = 1..Len(stk)
  BY <1>1, LenProperties
<1>4. QED
  BY <1>1, <1>2, <1>3 DEF OnTop, Last, stk

\* A stack of visits is its last one upon the others.
LEMMA PopOnTop ==
    ASSUME NEW stk \in Seq(Frames), stk # << >>
    PROVE  OnTop(Front(stk), Last(stk), stk)
<1>1. PICK rest \in Seq(Frames), frame \in Frames : stk = Append(rest, frame)
  BY SequenceEmptyOrAppend
<1>2. OnTop(rest, frame, stk)
  BY <1>1, PushOnTop
<1>3. Last(stk) = frame
  BY <1>2 DEF OnTop
<1>4. Front(stk) = rest
  <2>1. \A k \in 1..(Len(stk) - 1) : stk[k] \in Frames
    BY <1>2 DEF OnTop
  <2>2. 1 \in Int /\ Len(stk) - 1 \in Int /\ Len(stk) - 1 = Len(rest)
    BY <1>2 DEF OnTop
  <2>3. /\ Front(stk) \in Seq(Frames)
        /\ Len(Front(stk)) = Len(rest)
        /\ \A k \in 1..Len(rest) : Front(stk)[k] = stk[k]
    <3>1. /\ SubSeq(stk, 1, Len(stk) - 1) \in Seq(Frames)
          /\ Len(SubSeq(stk, 1, Len(stk) - 1)) =
                 IF 1 <= Len(stk) - 1 THEN Len(stk) - 1 - 1 + 1 ELSE 0
          /\ \A k \in 1..(Len(stk) - 1 - 1 + 1) : SubSeq(stk, 1, Len(stk) - 1)[k] = stk[1 + k - 1]
      BY <2>1, <2>2, SubSeqProperties
    <3>2. QED
      BY <1>2, <2>2, <3>1 DEF Front, OnTop
  <2>4. \A k \in 1..Len(rest) : Front(stk)[k] = rest[k]
    BY <1>2, <2>3 DEF OnTop
  <2>5. QED
    BY <2>3, <2>4, SeqEqual
<1>5. QED
  BY <1>2, <1>3, <1>4

\* What the frames of stk await, f has; a frame more, or one less.
TopSplit(f, rest, frame, stk) ==
    /\ StackFits(f, stk) <=> StackFits(f, rest) /\ FrameFits(f, frame)
    /\ StackNested(stk) <=> StackNested(rest) /\ FrameNested(Len(stk), frame)
    /\ Awaited(stk) = Awaited(rest) \cup Awaits(frame)

\* The stack fits if the last visit and those below it do.
LEMMA OnTopFits ==
    ASSUME NEW rest, NEW frame, NEW stk, OnTop(rest, frame, stk), NEW f
    PROVE  TopSplit(f, rest, frame, stk)
<1>1. StackFits(f, stk) <=> StackFits(f, rest) /\ FrameFits(f, frame)
  BY DEF OnTop, StackFits
<1>2. StackNested(stk) <=> StackNested(rest) /\ FrameNested(Len(stk), frame)
  BY DEF OnTop, StackNested
<1>3. Awaited(stk) = Awaited(rest) \cup Awaits(frame)
  BY DEF OnTop, Awaited
<1>4. QED
  BY <1>1, <1>2, <1>3 DEF TopSplit

\* The pending visits still fit after the function has grown.
LEMMA StackFitsLater ==
    ASSUME NEW f, NEW g, Extends(f, g), NEW stk, StackFits(f, stk)
    PROVE  StackFits(g, stk)
<1>1. Blocks(f) \subseteq Blocks(g)
  BY DEF Extends
<1>2. QED
  BY <1>1 DEF StackFits, FrameFits

\* A statement whose visit ended leaves the visitor where its frames say.
LEMMA AfterControlled ==
    ASSUME NEW stk \in Seq(Frames), stk # << >>, StackNested(stk)
    PROVE  Controlled(stk, After(stk), FALSE) /\ After(stk) # "global"
BY DEF Controlled, After

\* The fields of a frame.
LEMMA FrameFacts ==
    ASSUME NEW kind \in {"fun", "compound", "then", "else", "body"},
           NEW at \in Nat, NEW next \in Nat, NEW flag \in BOOLEAN
    PROVE  LET frame == Frame(kind, at, next, flag)
           IN  /\ frame \in Frames
               /\ frame.kind = kind /\ frame.at = at
               /\ frame.next = next /\ frame.flag = flag
BY DEF Frame, Frames

-----------------------------------------------------------------------------
\* The function without blocks is consistent.
LEMMA EmptyConsistent ==
    /\ Consistent(EmptyFunction)
    /\ Blocks(EmptyFunction) = {} /\ NewestBlock(EmptyFunction) = 0
    /\ OpenBlocks(EmptyFunction) = {}
<1> DEFINE f == EmptyFunction
<1>1. /\ f.pre = << >> /\ f.succ = << >> /\ f.code = << >>
      /\ f = [pre |-> f.pre, succ |-> f.succ, code |-> f.code]
      /\ Blocks(f) = {} /\ NewestBlock(f) = 0
  BY EmptySeq DEF EmptyFunction, Blocks, NewestBlock
<1> HIDE DEF f
<1>2. WellFormed(f)
  BY <1>1, EmptySeq DEF WellFormed, FunctionRecords
<1>3. Consistent(f) /\ OpenBlocks(f) = {}
  BY <1>1, <1>2 DEF Consistent, Agree, NoWayBack, OpenBlocks
<1>4. QED
  BY <1>1, <1>3 DEF f

\* The constructor of the visitor establishes the invariant.
LEMMA InitIInv == Init => IInv
<1> SUFFICES ASSUME Init
             PROVE  IInv
  OBVIOUS
<1>1. Consistent(func) /\ OpenBlocks(func) = {}
  BY EmptyConsistent DEF Init
<1>2. FunctionInv
  BY <1>1 DEF FunctionInv, Init
<1>3. StackFits(func, stack) /\ StackNested(stack) /\ Controlled(stack, ctl, inFunc)
  BY EmptySeq DEF Init, StackFits, StackNested, Controlled
<1>4. ScopesFit(func, scope) /\ Len(scope) = 1
  <2>1. NoNames \in [Name -> Operands \cup {Undeclared}] /\ \A n \in Name : NoNames[n] = Undeclared
    BY DEF NoNames
  <2>2. scope = <<NoNames>>
    BY DEF Init
  <2> HIDE DEF NoNames
  <2>3. /\ scope \in Seq([Name -> Operands \cup {Undeclared}]) \ {<< >>}
        /\ Len(scope) = 1 /\ DOMAIN scope = {1} /\ scope[1] = NoNames
    BY <2>1, <2>2
  <2>4. QED
    BY <2>1, <2>3 DEF ScopesFit, Storage
<1>5. inFunc \in BOOLEAN /\ items \in 0..MaxItems /\ funs \in 0..MaxFuns
  <2>1. MaxItems \in Nat /\ MaxFuns \in Nat
    BY CminusfBuilderAssumption, Zenon
  <2>2. inFunc = FALSE /\ items = 0 /\ funs = 0
    BY DEF Init
  <2>3. items \in 0..MaxItems /\ funs \in 0..MaxFuns
    BY <2>1, <2>2
  <2>4. inFunc \in BOOLEAN
    BY <2>2
  <2>5. QED
    BY <2>3, <2>4
<1>6. Len(scope) = ScopesOpen(stack)
  BY <1>4 DEF Init, ScopesOpen
<1>7. QED
  BY <1>2, <1>3, <1>4, <1>5, <1>6 DEF IInv

-----------------------------------------------------------------------------
\* Where a statement is visited.
LEMMA StatementFacts ==
    ASSUME IInv, AtStatement
    PROVE  /\ stack \in Seq(Frames) /\ stack # << >> /\ StackNested(stack)
           /\ StackFits(func, stack) /\ ScopesFit(func, scope)
           /\ Consistent(func) /\ insert \in Blocks(func)
           /\ OpenBlocks(func) \subseteq {insert} \cup Awaited(stack)
           /\ inFunc = FALSE
           /\ items' \in 0..MaxItems
<1>1. ctl # "global" /\ ctl # "compound"
  BY DEF AtStatement
<1>2. items' \in 0..MaxItems
  BY CminusfBuilderAssumption DEF AtStatement, IInv
<1>3. stack # << >> /\ inFunc = FALSE
  BY <1>1 DEF IInv, Controlled
<1>4. QED
  BY <1>1, <1>2, <1>3 DEF IInv, FunctionInv, StackFits

\* A statement that leaves no visit pending.
LEMMA StatementEnds ==
    ASSUME IInv, AtStatement, Continues(func, insert, func', insert'),
           ctl' = After(stack), UNCHANGED <<scope, inFunc, stack, funs>>
    PROVE  IInv'
<1>1. Controlled(stack, After(stack), FALSE) /\ After(stack) # "global"
  BY StatementFacts, AfterControlled
<1>2. /\ Consistent(func') /\ insert' \in Blocks(func')
      /\ Extends(func, func')
      /\ OpenBlocks(func') \subseteq {insert'} \cup Awaited(stack)
  BY StatementFacts DEF Continues
<1>3. FunctionInv'
  BY <1>1, <1>2 DEF FunctionInv
<1>4. StackFits(func', stack) /\ ScopesFit(func', scope)
  BY <1>2, StatementFacts, StackFitsLater, ScopesFitLater
<1>5. QED
  BY <1>1, <1>3, <1>4, StatementFacts DEF IInv

\* visit(ASTExpressionStmt) keeps the invariant.
LEMMA ExpressionStmtIInv ==
    ASSUME IInv, NEW e \in Expr, ExpressionStmt(e)
    PROVE  IInv'
<1> DEFINE v == Eval(func, insert, e)
<1>1. AtStatement /\ Declared(e)
  BY DEF ExpressionStmt
<1>2. Evaluated(func, insert, v)
  BY <1>1, StatementFacts, EvalEvaluated
<1>3. func' = v.f /\ insert' = v.at
  BY DEF ExpressionStmt
<1> HIDE DEF v
<1>4. Continues(func, insert, func', insert')
  BY <1>2, <1>3 DEF Evaluated
<1>5. QED
  BY <1>1, <1>4, StatementEnds DEF ExpressionStmt

\* visit(ASTAssignExpression) keeps the invariant.
LEMMA AssignStmtIInv ==
    ASSUME IInv, NEW n \in Name, NEW e \in Expr, AssignStmt(n, e)
    PROVE  IInv'
<1> DEFINE v == Eval(func, insert, e)
           s == Find(scope, n)
           g == AddInstruction(v.f, v.at, Store(s, v.val))
<1>1. AtStatement /\ Declared(e) /\ s # Undeclared
  <2>1. n \in ToSet(<<n>>) \cap Name
    BY DEF ToSet
  <2>2. QED
    BY <2>1 DEF AssignStmt, Declared
<1>2. Evaluated(func, insert, v)
  BY <1>1, StatementFacts, EvalEvaluated
<1>3. func' = g /\ insert' = v.at
  BY DEF AssignStmt
<1>4. s \in Operands /\ IsPlace(func, s)
  BY <1>1, StatementFacts, FindFacts
<1> HIDE DEF v, s
<1>5. Added(v.f, v.at, "store", g)
  BY <1>2, <1>4, ExtendsPlaces, AddedPlain DEF Evaluated, Continues
<1> HIDE DEF g
<1>6. Continues(func, insert, func', insert')
  BY <1>2, <1>3, <1>5, ContinuesTransitive DEF Evaluated, Added
<1>7. QED
  BY <1>1, <1>6, StatementEnds DEF AssignStmt

\* visit(ASTAssignExpression) with an element as target keeps the invariant.
LEMMA AssignElementIInv ==
    ASSUME IInv, NEW e \in Expr, AssignElement(e)
    PROVE  IInv'
<1> DEFINE r0 == [f |-> func, at |-> insert, val |-> Literal(0)]
           a == Element(r0)
           v == Eval(a.f, a.at, e)
           g == AddInstruction(v.f, v.at, Store(a.val, v.val))
<1>1. AtStatement /\ Declared(e) /\ func' = g /\ insert' = v.at
  BY DEF AssignElement
<1>2. Evaluated(func, insert, r0)
  BY <1>1, StatementFacts, ContinuesReflexive, LiteralFacts DEF Evaluated
<1> HIDE DEF r0
<1>3. Evaluated(func, insert, a) /\ IsPlace(a.f, a.val)
  BY <1>2, ElementEvaluated
<1> HIDE DEF a
<1>4. Consistent(a.f) /\ a.at \in Blocks(a.f) /\ ScopesFit(a.f, scope)
  BY <1>1, <1>3, StatementFacts, ScopesFitLater DEF Evaluated, Continues
<1>5. Evaluated(a.f, a.at, v)
  BY <1>1, <1>4, EvalEvaluated
<1> HIDE DEF v
<1>6. Added(v.f, v.at, "store", g)
  BY <1>3, <1>5, ExtendsPlaces, AddedPlain DEF Evaluated, Continues
<1> HIDE DEF g
<1>7. Continues(func, insert, func', insert')
  BY <1>1, <1>3, <1>5, <1>6, ContinuesTransitive DEF Evaluated, Added
<1>8. QED
  BY <1>1, <1>7, StatementEnds DEF AssignElement

\* visit(ASTReturnStmt) keeps the invariant.
LEMMA ReturnStmtIInv ==
    ASSUME IInv, NEW e \in Expr, ReturnStmt(e)
    PROVE  IInv'
<1> DEFINE v == Eval(func, insert, e)
           g == AddInstruction(v.f, v.at, Ret(v.val))
<1>1. AtStatement /\ Declared(e)
  BY DEF ReturnStmt
<1>2. Evaluated(func, insert, v)
  BY <1>1, StatementFacts, EvalEvaluated
<1>3. func' = g /\ insert' = v.at
  BY DEF ReturnStmt
<1> HIDE DEF v
<1>4. Added(v.f, v.at, "ret", g)
  BY <1>2, AddedPlain DEF Evaluated, Continues
<1> HIDE DEF g
<1>5. Continues(func, insert, func', insert')
  BY <1>2, <1>3, <1>4, ContinuesTransitive DEF Evaluated, Added
<1>6. QED
  BY <1>1, <1>5, StatementEnds DEF ReturnStmt

-----------------------------------------------------------------------------
\* Scopes are entered, left and filled.
LEMMA ScopeEntered ==
    ASSUME NEW f, NEW sc, ScopesFit(f, sc)
    PROVE  ScopesFit(f, Append(sc, NoNames)) /\ Len(Append(sc, NoNames)) = Len(sc) + 1
<1> DEFINE T == [Name -> Operands \cup {Undeclared}]
<1>1. sc \in Seq(T) /\ NoNames \in T
  BY DEF ScopesFit, NoNames
<1>2. \A n \in Name : NoNames[n] = Undeclared
  BY DEF NoNames
<1> HIDE DEF T, NoNames
<1>3. /\ Append(sc, NoNames) \in Seq(T) /\ Append(sc, NoNames) # << >>
      /\ Len(Append(sc, NoNames)) = Len(sc) + 1
      /\ \A k \in 1..Len(sc) : Append(sc, NoNames)[k] = sc[k]
      /\ Append(sc, NoNames)[Len(sc) + 1] = NoNames
  BY <1>1, AppendProperties
<1> DEFINE new == Append(sc, NoNames)
<1> HIDE DEF new
<1>4. Len(sc) \in Nat /\ DOMAIN sc = 1..Len(sc) /\ DOMAIN new = 1..(Len(sc) + 1)
  BY <1>1, <1>3, LenProperties DEF new
<1>5. ASSUME NEW k \in DOMAIN new, NEW n \in Name
      PROVE  Storage(f, k, new[k][n])
  <2>1. CASE k \in DOMAIN sc
    BY <1>3, <1>4, <2>1 DEF ScopesFit, new
  <2>2. CASE k = Len(sc) + 1
    BY <1>2, <1>3, <2>2 DEF Storage, new
  <2>3. QED
    BY <1>4, <2>1, <2>2
<1>6. QED
  BY <1>3, <1>5 DEF ScopesFit, new, T

\* Scope::exit, of any scope but the first.
LEMMA ScopeLeft ==
    ASSUME NEW f, NEW sc, ScopesFit(f, sc), Len(sc) >= 2
    PROVE  ScopesFit(f, Front(sc)) /\ Len(Front(sc)) = Len(sc) - 1
<1> DEFINE T == [Name -> Operands \cup {Undeclared}]
           new == SubSeq(sc, 1, Len(sc) - 1)
<1>1. sc \in Seq(T)
  BY DEF ScopesFit
<1> HIDE DEF T
<1>2. Len(sc) \in Nat /\ DOMAIN sc = 1..Len(sc) /\ \A k \in 1..Len(sc) : sc[k] \in T
  BY <1>1, LenProperties, ElementOfSeq
<1>3. /\ new \in Seq(T) /\ Len(new) = Len(sc) - 1
      /\ \A k \in 1..(Len(sc) - 1) : new[k] = sc[k]
  <2>1. 1 \in Int /\ Len(sc) - 1 \in Int /\ \A k \in 1..(Len(sc) - 1) : sc[k] \in T
    BY <1>2
  <2>2. /\ new \in Seq(T)
        /\ Len(new) = IF 1 <= Len(sc) - 1 THEN Len(sc) - 1 - 1 + 1 ELSE 0
        /\ \A k \in 1..(Len(sc) - 1 - 1 + 1) : new[k] = sc[1 + k - 1]
    BY <2>1, SubSeqProperties
  <2> HIDE DEF new
  <2>3. QED
    BY <1>2, <2>2
<1> HIDE DEF new
<1>4. DOMAIN new = 1..(Len(sc) - 1) /\ new # << >>
  <2>1. DOMAIN new = 1..(Len(sc) - 1)
    BY <1>3, LenProperties
  <2>2. Len(new) # 0
    BY <1>2, <1>3
  <2>3. QED
    BY <2>1, <2>2, EmptySeq
<1>5. ASSUME NEW k \in DOMAIN new, NEW n \in Name
      PROVE  Storage(f, k, new[k][n])
  BY <1>2, <1>3, <1>4 DEF ScopesFit
<1>6. new = Front(sc)
  BY DEF Front, new
<1>7. QED
  BY <1>3, <1>4, <1>5, <1>6 DEF ScopesFit, T

\* Scope::push, of a storage that fits the innermost scope.
LEMMA ScopeFilled ==
    ASSUME NEW f, NEW sc, ScopesFit(f, sc), NEW n \in Name,
           NEW s \in Operands, Storage(f, Len(sc), s)
    PROVE  ScopesFit(f, Push(sc, n, s)) /\ Len(Push(sc, n, s)) = Len(sc)
<1> DEFINE T == [Name -> Operands \cup {Undeclared}]
           table == [sc[Len(sc)] EXCEPT ![n] = s]
           new == [sc EXCEPT ![Len(sc)] = table]
<1>1. sc \in Seq(T) /\ sc # << >>
  BY DEF ScopesFit
<1>2. Len(sc) \in 1..Len(sc) /\ Len(sc) \in Nat /\ DOMAIN sc = 1..Len(sc)
  <2> HIDE DEF T
  <2>1. Len(sc) \in Nat \ {0} /\ DOMAIN sc = 1..Len(sc)
    BY <1>1, EmptySeq, LenProperties
  <2>2. QED
    BY <2>1
<1>3. sc[Len(sc)] \in T
  <2> HIDE DEF T
  <2>1. QED
    BY <1>1, <1>2, ElementOfSeq
<1>4. table \in T /\ \A m \in Name : table[m] = IF m = n THEN s ELSE sc[Len(sc)][m]
  BY <1>3
<1>5. Push(sc, n, s) = new \/ Push(sc, n, s) = sc
  BY DEF Push
<1> HIDE DEF T, table
<1>6. /\ new \in Seq(T) /\ Len(new) = Len(sc)
      /\ \A k \in 1..Len(sc) : new[k] = IF k = Len(sc) THEN table ELSE sc[k]
  BY <1>1, <1>2, <1>4, ExceptSeq
<1> HIDE DEF new
<1>7. DOMAIN new = 1..Len(sc) /\ new # << >>
  <2>1. DOMAIN new = 1..Len(sc)
    BY <1>6, LenProperties
  <2>2. Len(new) = Len(sc) /\ Len(sc) # 0
    <3>1. Len(sc) # 0
      BY <1>2
    <3>2. QED
      BY <1>6, <3>1
  <2>3. QED
    BY <2>1, <2>2, EmptySeq
<1>8. ASSUME NEW k \in DOMAIN new, NEW m \in Name
      PROVE  Storage(f, k, new[k][m])
  <2>1. Storage(f, k, sc[k][m])
    BY <1>2, <1>7 DEF ScopesFit
  <2>2. new[k] = IF k = Len(sc) THEN table ELSE sc[k]
    BY <1>6, <1>7
  <2>3. QED
    BY <1>4, <2>1, <2>2
<1>9. ScopesFit(f, new)
  BY <1>6, <1>7, <1>8 DEF ScopesFit, T
<1>10. QED
  BY <1>5, <1>6, <1>9

-----------------------------------------------------------------------------
\* The bounds are numbers.
LEMMA BoundsFacts == MaxItems \in Nat /\ MaxFuns \in Nat
BY CminusfBuilderAssumption, Zenon

\* visit(ASTVarDeclaration) keeps the invariant.
LEMMA VarDeclarationIInv ==
    ASSUME IInv, NEW n \in Name, VarDeclaration(n)
    PROVE  IInv'
<1> USE DEF IInv
<1>1. /\ ctl \in {"global", "decls"} /\ items < MaxItems /\ items' = items + 1
      /\ UNCHANGED <<insert, inFunc, stack, ctl, funs>>
  BY DEF VarDeclaration
<1>2. items' \in 0..MaxItems
  BY <1>1, BoundsFacts
<1>3. CASE Len(scope) = 1
  <2>1. scope' = Push(scope, n, Global) /\ func' = func
    BY <1>3 DEF VarDeclaration
  <2>2. Global \in Operands /\ Storage(func, Len(scope), Global)
    BY <1>3 DEF Global, Operands, Storage
  <2>3. ScopesFit(func, scope') /\ Len(scope') = Len(scope)
    BY <2>1, <2>2, ScopeFilled
  <2>4. FunctionInv'
    BY <1>1, <2>1 DEF FunctionInv
  <2>5. QED
    BY <1>1, <1>2, <2>1, <2>3, <2>4
<1>4. CASE Len(scope) # 1
  <2> DEFINE s == NextPlace(func, insert)
  <2>1. func' = AddInstruction(func, insert, Alloca(s)) /\ scope' = Push(scope, n, s)
    BY <1>4 DEF VarDeclaration
  <2>2. ctl # "global"
    BY <1>4 DEF Controlled, ScopesOpen
  <2>3. Added(func, insert, "alloca", func')
    BY <2>1, <2>2, AddedPlain DEF FunctionInv
  <2>4. Len(scope) > 1
    <3>1. Len(scope) \in Nat \ {0}
      BY EmptySeq DEF ScopesFit
    <3>2. QED
      BY <1>4, <3>1
  <2>5. /\ Consistent(func') /\ Extends(func, func')
        /\ insert \in Blocks(func')
        /\ OpenBlocks(func') \subseteq OpenBlocks(func) \cup {insert}
    BY <2>3 DEF Added, Continues
  <2>6. FunctionInv'
    BY <1>1, <2>2, <2>5 DEF FunctionInv
  <2>7. s \in Operands /\ Storage(func', Len(scope), s)
    <3> HIDE DEF s
    <3>1. /\ s \in Operands /\ IsPlace(func', s) /\ s # Global
          /\ func'.code[s[1]][s[2]].op = "alloca"
      BY <2>3 DEF Added, s
    <3>2. QED
      BY <2>4, <3>1 DEF Storage, IsPlace
  <2> HIDE DEF s
  <2>8. ScopesFit(func', scope)
    BY <2>5, ScopesFitLater
  <2>9. ScopesFit(func', scope') /\ Len(scope') = Len(scope)
    BY <2>1, <2>7, <2>8, ScopeFilled
  <2>10. StackFits(func', stack)
    BY <2>5, StackFitsLater
  <2>11. QED
    BY <1>1, <1>2, <2>6, <2>9, <2>10
<1>5. QED
  BY <1>3, <1>4

\* visit(ASTCompoundStmt) up to its declarations keeps the invariant.
LEMMA OpenCompoundIInv ==
    ASSUME IInv, OpenCompound
    PROVE  IInv'
<1> DEFINE flag == ~inFunc
           top == Frame("compound", 0, 0, flag)
<1>1. /\ (ctl = "compound" /\ items' = items) \/ AtStatement
      /\ scope' = IF inFunc THEN scope ELSE Append(scope, NoNames)
      /\ stack' = Append(stack, top)
      /\ inFunc' = FALSE /\ ctl' = "decls"
      /\ func' = func /\ insert' = insert /\ funs' = funs
  BY DEF OpenCompound
<1>2. ctl # "global"
  BY <1>1 DEF AtStatement
<1>3. stack \in Seq(Frames) /\ stack # << >>
  BY <1>2 DEF IInv, StackFits, Controlled
<1>4. /\ top \in Frames /\ top.kind = "compound" /\ top.at = 0 /\ top.next = 0
      /\ top.flag <=> ~inFunc
  <2>1. flag \in BOOLEAN
    BY DEF IInv
  <2> HIDE DEF flag
  <2>2. /\ top \in Frames /\ top.kind = "compound" /\ top.at = 0 /\ top.next = 0
        /\ top.flag = flag
    BY <2>1, FrameFacts
  <2> HIDE DEF top
  <2>3. QED
    BY <2>2 DEF flag
<1> HIDE DEF top
<1>5. OnTop(stack, top, stack')
  BY <1>1, <1>3, <1>4, PushOnTop
<1>6. FrameFits(func, top) /\ Awaits(top) = {} /\ top \in Compounds
  BY <1>4 DEF FrameFits, Awaits, Compounds
<1>7. /\ StackFits(func, stack') /\ Awaited(stack') = Awaited(stack)
      /\ FrameNested(Len(stack'), top) => StackNested(stack')
  <2>1. TopSplit(func, stack, top, stack')
    BY <1>5, OnTopFits
  <2>2. QED
    BY <1>6, <2>1 DEF IInv, TopSplit
<1>8. FunctionInv'
  BY <1>1, <1>2, <1>7 DEF FunctionInv, IInv
<1>9. Controlled(stack', ctl', inFunc')
  BY <1>1, <1>4, <1>5 DEF Controlled, OnTop
<1>10. items' \in 0..MaxItems
  BY <1>1, StatementFacts DEF IInv
<1>11. CASE ctl = "compound"
  <2>1. inFunc = TRUE /\ Len(stack) = 1
    BY <1>11 DEF IInv, Controlled
  <2>2. Len(stack') = 2
    BY <1>5, <2>1 DEF OnTop
  <2>3. StackNested(stack')
    <3>1. FrameNested(2, top)
      BY <1>4, <2>1 DEF FrameNested
    <3>2. QED
      BY <1>7, <2>2, <3>1
  <2>4. Cardinality(Places(stack, Compounds)) = 0
    <3>1. Places(stack, Compounds) = {}
      BY <1>5, <2>1 DEF Places, Compounds, OnTop, StackNested, FrameNested, IInv
    <3>2. QED
      BY <3>1, FS_EmptySet
  <2>5. ScopesOpen(stack') = 2 /\ ScopesOpen(stack) = 2
    BY <1>3, <1>5, <1>6, <2>1, <2>2, <2>4 DEF ScopesOpen, OnTop
  <2>6. scope' = scope
    BY <1>1, <2>1
  <2>7. QED
    BY <1>1, <1>7, <1>8, <1>9, <1>10, <2>3, <2>5, <2>6 DEF IInv
<1>12. CASE ctl # "compound"
  <2>1. inFunc = FALSE
    BY <1>12 DEF IInv, Controlled
  <2>2. Len(stack) # 1
    <3>1. Last(stack).kind # "fun"
      BY <1>1, <1>12 DEF AtStatement, IInv, Controlled
    <3>2. QED
      BY <1>5, <3>1 DEF OnTop, Last, StackNested, FrameNested, IInv
  <2>3. Len(stack) >= 2 /\ Len(stack') = Len(stack) + 1
    BY <1>3, <1>5, <2>2, EmptySeq DEF OnTop
  <2>4. StackNested(stack')
    <3>1. Len(stack') # 1 /\ Len(stack') # 2
      BY <1>5, <2>3 DEF OnTop
    <3>2. FrameNested(Len(stack'), top)
      BY <1>4, <2>1, <3>1 DEF FrameNested
    <3>3. QED
      BY <1>7, <3>2
  <2>5. ScopesOpen(stack') = ScopesOpen(stack) + 1
    BY <1>3, <1>5, <1>6, <2>2, <2>3 DEF ScopesOpen, OnTop
  <2>6. ScopesFit(func, scope') /\ Len(scope') = Len(scope) + 1
    BY <1>1, <2>1, ScopeEntered DEF IInv
  <2>7. QED
    BY <1>1, <1>7, <1>8, <1>9, <1>10, <2>4, <2>5, <2>6 DEF IInv
<1>13. QED
  BY <1>11, <1>12

\* visit(ASTCompoundStmt) from its last statement on keeps the invariant.
LEMMA CloseCompoundIInv ==
    ASSUME IInv, CloseCompound
    PROVE  IInv'
<1> DEFINE rest == Front(stack)
           top == Last(stack)
<1>1. /\ ctl \in {"decls", "list"}
      /\ scope' = IF top.flag THEN Front(scope) ELSE scope
      /\ stack' = rest /\ ctl' = After(rest)
      /\ UNCHANGED <<func, insert, inFunc, items, funs>>
  BY DEF CloseCompound
<1>2. /\ stack \in Seq(Frames) /\ stack # << >> /\ inFunc = FALSE
      /\ top.kind = "compound"
  BY <1>1 DEF IInv, StackFits, Controlled
<1>3. OnTop(rest, top, stack)
  BY <1>2, PopOnTop
<1> HIDE DEF rest, top
<1>4. /\ StackFits(func, rest) /\ StackNested(rest)
      /\ FrameNested(Len(stack), top)
      /\ Awaited(stack) = Awaited(rest) \cup Awaits(top)
  <2>1. TopSplit(func, rest, top, stack)
    BY <1>3, OnTopFits
  <2>2. QED
    BY <2>1 DEF IInv, TopSplit
<1>5. Awaited(rest) = Awaited(stack) /\ top \in Compounds
  BY <1>2, <1>3, <1>4 DEF Awaits, Compounds, OnTop
<1>6. Len(rest) \in Nat \ {0} /\ rest # << >> /\ rest \in Seq(Frames)
  <2>1. Len(stack) # 1
    BY <1>2, <1>4 DEF FrameNested
  <2>2. Len(rest) # 0 /\ Len(rest) \in Nat
    BY <1>3, <2>1 DEF OnTop
  <2>3. QED
    BY <1>3, <2>2, EmptySeq DEF OnTop
<1>7. Controlled(rest, After(rest), FALSE) /\ After(rest) # "global"
  BY <1>4, <1>6, AfterControlled
<1>8. FunctionInv'
  BY <1>1, <1>5, <1>7 DEF FunctionInv, IInv
<1>9. Len(scope) = Cardinality(Places(stack, Compounds)) + 1
      /\ Cardinality(Places(stack, Compounds)) = Cardinality(Places(rest, Compounds)) + 1
      /\ Cardinality(Places(rest, Compounds)) \in Nat
  BY <1>2, <1>3, <1>5, <1>6 DEF IInv, ScopesOpen, OnTop
<1>10. CASE Len(stack) = 2
  <2>1. ~top.flag /\ Len(rest) = 1
    BY <1>2, <1>3, <1>4, <1>10 DEF FrameNested, OnTop
  <2>2. Places(rest, Compounds) = {}
    BY <1>3, <1>4, <2>1 DEF Places, Compounds, OnTop, StackNested, FrameNested
  <2>3. Cardinality(Places(rest, Compounds)) = 0
    BY <2>2, FS_EmptySet
  <2>4. Len(scope') = ScopesOpen(stack')
    BY <1>1, <1>6, <1>9, <2>1, <2>3 DEF ScopesOpen
  <2>5. scope' = scope
    BY <1>1, <2>1
  <2>6. QED
    BY <1>1, <1>2, <1>4, <1>7, <1>8, <2>4, <2>5 DEF IInv
<1>11. CASE Len(stack) # 2
  <2>1. top.flag = TRUE /\ Len(rest) # 1
    <3>1. top.flag = TRUE
      BY <1>2, <1>3, <1>4, <1>11 DEF FrameNested, OnTop, Frames
    <3>2. QED
      BY <1>3, <1>6, <1>11, <3>1 DEF OnTop
  <2>2. ScopesFit(func, Front(scope)) /\ Len(Front(scope)) = Len(scope) - 1
    <3>1. Len(scope) >= 2
      BY <1>9
    <3>2. QED
      BY <3>1, ScopeLeft DEF IInv
  <2>3. Len(scope') = ScopesOpen(stack')
    <3>1. ScopesOpen(rest) = Cardinality(Places(rest, Compounds)) + 1
      BY <1>6, <2>1, Zenon DEF ScopesOpen
    <3>2. Len(scope) - 1 = Cardinality(Places(rest, Compounds)) + 1
      <4> DEFINE c == Cardinality(Places(rest, Compounds))
      <4>1. c \in Nat /\ Len(scope) = c + 1 + 1
        BY <1>9
      <4> HIDE DEF c
      <4>2. Len(scope) - 1 = c + 1
        BY <4>1
      <4>3. QED
        BY <4>2 DEF c
    <3>3. QED
      BY <1>1, <2>1, <2>2, <3>1, <3>2
  <2>4. QED
    BY <1>1, <1>2, <1>4, <1>7, <1>8, <2>1, <2>2, <2>3 DEF IInv
<1>12. QED
  BY <1>10, <1>11

-----------------------------------------------------------------------------
\* The visit of an if or a while goes on with its statement: a frame of its
\* own is on top of the pending visits in rest.
LEMMA StatementOfBranch ==
    ASSUME NEW rest \in Seq(Frames), Len(rest) >= 2, StackNested(rest), StackFits(func', rest),
           NEW top \in Frames, top.kind \in {"then", "else", "body"}, FrameFits(func', top),
           stack' = Append(rest, top), ctl' = "stmt", inFunc' = FALSE,
           Consistent(func'), insert' \in Blocks(func'),
           OpenBlocks(func') \subseteq {insert'} \cup Awaited(rest) \cup Awaits(top),
           ScopesFit(func', scope'), Len(scope') = Cardinality(Places(rest, Compounds)) + 1,
           items' \in 0..MaxItems, funs' \in 0..MaxFuns
    PROVE  IInv'
<1>1. OnTop(rest, top, stack')
  BY PushOnTop
<1>2. TopSplit(func', rest, top, stack')
  BY <1>1, OnTopFits
<1>3. Len(stack') >= 3 /\ Len(stack') # 1 /\ Len(stack') # 2 /\ stack' # << >>
  BY <1>1 DEF OnTop
<1>4. StackFits(func', stack') /\ StackNested(stack')
  <2>1. FrameNested(Len(stack'), top)
    BY <1>3 DEF FrameNested
  <2>2. QED
    BY <1>2, <2>1 DEF TopSplit
<1>5. Controlled(stack', ctl', inFunc')
  BY <1>1, <1>3 DEF Controlled, OnTop
<1>6. Len(scope') = ScopesOpen(stack')
  <2>1. Cardinality(Places(stack', Compounds)) = Cardinality(Places(rest, Compounds))
    BY <1>1 DEF OnTop, Compounds
  <2>2. QED
    BY <1>3, <2>1, Zenon DEF ScopesOpen
<1>7. FunctionInv'
  BY <1>2 DEF FunctionInv, TopSplit
<1>8. QED
  BY <1>4, <1>5, <1>6, <1>7 DEF IInv

\* The visit of a statement is done, and the visitor above goes on.
Resumes(rest, top) ==
    /\ OnTop(rest, top, stack)
    /\ StackFits(func, rest) /\ FrameFits(func, top)
    /\ StackNested(rest) /\ FrameNested(Len(stack), top)
    /\ Awaited(stack) = Awaited(rest) \cup Awaits(top)
    /\ Consistent(func) /\ insert \in Blocks(func) /\ ScopesFit(func, scope)
    /\ OpenBlocks(func) \subseteq {insert} \cup Awaited(rest) \cup Awaits(top)
    /\ inFunc = FALSE
    /\ top.kind # "fun" =>
          /\ Len(rest) >= 2 /\ Len(rest) # 1 /\ rest # << >>
          /\ Len(scope) = Cardinality(Places(rest, Compounds)) + 1

\* A visit that is done has the visit of an if or a while below it.
LEMMA DoneResumes ==
    ASSUME IInv, ctl = "done"
    PROVE  Resumes(Front(stack), Last(stack))
<1> DEFINE rest == Front(stack)
           top == Last(stack)
<1>1. /\ stack \in Seq(Frames) /\ stack # << >> /\ inFunc = FALSE
      /\ top.kind # "compound"
  BY DEF IInv, StackFits, Controlled
<1>2. OnTop(rest, top, stack)
  BY <1>1, PopOnTop
<1> HIDE DEF rest, top
<1>3. TopSplit(func, rest, top, stack)
  BY <1>2, OnTopFits
<1>4. /\ StackFits(func, rest) /\ FrameFits(func, top)
      /\ StackNested(rest) /\ FrameNested(Len(stack), top)
      /\ Awaited(stack) = Awaited(rest) \cup Awaits(top)
  BY <1>3 DEF TopSplit, IInv
<1>5. /\ Consistent(func) /\ insert \in Blocks(func)
      /\ OpenBlocks(func) \subseteq {insert} \cup Awaited(rest) \cup Awaits(top)
  BY <1>4 DEF IInv, FunctionInv
<1>6. ASSUME top.kind # "fun"
      PROVE  /\ Len(rest) >= 2 /\ Len(rest) # 1 /\ rest # << >>
             /\ Len(scope) = Cardinality(Places(rest, Compounds)) + 1
  <2>1. Len(stack) # 1 /\ Len(stack) # 2
    BY <1>1, <1>4, <1>6 DEF FrameNested
  <2>2. Len(rest) >= 2 /\ Len(rest) # 1 /\ Len(rest) # 0
    BY <1>2, <2>1 DEF OnTop
  <2>3. rest # << >>
    BY <2>2, EmptySeq
  <2>4. Cardinality(Places(stack, Compounds)) = Cardinality(Places(rest, Compounds))
    BY <1>1, <1>2 DEF OnTop, Compounds
  <2>5. ScopesOpen(stack) = Cardinality(Places(stack, Compounds)) + 1
    BY <1>1, <2>1, Zenon DEF ScopesOpen
  <2>6. QED
    BY <2>2, <2>3, <2>4, <2>5 DEF IInv
<1>7. QED
  BY <1>1, <1>2, <1>4, <1>5, <1>6 DEF Resumes, IInv, rest, top

\* The visit of an if or a while is over.
LEMMA BranchEnds ==
    ASSUME IInv, NEW rest, NEW top, Resumes(rest, top),
           top.kind \in {"then", "else", "body"},
           Consistent(func'), Extends(func, func'), insert' \in Blocks(func'),
           OpenBlocks(func') \subseteq {insert'} \cup Awaited(rest),
           stack' = rest, ctl' = After(rest), UNCHANGED <<scope, inFunc, items, funs>>
    PROVE  IInv'
<1>1. /\ rest \in Seq(Frames) /\ rest # << >> /\ Len(rest) # 1 /\ StackNested(rest)
      /\ Len(scope) = Cardinality(Places(rest, Compounds)) + 1
      /\ inFunc = FALSE
  BY DEF Resumes, OnTop
<1>2. Controlled(rest, After(rest), FALSE) /\ After(rest) # "global"
  BY <1>1, AfterControlled
<1>3. StackFits(func', rest) /\ ScopesFit(func', scope)
  BY StackFitsLater, ScopesFitLater DEF Resumes
<1>4. FunctionInv'
  BY <1>2 DEF FunctionInv
<1>5. Len(scope) = ScopesOpen(rest)
  BY <1>1, Zenon DEF ScopesOpen
<1>6. QED
  BY <1>1, <1>2, <1>3, <1>4, <1>5 DEF IInv

\* The branch to target, unless the block has been left already.
LEMMA CloseBranchLeaves ==
    ASSUME Consistent(func), insert \in Blocks(func), NEW target \in Blocks(func) \ {Entry}
    PROVE  BranchedFrom(func, insert, CloseBranch(target))
<1>1. CASE HasTerminator(func, insert)
  <2>1. CloseBranch(target) = func
    BY <1>1 DEF CloseBranch
  <2>2. OpenBlocks(func) \subseteq OpenBlocks(func) \ {insert}
    BY <1>1 DEF OpenBlocks
  <2>3. QED
    BY <2>1, <2>2 DEF BranchedFrom, Extends
<1>2. CASE ~HasTerminator(func, insert)
  BY <1>2, BrBranches DEF CloseBranch
<1>3. QED
  BY <1>1, <1>2

\* visit(ASTSelectionStmt) behind the else part keeps the invariant.
LEMMA EndElseIInv ==
    ASSUME IInv, EndElse
    PROVE  IInv'
<1> DEFINE rest == Front(stack)
           top == Last(stack)
<1>1. /\ ctl = "done" /\ top.kind = "else"
      /\ func' = CloseBranch(top.next) /\ insert' = top.next
      /\ stack' = rest /\ ctl' = After(rest)
      /\ UNCHANGED <<scope, inFunc, items, funs>>
  BY DEF EndElse
<1>2. Resumes(rest, top)
  BY <1>1, DoneResumes
<1> HIDE DEF rest, top
<1>3. top.next \in Blocks(func) \ {Entry} /\ Awaits(top) = {top.next}
  BY <1>1, <1>2 DEF Resumes, FrameFits, Awaits
<1>4. BranchedFrom(func, insert, func')
  BY <1>1, <1>2, <1>3, CloseBranchLeaves DEF Resumes
<1>5. /\ Consistent(func') /\ Extends(func, func') /\ insert' \in Blocks(func')
      /\ OpenBlocks(func') \subseteq {insert'} \cup Awaited(rest)
  BY <1>1, <1>2, <1>3, <1>4 DEF BranchedFrom, Resumes
<1>6. QED
  BY <1>1, <1>2, <1>5, BranchEnds

\* visit(ASTIterationStmt) behind the body keeps the invariant.
LEMMA EndBodyIInv ==
    ASSUME IInv, EndBody
    PROVE  IInv'
<1> DEFINE rest == Front(stack)
           top == Last(stack)
<1>1. /\ ctl = "done" /\ top.kind = "body"
      /\ func' = CloseBranch(top.at) /\ insert' = top.next
      /\ stack' = rest /\ ctl' = After(rest)
      /\ UNCHANGED <<scope, inFunc, items, funs>>
  BY DEF EndBody
<1>2. Resumes(rest, top)
  BY <1>1, DoneResumes
<1> HIDE DEF rest, top
<1>3. /\ top.next \in Blocks(func) /\ Awaits(top) = {top.next}
      /\ top.at \in Blocks(func) \ {Entry}
  BY <1>1, <1>2 DEF Resumes, FrameFits, Awaits
<1>4. BranchedFrom(func, insert, func')
  BY <1>1, <1>2, <1>3, CloseBranchLeaves DEF Resumes
<1>5. /\ Consistent(func') /\ Extends(func, func') /\ insert' \in Blocks(func')
      /\ OpenBlocks(func') \subseteq {insert'} \cup Awaited(rest)
  BY <1>1, <1>2, <1>3, <1>4 DEF BranchedFrom, Resumes
<1>6. QED
  BY <1>1, <1>2, <1>5, BranchEnds

\* visit(ASTSelectionStmt) behind the true branch keeps the invariant.
LEMMA EndThenIInv ==
    ASSUME IInv, EndThen
    PROVE  IInv'
<1> DEFINE rest == Front(stack)
           top == Last(stack)
           closed == CloseBranch(top.next)
<1>1. ctl = "done" /\ top.kind = "then" /\ UNCHANGED <<scope, inFunc, items, funs>>
  BY DEF EndThen
<1>2. Resumes(rest, top)
  BY <1>1, DoneResumes
<1>3. /\ top.flag => /\ func' = closed /\ insert' = top.at
                     /\ stack' = Append(rest, Frame("else", 0, top.next, FALSE))
                     /\ ctl' = "stmt"
      /\ ~top.flag => /\ func' = CreateBr(closed, top.at, top.next)
                      /\ insert' = top.next
                      /\ stack' = rest /\ ctl' = After(rest)
  BY DEF EndThen
<1> HIDE DEF rest, top
<1>4. /\ top.next \in Blocks(func) \ {Entry} /\ top.at \in Blocks(func) \ {Entry}
      /\ Awaits(top) = {top.at, top.next}
  BY <1>1, <1>2 DEF Resumes, FrameFits, Awaits
<1>5. BranchedFrom(func, insert, closed)
  BY <1>2, <1>4, CloseBranchLeaves DEF Resumes
<1> HIDE DEF closed
<1>6. CASE top.flag
  <2> DEFINE fr == Frame("else", 0, top.next, FALSE)
  <2>1. top.next \in Nat
    <3>1. top \in Frames
      BY <1>2 DEF Resumes, OnTop
    <3>2. QED
      BY <3>1 DEF Frames
  <2>2. /\ fr \in Frames /\ fr.kind = "else"
        /\ fr.at = 0 /\ fr.next = top.next
    BY <2>1 DEF Frame, Frames
  <2>3. func' = closed /\ insert' = top.at /\ stack' = Append(rest, fr) /\ ctl' = "stmt"
    BY <1>3, <1>6
  <2> HIDE DEF fr
  <2>4. Awaits(fr) = {top.next}
    BY <2>2 DEF Awaits
  <2>5. /\ Consistent(func') /\ Extends(func, func') /\ Blocks(func') = Blocks(func)
        /\ OpenBlocks(func') \subseteq OpenBlocks(func) \ {insert}
    BY <1>5, <2>3 DEF BranchedFrom
  <2>6. FrameFits(func', fr)
    BY <1>4, <2>2, <2>4, <2>5 DEF FrameFits
  <2>7. OpenBlocks(func') \subseteq {insert'} \cup Awaited(rest) \cup Awaits(fr)
    BY <1>2, <1>4, <2>3, <2>4, <2>5 DEF Resumes
  <2>8. StackFits(func', rest) /\ ScopesFit(func', scope')
    BY <1>1, <1>2, <2>5, StackFitsLater, ScopesFitLater DEF Resumes
  <2>9. /\ rest \in Seq(Frames) /\ Len(rest) >= 2 /\ StackNested(rest)
        /\ Len(scope') = Cardinality(Places(rest, Compounds)) + 1
        /\ inFunc' = FALSE
    BY <1>1, <1>2 DEF Resumes, OnTop
  <2>10. insert' \in Blocks(func')
    BY <1>4, <2>3, <2>5
  <2>11. items' \in 0..MaxItems /\ funs' \in 0..MaxFuns
    BY <1>1 DEF IInv
  <2>12. QED
    BY <2>2, <2>3, <2>5, <2>6, <2>7, <2>8, <2>9, <2>10, <2>11, StatementOfBranch
<1>7. CASE ~top.flag
  <2>1. /\ func' = CreateBr(closed, top.at, top.next) /\ insert' = top.next
        /\ stack' = rest /\ ctl' = After(rest)
    BY <1>3, <1>7
  <2>2. /\ Consistent(closed) /\ Extends(func, closed) /\ Blocks(closed) = Blocks(func)
        /\ OpenBlocks(closed) \subseteq OpenBlocks(func) \ {insert}
    BY <1>5 DEF BranchedFrom
  <2>3. BranchedFrom(closed, top.at, func')
    BY <1>4, <2>1, <2>2, BrBranches
  <2>4. Extends(func, func')
    BY <2>2, <2>3, ExtendsTransitive DEF BranchedFrom
  <2>5. /\ Consistent(func') /\ insert' \in Blocks(func')
        /\ OpenBlocks(func') \subseteq {insert'} \cup Awaited(rest)
    BY <1>2, <1>4, <2>1, <2>2, <2>3 DEF BranchedFrom, Resumes
  <2>6. QED
    BY <1>1, <1>2, <2>1, <2>4, <2>5, BranchEnds
<1>8. QED
  BY <1>6, <1>7

-----------------------------------------------------------------------------
\* Three blocks that are made one after the other.
ThreeAdded(f, g) ==
    LET n == NewestBlock(f)
    IN  /\ Consistent(g) /\ Extends(f, g)
        /\ n + 1 \in Blocks(g) /\ n + 2 \in Blocks(g) /\ n + 3 \in Blocks(g)
        /\ OpenBlocks(g) \subseteq OpenBlocks(f) \cup {n + 1, n + 2, n + 3}

\* The blocks made for an if or a while are new and none is the entry.
LEMMA ThreeBlocks ==
    ASSUME NEW f, Consistent(f)
    PROVE  /\ ThreeAdded(f, NewBlock(NewBlock(NewBlock(f))))
           /\ NewestBlock(f) \in Nat
<1> DEFINE g == NewBlock(f)
           h == NewBlock(g)
           k == NewBlock(h)
           n == NewestBlock(f)
<1>1. BlockAdded(f, g) /\ n \in Nat
  BY NewBlockAdded
<1> HIDE DEF g
<1>2. BlockAdded(g, h)
  BY <1>1, NewBlockAdded DEF BlockAdded
<1> HIDE DEF h
<1>3. BlockAdded(h, k)
  BY <1>2, NewBlockAdded DEF BlockAdded
<1> HIDE DEF k, n
<1>4. NewestBlock(g) + 1 = n + 2 /\ NewestBlock(h) + 1 = n + 3
  BY <1>1, <1>2 DEF BlockAdded, n
<1>5. Extends(f, k)
  BY <1>1, <1>2, <1>3, ExtendsTransitive DEF BlockAdded
<1>6. n + 1 \in Blocks(k) /\ n + 2 \in Blocks(k) /\ n + 3 \in Blocks(k)
  BY <1>1, <1>2, <1>3, <1>4 DEF BlockAdded, n
<1>7. OpenBlocks(k) \subseteq OpenBlocks(f) \cup {n + 1, n + 2, n + 3}
  BY <1>1, <1>2, <1>3, <1>4 DEF BlockAdded, n
<1>8. Consistent(k)
  BY <1>3 DEF BlockAdded
<1>9. QED
  BY <1>1, <1>5, <1>6, <1>7, <1>8 DEF ThreeAdded, g, h, k, n

\* A statement is visited inside a function with an entry block.
LEMMA StatementDepth ==
    ASSUME IInv, AtStatement
    PROVE  Len(stack) >= 2 /\ Len(scope) = Cardinality(Places(stack, Compounds)) + 1
<1>1. /\ stack \in Seq(Frames) /\ stack # << >> /\ StackNested(stack)
      /\ Last(stack).kind # "fun"
  BY StatementFacts DEF AtStatement, IInv, Controlled
<1>2. Len(stack) \in Nat \ {0} /\ DOMAIN stack = 1..Len(stack)
  BY <1>1, EmptySeq, LenProperties
<1>3. Len(stack) # 1
  BY <1>1, <1>2 DEF Last, StackNested, FrameNested
<1>4. ScopesOpen(stack) = Cardinality(Places(stack, Compounds)) + 1
  BY <1>1, <1>3, Zenon DEF ScopesOpen
<1>5. QED
  BY <1>2, <1>3, <1>4 DEF IInv

\* visit(ASTSelectionStmt) up to the true branch keeps the invariant.
LEMMA SelectionStmtIInv ==
    ASSUME IInv, NEW e \in Expr, NEW hasElse \in BOOLEAN, SelectionStmt(e, hasElse)
    PROVE  IInv'
<1> DEFINE v == Eval(func, insert, e)
           t == NewestBlock(v.f) + 1
           f == NewBlock(NewBlock(NewBlock(v.f)))
           w == [v EXCEPT !.f = f]
           top == Frame("then", t + 1, t + 2, hasElse)
<1>1. AtStatement /\ Declared(e)
  BY DEF SelectionStmt
<1>2. Evaluated(func, insert, v)
  BY <1>1, StatementFacts, EvalEvaluated
<1>3. /\ func' = Branch(w, t, t + 1) /\ insert' = t
      /\ stack' = Append(stack, top) /\ ctl' = "stmt"
      /\ UNCHANGED <<scope, inFunc, funs>>
  BY DEF SelectionStmt
<1> HIDE DEF v
<1>4. Consistent(v.f) /\ Extends(func, v.f) /\ v.at \in Blocks(v.f)
  BY <1>2 DEF Evaluated, Continues
<1>5. ThreeAdded(v.f, f) /\ NewestBlock(v.f) \in Nat /\ NewestBlock(v.f) >= 1
  BY <1>4, ThreeBlocks, NewestBlockFacts
<1> HIDE DEF f
<1>6. w = [f |-> f, at |-> v.at, val |-> v.val]
  BY <1>2 DEF Evaluated
<1> HIDE DEF w
<1>7. /\ Consistent(f) /\ Extends(v.f, f)
      /\ {t, t + 1, t + 2} \subseteq Blocks(f) \ {Entry}
      /\ t \in Nat /\ t # t + 1
      /\ OpenBlocks(f) \subseteq OpenBlocks(v.f) \cup {t, t + 1, t + 2}
  BY <1>5 DEF ThreeAdded, Entry
<1> HIDE DEF t
<1>8. v.at \in Blocks(f) /\ v.val \in Operands /\ IsValue(f, v.val)
  BY <1>2, <1>4, <1>7, ExtendsPlaces DEF Evaluated, Extends
<1>9. BranchedFrom(f, v.at, func')
  <2>1. w.f = f /\ w.at = v.at /\ w.val = v.val
    BY <1>6
  <2>2. w = [f |-> w.f, at |-> w.at, val |-> w.val]
    BY <1>6, <2>1
  <2>3. BranchedFrom(w.f, w.at, Branch(w, t, t + 1))
    BY <1>7, <1>8, <2>1, <2>2, BranchLeaves
  <2>4. QED
    BY <1>3, <2>1, <2>3
<1>10. Consistent(func') /\ Blocks(func') = Blocks(f) /\ Extends(func, func')
  BY <1>4, <1>7, <1>9, ExtendsTransitive DEF BranchedFrom
<1>11. /\ top \in Frames /\ top.kind = "then"
       /\ top.at = t + 1 /\ top.next = t + 2
  BY <1>7, FrameFacts
<1> HIDE DEF top
<1>12. FrameFits(func', top) /\ Awaits(top) = {t + 1, t + 2}
  BY <1>7, <1>10, <1>11 DEF FrameFits, Awaits
<1>13. OpenBlocks(func') \subseteq {insert'} \cup Awaited(stack) \cup Awaits(top)
  BY <1>1, <1>2, <1>3, <1>7, <1>9, <1>12, StatementFacts DEF Evaluated, Continues, BranchedFrom
<1>14. StackFits(func', stack) /\ ScopesFit(func', scope')
  BY <1>1, <1>3, <1>10, StatementFacts, StackFitsLater, ScopesFitLater
<1>15. /\ stack \in Seq(Frames) /\ Len(stack) >= 2 /\ StackNested(stack)
       /\ Len(scope') = Cardinality(Places(stack, Compounds)) + 1
       /\ inFunc' = FALSE /\ items' \in 0..MaxItems /\ funs' \in 0..MaxFuns
  BY <1>1, <1>3, StatementFacts, StatementDepth DEF IInv
<1>16. insert' \in Blocks(func')
  BY <1>3, <1>7, <1>10
<1>17. QED
  BY <1>3, <1>10, <1>11, <1>12, <1>13, <1>14, <1>15, <1>16, StatementOfBranch

\* visit(ASTIterationStmt) up to the body keeps the invariant.
LEMMA IterationStmtIInv ==
    ASSUME IInv, NEW e \in Expr, IterationStmt(e)
    PROVE  IInv'
<1> DEFINE j == NewestBlock(func) + 1
           f0 == NewBlock(NewBlock(NewBlock(func)))
           f == CreateBr(f0, insert, j)
           v == Eval(f, j, e)
           top == Frame("body", j, j + 2, FALSE)
<1>1. AtStatement /\ Declared(e)
  BY DEF IterationStmt
<1>2. /\ func' = Branch(v, j + 1, j + 2) /\ insert' = j + 1
      /\ stack' = Append(stack, top) /\ ctl' = "stmt"
      /\ UNCHANGED <<scope, inFunc, funs>>
  BY DEF IterationStmt
<1>3. Consistent(func) /\ insert \in Blocks(func)
  BY <1>1, StatementFacts
<1>4. ThreeAdded(func, f0) /\ NewestBlock(func) \in Nat /\ NewestBlock(func) >= 1
  BY <1>3, ThreeBlocks, NewestBlockFacts
<1> HIDE DEF f0
<1>5. /\ Consistent(f0) /\ Extends(func, f0)
      /\ {j, j + 1, j + 2} \subseteq Blocks(f0) \ {Entry}
      /\ j \in Nat /\ j + 1 # j + 2
      /\ OpenBlocks(f0) \subseteq OpenBlocks(func) \cup {j, j + 1, j + 2}
  BY <1>4 DEF ThreeAdded, Entry
<1> HIDE DEF j
<1>6. BranchedFrom(f0, insert, f)
  BY <1>3, <1>5, BrBranches DEF Extends
<1> HIDE DEF f
<1>7. /\ Consistent(f) /\ Extends(func, f) /\ Blocks(f) = Blocks(f0)
      /\ OpenBlocks(f) \subseteq OpenBlocks(f0) \ {insert}
  BY <1>5, <1>6, ExtendsTransitive DEF BranchedFrom
<1>8. Evaluated(f, j, v)
  <2>1. ScopesFit(f, scope)
    BY <1>1, <1>7, StatementFacts, ScopesFitLater
  <2>2. QED
    BY <1>1, <1>5, <1>7, <2>1, EvalEvaluated
<1> HIDE DEF v
<1>9. /\ Consistent(v.f) /\ Extends(f, v.f) /\ v.at \in Blocks(v.f)
      /\ OpenBlocks(v.f) \subseteq (OpenBlocks(f) \ {j}) \cup {v.at}
      /\ v.val \in Operands /\ IsValue(v.f, v.val)
      /\ v = [f |-> v.f, at |-> v.at, val |-> v.val]
  BY <1>8 DEF Evaluated, Continues
<1>10. {j, j + 1, j + 2} \subseteq Blocks(v.f) \ {Entry}
  BY <1>5, <1>7, <1>9 DEF Extends
<1>11. BranchedFrom(v.f, v.at, func')
  BY <1>2, <1>5, <1>9, <1>10, BranchLeaves
<1>12. Consistent(func') /\ Blocks(func') = Blocks(v.f) /\ Extends(func, func')
  BY <1>7, <1>9, <1>11, ExtendsTransitive DEF BranchedFrom
<1>13. /\ top \in Frames /\ top.kind = "body"
       /\ top.at = j /\ top.next = j + 2
  BY <1>5 DEF Frame, Frames
<1> HIDE DEF top
<1>14. FrameFits(func', top) /\ Awaits(top) = {j + 2}
  BY <1>10, <1>12, <1>13 DEF FrameFits, Awaits
<1>15. OpenBlocks(func') \subseteq {insert'} \cup Awaited(stack) \cup Awaits(top)
  BY <1>1, <1>2, <1>5, <1>7, <1>9, <1>11, <1>14, StatementFacts DEF BranchedFrom
<1>16. StackFits(func', stack) /\ ScopesFit(func', scope')
  BY <1>1, <1>2, <1>12, StatementFacts, StackFitsLater, ScopesFitLater
<1>17. /\ stack \in Seq(Frames) /\ Len(stack) >= 2 /\ StackNested(stack)
       /\ Len(scope') = Cardinality(Places(stack, Compounds)) + 1
       /\ inFunc' = FALSE /\ items' \in 0..MaxItems /\ funs' \in 0..MaxFuns
  BY <1>1, <1>2, StatementFacts, StatementDepth DEF IInv
<1>18. insert' \in Blocks(func')
  BY <1>2, <1>10, <1>12
<1>19. QED
  BY <1>2, <1>12, <1>13, <1>14, <1>15, <1>16, <1>17, <1>18, StatementOfBranch

-----------------------------------------------------------------------------
\* Global scopes hold no storage of any function.
LEMMA GlobalScopesFit ==
    ASSUME NEW f, NEW g, NEW sc, ScopesFit(f, sc), Len(sc) = 1
    PROVE  ScopesFit(g, sc)
<1>1. DOMAIN sc = {1}
  BY LenProperties DEF ScopesFit
<1>2. QED
  BY <1>1 DEF ScopesFit, Storage

\* visit(ASTFunDeclaration) up to the function's compound keeps the invariant.
LEMMA FunDeclarationIInv ==
    ASSUME IInv, NEW params, params = << >> \/ \E n \in Name : params = <<n>>,
           FunDeclaration(params)
    PROVE  IInv'
<1> DEFINE f == NewBlock(EmptyFunction)
           s == NextPlace(f, Entry)
           g == AddInstruction(f, Entry, Alloca(s))
           sc == Append(scope, NoNames)
           top == Frame("fun", 0, 0, FALSE)
<1>1. /\ ctl = "global" /\ funs < MaxFuns /\ funs' = funs + 1
      /\ insert' = Entry /\ inFunc' = TRUE /\ items' = items
      /\ stack' = Append(stack, top) /\ ctl' = "compound"
  BY DEF FunDeclaration
<1>2. /\ params = << >> => func' = f /\ scope' = sc
      /\ params # << >> => /\ func' = AddInstruction(g, Entry, Store(s, Argument))
                           /\ scope' = Push(sc, params[1], s)
  BY Zenon DEF FunDeclaration
<1>3. stack = << >> /\ stack \in Seq(Frames) /\ Len(scope) = 1
  <2>1. stack = << >> /\ stack \in Seq(Frames)
    BY <1>1 DEF IInv, Controlled, StackFits
  <2>2. ScopesOpen(stack) = 1
    BY <2>1, Zenon DEF ScopesOpen
  <2>3. QED
    BY <2>1, <2>2 DEF IInv
<1>4. /\ Consistent(f) /\ Blocks(f) = {Entry}
      /\ OpenBlocks(f) \subseteq {Entry}
  <2>1. BlockAdded(EmptyFunction, f)
    BY EmptyConsistent, NewBlockAdded
  <2> HIDE DEF f
  <2>2. NewestBlock(EmptyFunction) + 1 = Entry
    BY EmptyConsistent DEF Entry
  <2>3. QED
    BY <2>1, <2>2, EmptyConsistent DEF BlockAdded
<1> HIDE DEF f
<1>5. ScopesFit(f, sc) /\ Len(sc) = 2
  <2>1. ScopesFit(f, scope)
    BY <1>3, GlobalScopesFit DEF IInv
  <2>2. ScopesFit(f, sc) /\ Len(sc) = Len(scope) + 1
    BY <2>1, ScopeEntered
  <2>3. QED
    BY <1>3, <2>2
<1> HIDE DEF sc
<1>6. Added(f, Entry, "alloca", g)
  BY <1>4, AddedPlain
<1> HIDE DEF g
<1>7. /\ Consistent(func') /\ Entry \in Blocks(func')
      /\ OpenBlocks(func') \subseteq {Entry}
      /\ ScopesFit(func', scope') /\ Len(scope') = 2
  <2>1. CASE params = << >>
    BY <1>2, <1>4, <1>5, <2>1
  <2>2. CASE params # << >>
    <3> HIDE DEF s
    <3>1. params[1] \in Name
      BY <2>2
    <3>2. /\ Consistent(g) /\ Entry \in Blocks(g) /\ Extends(f, g)
          /\ s \in Operands /\ IsPlace(g, s) /\ s # Global
          /\ g.code[s[1]][s[2]].op = "alloca"
          /\ OpenBlocks(g) \subseteq {Entry}
      BY <1>4, <1>6 DEF Added, Continues, s
    <3>3. Argument \in Operands /\ IsValue(g, Argument)
      BY DEF Argument, Operands, IsValue, IsInstruction
    <3>4. Added(g, Entry, "store", func')
      BY <1>2, <2>2, <3>2, <3>3, AddedPlain
    <3>5. /\ Consistent(func') /\ Entry \in Blocks(func') /\ Extends(g, func')
          /\ OpenBlocks(func') \subseteq {Entry}
      BY <3>2, <3>4 DEF Added, Continues
    <3>6. Storage(g, 2, s)
      BY <3>2 DEF Storage, IsPlace
    <3>7. ScopesFit(g, sc)
      BY <1>5, <3>2, ScopesFitLater
    <3>8. ScopesFit(g, Push(sc, params[1], s)) /\ Len(Push(sc, params[1], s)) = 2
      BY <1>5, <3>1, <3>2, <3>6, <3>7, ScopeFilled
    <3>9. ScopesFit(func', scope') /\ Len(scope') = 2
      BY <1>2, <2>2, <3>5, <3>8, ScopesFitLater
    <3>10. QED
      BY <3>5, <3>9
  <2>3. QED
    BY <2>1, <2>2
<1>8. top \in Frames /\ top.kind = "fun" /\ top.at = 0 /\ top.next = 0
  BY DEF Frame, Frames
<1> HIDE DEF top
<1>9. OnTop(stack, top, stack')
  BY <1>1, <1>3, <1>8, PushOnTop
<1>10. TopSplit(func', stack, top, stack')
  BY <1>9, OnTopFits
<1>11. Len(stack') = 1 /\ stack' # << >>
  <2>1. Len(stack) = 0
    BY <1>3, EmptySeq
  <2>2. QED
    BY <1>9, <2>1 DEF OnTop
<1>12. StackFits(func', stack') /\ StackNested(stack')
  <2>1. FrameFits(func', top) /\ FrameNested(1, top)
    BY <1>8 DEF FrameFits, FrameNested, Awaits
  <2>2. StackFits(func', stack) /\ StackNested(stack)
    BY <1>3, EmptySeq DEF StackFits, StackNested
  <2>3. QED
    BY <1>10, <1>11, <2>1, <2>2 DEF TopSplit
<1>13. FunctionInv'
  BY <1>1, <1>7 DEF FunctionInv
<1>14. Controlled(stack', ctl', inFunc')
  BY <1>1, <1>11 DEF Controlled
<1>15. Len(scope') = ScopesOpen(stack')
  BY <1>7, <1>11, Zenon DEF ScopesOpen
<1>16. items' \in 0..MaxItems /\ funs' \in 0..MaxFuns /\ inFunc' \in BOOLEAN
  <2>1. funs' \in 0..MaxFuns
    BY <1>1, BoundsFacts DEF IInv
  <2>2. QED
    BY <1>1, <2>1 DEF IInv
<1>17. QED
  BY <1>7, <1>12, <1>13, <1>14, <1>15, <1>16 DEF IInv

\* visit(ASTFunDeclaration) behind the compound keeps the invariant.
LEMMA EndFunctionIInv ==
    ASSUME IInv, EndFunction
    PROVE  IInv'
<1> DEFINE rest == Front(stack)
           top == Last(stack)
<1>1. /\ ctl = "done" /\ top.kind = "fun"
      /\ func' = IF HasTerminator(func, insert) THEN func
                 ELSE AddInstruction(func, insert, Ret(Literal(0)))
      /\ scope' = Front(scope) /\ inFunc' = FALSE
      /\ stack' = << >> /\ ctl' = "global"
      /\ UNCHANGED <<insert, items, funs>>
  BY DEF EndFunction
<1>2. Resumes(rest, top)
  BY <1>1, DoneResumes
<1> HIDE DEF rest, top
<1>3. Len(stack) = 1 /\ Awaited(rest) = {} /\ Awaits(top) = {}
  BY <1>1, <1>2 DEF Resumes, OnTop, FrameNested, Awaited, Awaits
<1>4. /\ Consistent(func) /\ insert \in Blocks(func) /\ ScopesFit(func, scope)
      /\ OpenBlocks(func) \subseteq {insert}
  BY <1>2, <1>3 DEF Resumes
<1>5. /\ Consistent(func') /\ Extends(func, func') /\ insert' \in Blocks(func')
      /\ OpenBlocks(func') = {}
  <2>1. CASE HasTerminator(func, insert)
    <3>1. func' = func /\ insert \notin OpenBlocks(func)
      BY <1>1, <2>1 DEF OpenBlocks
    <3>2. QED
      BY <1>1, <1>4, <3>1 DEF Extends
  <2>2. CASE ~HasTerminator(func, insert)
    <3>1. Literal(0) \in Operands /\ IsValue(func, Literal(0))
      BY LiteralFacts
    <3>2. Added(func, insert, "ret", func')
      BY <1>1, <1>4, <2>2, <3>1, AddedPlain
    <3>3. QED
      BY <1>1, <1>4, <3>2 DEF Added, Continues
  <2>3. QED
    BY <2>1, <2>2
<1>6. Len(scope) = 2
  <2>1. stack # << >>
    BY <1>2 DEF Resumes, OnTop
  <2>2. ScopesOpen(stack) = 2
    BY <1>3, <2>1, Zenon DEF ScopesOpen
  <2>3. QED
    BY <2>2 DEF IInv
<1>7. ScopesFit(func', scope') /\ Len(scope') = 1
  <2>1. ScopesFit(func', scope)
    BY <1>4, <1>5, ScopesFitLater
  <2>2. Len(scope) >= 2 /\ Len(scope) - 1 = 1
    BY <1>6
  <2>3. QED
    BY <1>1, <2>1, <2>2, ScopeLeft
<1>8. FunctionInv'
  BY <1>1, <1>5 DEF FunctionInv
<1>9. StackFits(func', stack') /\ StackNested(stack') /\ Controlled(stack', ctl', inFunc')
  BY <1>1, EmptySeq DEF StackFits, StackNested, Controlled
<1>10. Len(scope') = ScopesOpen(stack')
  BY <1>1, <1>7 DEF ScopesOpen
<1>11. items' \in 0..MaxItems /\ funs' \in 0..MaxFuns /\ inFunc' \in BOOLEAN
  BY <1>1 DEF IInv
<1>12. QED
  BY <1>7, <1>8, <1>9, <1>10, <1>11 DEF IInv

-----------------------------------------------------------------------------
\* A step that changes no variable keeps the invariant.
LEMMA StutterIInv ==
    ASSUME IInv, UNCHANGED vars
    PROVE  IInv'
BY DEF vars, IInv, FunctionInv

\* Every visit keeps the invariant.
LEMMA NextIInv == IInv /\ [Next]_vars => IInv'
<1> SUFFICES ASSUME IInv, [Next]_vars
             PROVE  IInv'
  OBVIOUS
<1>1. ASSUME NEW n \in Name, VarDeclaration(n)
      PROVE  IInv'
  BY <1>1, VarDeclarationIInv
<1>2. CASE FunDeclaration(<< >>)
  BY <1>2, FunDeclarationIInv
<1>3. ASSUME NEW n \in Name, FunDeclaration(<<n>>)
      PROVE  IInv'
  BY <1>3, FunDeclarationIInv
<1>4. CASE EndFunction
  BY <1>4, EndFunctionIInv
<1>5. CASE OpenCompound
  BY <1>5, OpenCompoundIInv
<1>6. CASE CloseCompound
  BY <1>6, CloseCompoundIInv
<1>7. ASSUME NEW e \in Expr, ExpressionStmt(e)
      PROVE  IInv'
  BY <1>7, ExpressionStmtIInv
<1>8. ASSUME NEW e \in Expr, ReturnStmt(e)
      PROVE  IInv'
  BY <1>8, ReturnStmtIInv
<1>9. ASSUME NEW e \in Expr, IterationStmt(e)
      PROVE  IInv'
  BY <1>9, IterationStmtIInv
<1>10. ASSUME NEW n \in Name, NEW e \in Expr, AssignStmt(n, e)
       PROVE  IInv'
  BY <1>10, AssignStmtIInv
<1>11. ASSUME NEW e \in Expr, NEW hasElse \in BOOLEAN, SelectionStmt(e, hasElse)
       PROVE  IInv'
  BY <1>11, SelectionStmtIInv
<1>12. CASE EndThen
  BY <1>12, EndThenIInv
<1>13. CASE EndElse
  BY <1>13, EndElseIInv
<1>14. CASE EndBody
  BY <1>14, EndBodyIInv
<1>15. ASSUME NEW e \in Expr, AssignElement(e)
       PROVE  IInv'
  BY <1>15, AssignElementIInv
<1>16. CASE UNCHANGED vars
  BY <1>16, StutterIInv
<1>17. QED
  BY <1>1, <1>2, <1>3, <1>4, <1>5, <1>6, <1>7, <1>8, <1>9, <1>10, <1>11,
     <1>12, <1>13, <1>14, <1>15, <1>16 DEF Next

\* The invariant holds in all states of the visitor.
THEOREM BuilderInvariant == Spec => []IInv
<1>1. Init => IInv
  BY InitIInv
<1>2. IInv /\ [Next]_vars => IInv'
  BY NextIInv
<1>3. QED
  BY <1>1, <1>2, PTL DEF Spec

-----------------------------------------------------------------------------
\* The invariant implies the types.
LEMMA IInvTypeOK == IInv => TypeOK
<1> SUFFICES ASSUME IInv
             PROVE  TypeOK
  OBVIOUS
<1>1. WellFormed(func) /\ insert \in Blocks(func) \cup {Entry}
  BY DEF IInv, FunctionInv, Consistent
<1>2. scope \in Seq([Name -> Operands \cup {Undeclared}]) \ {<< >>}
  BY DEF IInv, ScopesFit
<1>3. ASSUME NEW k \in DOMAIN scope, NEW n \in Name
      PROVE  scope[k][n] = Undeclared \/ IsPlace(func, scope[k][n])
  BY DEF IInv, ScopesFit, Storage, IsPlace
<1>4. /\ stack \in Seq(Frames)
      /\ \A k \in DOMAIN stack :
            {stack[k].at, stack[k].next} \subseteq Blocks(func) \cup {0}
  BY DEF IInv, StackFits, FrameFits
<1>5. /\ ctl \in {"global", "compound", "decls", "list", "stmt", "done"}
      /\ inFunc \in BOOLEAN /\ items \in 0..MaxItems /\ funs \in 0..MaxFuns
  BY DEF IInv, Controlled
<1>6. QED
  BY <1>1, <1>2, <1>3, <1>4, <1>5 DEF TypeOK

\* The variables keep their types: what a program names and what the passes
\* will walk along lies inside the function under construction.
THEOREM BuilderTypes == Spec => []TypeOK
<1>1. IInv => TypeOK
  BY IInvTypeOK
<1>2. QED
  BY <1>1, BuilderInvariant, PTL

\* In a consistent function the three records of an edge agree.
LEMMA ConsistentEdges == IInv => EdgesAgree
<1> SUFFICES ASSUME IInv, NEW b \in Blocks(func)
             PROVE  /\ \A p \in Pre(func, b) : b \in Succ(func, p)
                    /\ \A t \in Succ(func, b) \cup UNION {ToSet(i.to) : i \in ToSet(func.code[b])} :
                        /\ Cardinality(Occurrences(func.succ[b], t)) = Cardinality(BranchesTo(func, b, t))
                        /\ Cardinality(Occurrences(func.pre[t], b)) = Cardinality(BranchesTo(func, b, t))
  BY DEF EdgesAgree
<1>1. Consistent(func) /\ WellFormed(func)
  BY DEF IInv, FunctionInv, Consistent
<1>2. \A c \in Blocks(func) : /\ func.pre[c] \in Seq(Nat) /\ func.succ[c] \in Seq(Nat)
                              /\ Pre(func, c) \cup Succ(func, c) \subseteq Blocks(func)
  BY <1>1, BlocksFacts, ElementOfSeq DEF WellFormed, Pre, Succ
<1>3. ASSUME NEW p \in Pre(func, b)
      PROVE  b \in Succ(func, p)
  <2>1. p \in Blocks(func)
    BY <1>2
  <2>2. Cardinality(Occurrences(func.pre[b], p)) # 0
    BY <1>2, <1>3, OccurrencesCount DEF Pre
  <2>3. Cardinality(Occurrences(func.succ[p], b)) # 0
    BY <1>1, <2>1, <2>2 DEF Consistent, Agree
  <2>4. QED
    BY <1>2, <2>1, <2>3, OccurrencesCount DEF Succ
<1>4. ASSUME NEW t \in Succ(func, b) \cup UNION {ToSet(i.to) : i \in ToSet(func.code[b])}
      PROVE  t \in Blocks(func)
  <2>1. CASE t \in Succ(func, b)
    BY <1>2, <2>1
  <2>2. CASE t \in UNION {ToSet(i.to) : i \in ToSet(func.code[b])}
    <3>1. PICK k \in DOMAIN func.code[b] : t \in ToSet(func.code[b][k].to)
      BY <2>2 DEF ToSet
    <3>2. QED
      BY <1>1, <3>1 DEF WellFormed, Refers
  <2>3. QED
    BY <1>4, <2>1, <2>2
<1>5. QED
  BY <1>1, <1>3, <1>4 DEF Consistent, Agree

\* Whatever the program, the branches, succ_bbs_ and pre_bbs_ always hold the
\* same edges, as often.
THEOREM BuilderEdges == Spec => []EdgesAgree
<1>1. IInv => EdgesAgree
  BY ConsistentEdges
<1>2. QED
  BY <1>1, BuilderInvariant, PTL

\* No branch leads to the entry block, from reachable code or other: what
\* Dominators and Mem2Reg take for granted.
EntryIsNoTarget ==
    Entry \in Blocks(func) =>
        /\ func.pre[Entry] = << >>
        /\ \A b \in Blocks(func) : \A i \in ToSet(func.code[b]) : Entry \notin ToSet(i.to)

\* The entry block of a consistent function is nobody's successor.
LEMMA BranchesCount ==
    ASSUME NEW f, WellFormed(f), NEW b \in Blocks(f), NEW t
    PROVE  Cardinality(BranchesTo(f, b, t)) = 0 => BranchesTo(f, b, t) = {}
<1>1. f.code[b] \in Seq(Instructions)
  BY BlocksFacts, ElementOfSeq
<1>2. Len(f.code[b]) \in Nat /\ DOMAIN f.code[b] = 1..Len(f.code[b])
  BY <1>1, LenProperties
<1>3. IsFiniteSet(BranchesTo(f, b, t))
  <2>1. 1 \in Int /\ Len(f.code[b]) \in Int
    BY <1>2
  <2>2. IsFiniteSet(1..Len(f.code[b]))
    BY <2>1, FS_Interval, Zenon
  <2>3. BranchesTo(f, b, t) \subseteq 1..Len(f.code[b])
    BY <1>2 DEF BranchesTo
  <2>4. QED
    BY <2>2, <2>3, FS_Subset
<1>4. QED
  BY <1>3, FS_EmptySet

\* The visitor never makes a branch to the entry block.
THEOREM BuilderEntry == Spec => []EntryIsNoTarget
<1>1. IInv => EntryIsNoTarget
  <2> SUFFICES ASSUME IInv, Entry \in Blocks(func)
               PROVE  /\ func.pre[Entry] = << >>
                      /\ \A b \in Blocks(func) : \A i \in ToSet(func.code[b]) :
                            Entry \notin ToSet(i.to)
    BY DEF EntryIsNoTarget
  <2>1. Consistent(func) /\ WellFormed(func) /\ func.pre[Entry] = << >>
    BY DEF IInv, FunctionInv, Consistent, NoWayBack
  <2>2. ASSUME NEW b \in Blocks(func), NEW i \in ToSet(func.code[b]), Entry \in ToSet(i.to)
        PROVE  FALSE
    <3>1. PICK k \in DOMAIN func.code[b] : func.code[b][k] = i
      BY <2>2 DEF ToSet
    <3>2. k \in BranchesTo(func, b, Entry)
      BY <2>2, <3>1 DEF BranchesTo
    <3>3. Cardinality(BranchesTo(func, b, Entry)) # 0
      BY <2>1, <3>2, BranchesCount
    <3>4. Cardinality(Occurrences(func.pre[Entry], b)) # 0
      BY <2>1, <3>3 DEF Consistent, Agree
    <3>5. Occurrences(func.pre[Entry], b) = {}
      BY <2>1 DEF Occurrences
    <3>6. QED
      BY <3>4, <3>5, FS_EmptySet
  <2>3. QED
    BY <2>1, <2>2
<1>2. QED
  BY <1>1, BuilderInvariant, PTL

-----------------------------------------------------------------------------
\* The invariant leaves open what a pending visit will close.
LEMMA IInvOpenBlocks == IInv => OpenBlocksPending
<1> SUFFICES ASSUME IInv, NEW b \in OpenBlocks(func)
             PROVE  b \in Pending /\ ~Finished
  BY DEF OpenBlocksPending
<1>1. ctl # "global" /\ b \in {insert} \cup Awaited(stack)
  BY DEF IInv, FunctionInv
<1>2. QED
  BY <1>1 DEF Pending, Awaited, Finished

\* A block without a terminator is one a pending visit will still close, so
\* a finished function has none: no path runs off the end of a block.
THEOREM BuilderOpenBlocks == Spec => []OpenBlocksPending
<1>1. IInv => OpenBlocksPending
  BY IInvOpenBlocks
<1>2. QED
  BY <1>1, BuilderInvariant, PTL

-----------------------------------------------------------------------------
\* The invariant gives each pending compound but the function's its scope.
LEMMA IInvScopes == IInv => ScopePerCompound
<1> SUFFICES ASSUME IInv
             PROVE  ScopePerCompound
  OBVIOUS
<1> DEFINE D == {k \in DOMAIN stack : stack[k].kind = "compound"}
<1>1. /\ stack \in Seq(Frames) /\ Len(stack) \in Nat /\ DOMAIN stack = 1..Len(stack)
      /\ \A k \in DOMAIN stack : stack[k] \in Frames
  BY LenProperties, ElementOfSeq DEF IInv, StackFits
<1>2. D = Places(stack, Compounds)
  BY <1>1 DEF Places, Compounds
<1>3. Len(scope) = ScopesOpen(stack) /\ (ctl = "global" <=> stack = << >>)
  BY DEF IInv, Controlled
<1>4. ScopePerCompound <=> Len(scope) = IF ctl = "global" THEN 1
                                        ELSE IF Cardinality(D) = 0 THEN 2 ELSE Cardinality(D) + 1
  BY DEF ScopePerCompound
<1> HIDE DEF D
<1>5. CASE stack = << >>
  BY <1>3, <1>4, <1>5, Zenon DEF ScopesOpen
<1>6. CASE stack # << >> /\ Len(stack) = 1
  <2>1. D = {}
    BY <1>1, <1>2, <1>6 DEF Places, Compounds, IInv, StackNested, FrameNested
  <2>2. Cardinality(D) = 0
    BY <2>1, FS_EmptySet
  <2>3. QED
    BY <1>3, <1>4, <1>6, <2>2, Zenon DEF ScopesOpen
<1>7. CASE stack # << >> /\ Len(stack) # 1
  <2>1. 2 \in DOMAIN stack
    <3>1. Len(stack) \in Nat \ {0}
      BY <1>1, <1>7, EmptySeq
    <3>2. Len(stack) >= 2
      BY <1>7, <3>1
    <3>3. QED
      BY <1>1, <3>2
  <2>2. 2 \in D
    BY <2>1 DEF D, IInv, StackNested, FrameNested
  <2>3. IsFiniteSet(D)
    <3>1. 1 \in Int /\ Len(stack) \in Int
      BY <1>1
    <3>2. IsFiniteSet(1..Len(stack))
      BY <3>1, FS_Interval, Zenon
    <3>3. D \subseteq 1..Len(stack)
      BY <1>1 DEF D
    <3>4. QED
      BY <3>2, <3>3, FS_Subset
  <2>4. Cardinality(D) # 0
    BY <2>2, <2>3, FS_EmptySet
  <2>5. QED
    BY <1>2, <1>3, <1>4, <1>7, <2>4, Zenon DEF ScopesOpen
<1>8. QED
  BY <1>5, <1>6, <1>7

\* The invariant gives names storages of this function.
LEMMA IInvStorages == IInv => StoragesAreAllocas
<1> SUFFICES ASSUME IInv, NEW k \in DOMAIN scope, NEW n \in Name
             PROVE  \/ scope[k][n] = Undeclared
                    \/ scope[k][n] = Global /\ k = 1
                    \/ /\ k > 1 /\ scope[k][n] \in Blocks(func) \X Nat
                       /\ func.code[scope[k][n][1]][scope[k][n][2]].op = "alloca"
  BY DEF StoragesAreAllocas
<1>1. Storage(func, k, scope[k][n])
  BY DEF IInv, ScopesFit
<1> DEFINE s == scope[k][n]
<1> HIDE DEF s
<1>2. Storage(func, k, s)
  BY <1>1 DEF s
<1>3. s \in Operands /\ s[1] \in Blocks(func) => s \in Blocks(func) \X Nat
  BY DEF Operands
<1>4. QED
  BY <1>2, <1>3 DEF Storage, s

\* A name resolves to a storage of the function under construction, or to a
\* global: scopes are entered and left in step with the compounds.
THEOREM BuilderLocals == Spec => []LocalsAreLocal
<1>1. IInv => LocalsAreLocal
  BY IInvScopes, IInvStorages DEF LocalsAreLocal
<1>2. QED
  BY <1>1, BuilderInvariant, PTL

-----------------------------------------------------------------------------
(* What the pass takes for granted of the functions that the visitor makes: *)
(* an address that is no global is an alloca's or a gep's, a store writes a *)
(* literal, the argument or a value of its own block, no operand is an      *)
(* instruction that has no value, and there are no phis.                    *)

\* An alloca or a gep at its place.
IsAddress(f, s) ==
    /\ s[1] \in Blocks(f) /\ s[2] \in DOMAIN f.code[s[1]]
    /\ f.code[s[1]][s[2]].op \in {"alloca", "gep"}

\* The value is there when execution of b has come to place k.
ComesBefore(val, b, k) == IsInstruction(val) => val[1] = b /\ val[2] \in 1..(k - 1)

\* An instruction that is an operand has a value: it is no store, br or ret.
HasValue(f, v) ==
    IsInstruction(v) =>
        /\ v[1] \in Blocks(f) /\ v[2] \in DOMAIN f.code[v[1]]
        /\ f.code[v[1]][v[2]].op \notin {"store", "br", "ret"}

\* The instruction i, at place k of block b.
AccessRight(f, b, k, i) ==
    /\ i.op # "phi" /\ \A v \in ToSet(i.args) : HasValue(f, v)
    /\ i.op \in {"load", "store"} /\ i.var # Global => IsAddress(f, i.var)
    /\ i.op = "store" => Len(i.args) = 1 /\ ComesBefore(i.args[1], b, k)

\* All accesses of the function are right.
Accesses(f) ==
    \A b \in Blocks(f) : \A k \in DOMAIN f.code[b] : AccessRight(f, b, k, f.code[b][k])

\* What a builder appends leaves the accesses right.
LEMMA AccessLater ==
    ASSUME NEW f, NEW g, Extends(f, g), NEW b, NEW k, NEW i, AccessRight(f, b, k, i)
    PROVE  AccessRight(g, b, k, i)
<1>1. IsAddress(f, i.var) => IsAddress(g, i.var)
  BY DEF Extends, IsAddress
<1>2. \A v : HasValue(f, v) => HasValue(g, v)
  BY DEF Extends, HasValue
<1>3. QED
  BY <1>1, <1>2 DEF AccessRight

\* A change that adds no instruction.
LEMMA SameCodeAccesses ==
    ASSUME NEW f, NEW g, Accesses(f), Extends(f, g),
           \A b \in Blocks(g) : \A k \in DOMAIN g.code[b] :
               b \in Blocks(f) /\ k \in DOMAIN f.code[b]
    PROVE  Accesses(g)
<1> SUFFICES ASSUME NEW b \in Blocks(g), NEW k \in DOMAIN g.code[b]
             PROVE  AccessRight(g, b, k, g.code[b][k])
  BY DEF Accesses
<1>1. b \in Blocks(f) /\ k \in DOMAIN f.code[b]
  OBVIOUS
<1>2. AccessRight(f, b, k, f.code[b][k]) /\ g.code[b][k] = f.code[b][k]
  BY <1>1 DEF Accesses, Extends
<1>3. QED
  BY <1>2, AccessLater

\* One more instruction: it is right itself, and so are the others still.
LEMMA AddAccesses ==
    ASSUME NEW f, WellFormed(f), Accesses(f), NEW b \in Blocks(f), NEW i \in Instructions,
           AccessRight(f, b, Len(f.code[b]) + 1, i)
    PROVE  Accesses(AddInstruction(f, b, i))
<1> DEFINE g == AddInstruction(f, b, i)
           j == [i EXCEPT !.id = NextPlace(f, b)]
           n == Len(f.code[b])
<1>1. /\ Blocks(g) = Blocks(f)
      /\ f.code[b] \in Seq(Instructions)
      /\ g.code[b] = Append(f.code[b], j)
      /\ \A c \in Blocks(f) : c # b => g.code[c] = f.code[c]
  BY AddFacts
<1>2. Extends(f, g)
  BY AddExtends
<1>3. j.op = i.op /\ j.var = i.var /\ j.args = i.args
  BY DEF Instructions
<1> HIDE DEF g, j
<1>4. n \in Nat /\ DOMAIN f.code[b] = 1..n /\ DOMAIN g.code[b] = 1..(n + 1)
      /\ g.code[b][n + 1] = j
  BY <1>1
<1> SUFFICES ASSUME NEW c \in Blocks(g), NEW k \in DOMAIN g.code[c]
             PROVE  AccessRight(g, c, k, g.code[c][k])
  BY DEF Accesses, g
<1>5. CASE c \in Blocks(f) /\ k \in DOMAIN f.code[c]
  <2>1. AccessRight(f, c, k, f.code[c][k]) /\ g.code[c][k] = f.code[c][k]
    BY <1>2, <1>5 DEF Accesses, Extends
  <2>2. QED
    BY <1>2, <2>1, AccessLater
<1>6. CASE ~(c \in Blocks(f) /\ k \in DOMAIN f.code[c])
  <2>1. c = b /\ k = n + 1
    BY <1>1, <1>4, <1>6
  <2>2. AccessRight(f, b, n + 1, j)
    BY <1>3 DEF AccessRight
  <2>3. QED
    BY <1>2, <1>4, <2>1, <2>2, AccessLater
<1>7. QED
  BY <1>5, <1>6

\* The kinds of instruction that the visitor emits.
LEMMA AddedAccesses ==
    ASSUME NEW f, Consistent(f), Accesses(f), NEW b \in Blocks(f)
    PROVE  /\ Accesses(AddInstruction(f, b, Call))
           /\ Accesses(AddInstruction(f, b, Alloca(NextPlace(f, b))))
           /\ \A s \in Operands : s = Global \/ IsAddress(f, s) =>
                 Accesses(AddInstruction(f, b, Load(s)))
           /\ \A v \in Operands : HasValue(f, v) => Accesses(AddInstruction(f, b, Ret(v)))
           /\ \A s \in Operands, v \in Operands :
                 /\ s = Global \/ IsAddress(f, s)
                 /\ ComesBefore(v, b, Len(f.code[b]) + 1) /\ HasValue(f, v)
                 => Accesses(AddInstruction(f, b, Store(s, v)))
           /\ \A u \in Operands, v \in Operands, op \in {"add", "ne", "lt", "gep"} :
                 HasValue(f, u) /\ HasValue(f, v) =>
                     Accesses(AddInstruction(f, b, Pure(op, <<u, v>>)))
<1>1. WellFormed(f) /\ NextPlace(f, b) \in Operands /\ Global \in Operands
  <2>1. NextPlace(f, b) \in Operands
    BY AddedPlain DEF Added
  <2>2. QED
    BY <2>1 DEF Consistent, Global, Operands
<1>2. ASSUME NEW op \in Opcodes, NEW var \in Operands, NEW args \in Seq(Operands),
             AccessRight(f, b, Len(f.code[b]) + 1, Instruction(op, << >>, var, args))
      PROVE  Accesses(AddInstruction(f, b, Instruction(op, << >>, var, args)))
  <2>1. << >> \in Seq(Nat)
    BY EmptySeq
  <2>2. Instruction(op, << >>, var, args) \in Instructions
    BY <1>1, <2>1 DEF Instructions, Instruction
  <2>3. QED
    BY <1>1, <1>2, <2>2, AddAccesses
<1>3. ASSUME NEW op \in Opcodes \ {"load", "store", "phi"}, NEW var \in Operands,
             NEW args \in Seq(Operands), \A v \in ToSet(args) : HasValue(f, v)
      PROVE  Accesses(AddInstruction(f, b, Instruction(op, << >>, var, args)))
  <2>1. AccessRight(f, b, Len(f.code[b]) + 1, Instruction(op, << >>, var, args))
    BY <1>3 DEF AccessRight, Instruction
  <2>2. QED
    BY <1>2, <2>1
<1>4. /\ << >> \in Seq(Operands) /\ ToSet(<< >>) = {}
      /\ \A u \in Operands : <<u>> \in Seq(Operands) /\ ToSet(<<u>>) = {u}
      /\ \A u, v \in Operands : <<u, v>> \in Seq(Operands) /\ ToSet(<<u, v>>) = {u, v}
  BY EmptySeq DEF ToSet
<1>5. {"call", "alloca", "ret", "add", "ne", "lt", "gep"} \subseteq Opcodes \ {"load", "store", "phi"}
      /\ {"load", "store"} \subseteq Opcodes
  BY DEF Opcodes
<1>6. Accesses(AddInstruction(f, b, Call))
  BY <1>1, <1>3, <1>4, <1>5 DEF Call
<1>7. Accesses(AddInstruction(f, b, Alloca(NextPlace(f, b))))
  BY <1>1, <1>3, <1>4, <1>5 DEF Alloca
<1>8. ASSUME NEW s \in Operands, s = Global \/ IsAddress(f, s)
      PROVE  Accesses(AddInstruction(f, b, Load(s)))
  <2>1. AccessRight(f, b, Len(f.code[b]) + 1, Instruction("load", << >>, s, << >>))
    BY <1>4, <1>8 DEF AccessRight, Instruction
  <2>2. QED
    BY <1>2, <1>4, <1>5, <2>1 DEF Load
<1>9. ASSUME NEW v \in Operands, HasValue(f, v)
      PROVE  Accesses(AddInstruction(f, b, Ret(v)))
  BY <1>1, <1>3, <1>4, <1>5, <1>9 DEF Ret
<1>10. ASSUME NEW s \in Operands, NEW v \in Operands, s = Global \/ IsAddress(f, s),
              ComesBefore(v, b, Len(f.code[b]) + 1), HasValue(f, v)
       PROVE  Accesses(AddInstruction(f, b, Store(s, v)))
  <2>1. AccessRight(f, b, Len(f.code[b]) + 1, Instruction("store", << >>, s, <<v>>))
    BY <1>4, <1>10 DEF AccessRight, Instruction
  <2>2. QED
    BY <1>2, <1>4, <1>5, <2>1 DEF Store
<1>11. ASSUME NEW u \in Operands, NEW v \in Operands, NEW op \in {"add", "ne", "lt", "gep"},
              HasValue(f, u), HasValue(f, v)
       PROVE  Accesses(AddInstruction(f, b, Pure(op, <<u, v>>)))
  <2>1. \A x \in ToSet(<<u, v>>) : HasValue(f, x)
    BY <1>4, <1>11
  <2>2. QED
    BY <1>1, <1>3, <1>4, <1>5, <2>1 DEF Pure
<1>12. QED
  BY <1>6, <1>7, <1>8, <1>9, <1>10, <1>11

\* A block is made.
LEMMA NewBlockAccesses ==
    ASSUME NEW f, Consistent(f), Accesses(f)
    PROVE  Accesses(NewBlock(f))
<1>1. LET g == NewBlock(f)
      IN  /\ Blocks(g) = Blocks(f) \cup {Len(f.code) + 1}
          /\ \A b \in Blocks(f) : g.code[b] = f.code[b]
          /\ g.code[Len(f.code) + 1] = << >>
          /\ Extends(f, g)
  BY NewBlockFacts, NewBlockKeeps DEF Consistent
<1>2. QED
  BY <1>1, SameCodeAccesses

\* A branch: the lists of the edges do not matter.
LEMMA BranchAccesses ==
    ASSUME NEW f, Consistent(f), Accesses(f), NEW b \in Blocks(f), NEW i \in Instructions,
           i.op = "br", \A v \in ToSet(i.args) : HasValue(f, v),
           NEW h, WellFormed(h), h.code = f.code
    PROVE  Accesses(AddInstruction(h, b, i))
<1>1. Blocks(h) = Blocks(f)
  BY DEF Blocks
<1>2. Extends(f, h) /\ \A c \in Blocks(h) : \A k \in DOMAIN h.code[c] :
                           c \in Blocks(f) /\ k \in DOMAIN f.code[c]
  BY <1>1 DEF Extends
<1>3. Accesses(h)
  BY <1>2, SameCodeAccesses
<1>4. AccessRight(h, b, Len(h.code[b]) + 1, i)
  BY <1>1 DEF AccessRight, HasValue
<1>5. QED
  BY <1>1, <1>3, <1>4, AddAccesses

\* create_br reads and writes nothing.
LEMMA BrAccesses ==
    ASSUME NEW f, Consistent(f), Accesses(f), NEW b \in Blocks(f), NEW t \in Blocks(f)
    PROVE  Accesses(CreateBr(f, b, t))
<1> DEFINE h == AddSucc(AddPre(f, t, b), b, t)
<1>1. WellFormed(h) /\ h.code = f.code
  <2>1. PreAdded(f, t, b, AddPre(f, t, b))
    BY AddPreFacts DEF Consistent
  <2>2. SuccAdded(AddPre(f, t, b), t, b, h)
    BY <2>1, AddSuccFacts DEF PreAdded
  <2>3. QED
    BY <2>1, <2>2 DEF PreAdded, SuccAdded
<1>2. Br(t) \in Instructions /\ Br(t).op = "br" /\ ToSet(Br(t).args) = {}
  <2>1. t \in Nat /\ << >> \in Seq(Operands) /\ Global \in Operands
    BY BlocksFacts, EmptySeq DEF Consistent, Global, Operands
  <2>2. QED
    BY <2>1 DEF Br, Instruction, Instructions, Opcodes, ToSet
<1> HIDE DEF h
<1>3. QED
  BY <1>1, <1>2, BranchAccesses DEF CreateBr, h

\* Nor does create_cond_br.
LEMMA CondBrAccesses ==
    ASSUME NEW f, Consistent(f), Accesses(f), NEW b \in Blocks(f), NEW c \in Operands,
           HasValue(f, c), NEW t \in Blocks(f), NEW e \in Blocks(f)
    PROVE  Accesses(CreateCondBr(f, b, c, t, e))
<1> DEFINE p == AddPre(f, t, b)
           q == AddPre(p, e, b)
           r == AddSucc(q, b, e)
           h == AddSucc(r, b, t)
<1>1. WellFormed(h) /\ h.code = f.code
  <2>1. PreAdded(f, t, b, p)
    BY AddPreFacts DEF Consistent
  <2> HIDE DEF p
  <2>2. PreAdded(p, e, b, q)
    <3>1. WellFormed(p) /\ e \in Blocks(p) /\ b \in Blocks(p)
      BY <2>1 DEF PreAdded
    <3>2. QED
      BY <3>1, AddPreFacts
  <2> HIDE DEF q
  <2>3. SuccAdded(q, e, b, r)
    BY <2>1, <2>2, AddSuccFacts DEF PreAdded
  <2> HIDE DEF r
  <2>4. SuccAdded(r, t, b, h)
    BY <2>1, <2>2, <2>3, AddSuccFacts DEF PreAdded, SuccAdded
  <2> HIDE DEF h
  <2>5. QED
    BY <2>1, <2>2, <2>3, <2>4 DEF PreAdded, SuccAdded
<1>2. /\ CondBr(c, t, e) \in Instructions /\ CondBr(c, t, e).op = "br"
      /\ ToSet(CondBr(c, t, e).args) = {c}
  <2>1. t \in Nat /\ e \in Nat /\ Global \in Operands
    BY BlocksFacts DEF Consistent, Global, Operands
  <2>2. QED
    BY <2>1 DEF CondBr, Instruction, Instructions, Opcodes, ToSet
<1>3. CreateCondBr(f, b, c, t, e) = AddInstruction(h, b, CondBr(c, t, e))
  BY DEF CreateCondBr
<1> HIDE DEF h
<1>4. QED
  BY <1>1, <1>2, <1>3, BranchAccesses

-----------------------------------------------------------------------------
(* The visit of an expression.                                             *)

\* val is computed at the end of the code so far.
Computed(f, b, val) ==
    /\ IsInstruction(val) => val[1] = b /\ val[2] \in DOMAIN f.code[b]
    /\ HasValue(f, val)

\* An instruction gives its place as a value.
LEMMA PlaceComputed ==
    ASSUME NEW f, Consistent(f), NEW b \in Blocks(f), NEW op, NEW g,
           Added(f, b, op, g), op \notin {"store", "br", "ret"}
    PROVE  Computed(g, b, NextPlace(f, b))
<1>1. NextPlace(f, b)[1] = b /\ NextPlace(f, b) # Global
  BY DEF NextPlace, Added
<1>2. QED
  BY <1>1 DEF Computed, HasValue, Added, IsPlace

\* No instruction, no question of its value.
LEMMA LiteralHasValue ==
    ASSUME NEW f
    PROVE  (\A n \in Nat : HasValue(f, Literal(n))) /\ HasValue(f, Global)
BY DEF HasValue, IsInstruction, Literal, Global

\* A value is one still when the function has grown.
LEMMA HasValueLater ==
    ASSUME NEW f, NEW g, Extends(f, g), NEW v, HasValue(f, v)
    PROVE  HasValue(g, v)
BY DEF Extends, HasValue

\* The storage of a declared name is an alloca, or a global.
LEMMA FindAddress ==
    ASSUME NEW f, NEW g, Extends(f, g), ScopesFit(f, scope),
           NEW n \in Name, Find(scope, n) # Undeclared
    PROVE  Find(scope, n) = Global \/ IsAddress(g, Find(scope, n))
<1> DEFINE D == {k \in DOMAIN scope : scope[k][n] # Undeclared}
           m == CHOOSE k \in D : \A j \in D : j <= k
<1>1. Len(scope) \in Nat /\ DOMAIN scope = 1..Len(scope)
  BY LenProperties DEF ScopesFit
<1>2. D # {} /\ Find(scope, n) = scope[m][n]
  BY DEF Find
<1>3. m \in D
  <2>1. D \in SUBSET (1..Len(scope))
    BY <1>1
  <2> HIDE DEF D
  <2>2. \E k \in D : \A j \in D : j <= k
    BY <1>1, <1>2, <2>1, LargestIndex
  <2>3. QED
    BY <2>2
<1> HIDE DEF m
<1>4. Storage(f, m, scope[m][n]) /\ scope[m][n] # Undeclared
  BY <1>3 DEF ScopesFit
<1>5. CASE scope[m][n] = Global
  BY <1>2, <1>5, Zenon
<1>6. CASE scope[m][n] # Global
  <2>1. LET s == scope[m][n]
        IN  /\ s[1] \in Blocks(f) /\ s[2] \in DOMAIN f.code[s[1]]
            /\ f.code[s[1]][s[2]].op = "alloca"
    BY <1>4, <1>6, Zenon DEF Storage
  <2>2. IsAddress(g, scope[m][n])
    BY <2>1 DEF IsAddress, Extends
  <2>3. QED
    BY <1>2, <2>2, Zenon
<1>7. QED
  BY <1>5, <1>6

\* The check of a subscript accesses nothing.
LEMMA CheckIndexAccesses ==
    ASSUME NEW f, Consistent(f), Accesses(f), NEW b \in Blocks(f), NEW i \in Operands,
           IsValue(f, i), HasValue(f, i)
    PROVE  Accesses(CheckIndex(f, b, i))
<1> DEFINE t == NewestBlock(f) + 1
           v == NextPlace(f, b)
           c == AddInstruction(f, b, Pure("lt", <<i, Literal(0)>>))
           d == NewBlock(c)
           e == NewBlock(d)
           g == CreateCondBr(e, b, v, t, t + 1)
           h == AddInstruction(g, t, Call)
           r == AddInstruction(h, t, Ret(Literal(0)))
<1>1. CheckIndex(f, b, i) = r
  BY DEF CheckIndex
<1>2. /\ Literal(0) \in Operands /\ IsValue(f, Literal(0))
      /\ \A k : HasValue(k, Literal(0))
  BY LiteralFacts, LiteralHasValue
<1>3. Added(f, b, "lt", c) /\ Accesses(c)
  BY <1>2, AddedPlain, AddedAccesses
<1> HIDE DEF c
<1>4. Consistent(c) /\ NewestBlock(c) = NewestBlock(f)
  BY <1>3, SameNewest DEF Added, Continues
<1>5. BlockAdded(c, d) /\ Accesses(d)
  BY <1>3, <1>4, NewBlockAdded, NewBlockAccesses
<1> HIDE DEF d
<1>6. BlockAdded(d, e) /\ Accesses(e)
  BY <1>5, NewBlockAdded, NewBlockAccesses DEF BlockAdded
<1> HIDE DEF e
<1>7. NewestBlock(f) \in Nat /\ NewestBlock(f) >= 1 /\ NewestBlock(d) = t
  BY <1>4, <1>5, NewestBlockFacts DEF BlockAdded
<1>8. Blocks(e) = Blocks(f) \cup {t, t + 1} /\ Consistent(e)
  BY <1>3, <1>4, <1>5, <1>6, <1>7 DEF Added, BlockAdded
<1>9. v \in Operands /\ IsValue(e, v) /\ HasValue(e, v)
  <2>1. v \in Operands /\ IsValue(e, v)
    BY <1>3, <1>5, <1>6, ExtendsPlaces, ExtendsTransitive DEF Added, BlockAdded, IsValue
  <2>2. HasValue(c, v)
    BY <1>3, PlaceComputed DEF Computed
  <2>3. QED
    BY <1>5, <1>6, <2>1, <2>2, HasValueLater DEF BlockAdded
<1> HIDE DEF v
<1>10. t \in Blocks(e) /\ t + 1 \in Blocks(e) /\ b \in Blocks(e)
       /\ t # Entry /\ t + 1 # Entry /\ t # t + 1
  BY <1>7, <1>8 DEF Entry
<1>11. Accesses(g)
  BY <1>6, <1>8, <1>9, <1>10, CondBrAccesses
<1>12. BranchedFrom(e, b, g)
  BY <1>8, <1>9, <1>10, CondBrBranches
<1> HIDE DEF g
<1>13. Consistent(g) /\ t \in Blocks(g)
  BY <1>10, <1>12 DEF BranchedFrom
<1>14. Accesses(h) /\ Added(g, t, "call", h)
  BY <1>11, <1>13, AddedAccesses, AddedPlain
<1> HIDE DEF h
<1>15. Consistent(h) /\ t \in Blocks(h)
  BY <1>13, <1>14 DEF Added, Continues
<1>16. Accesses(r)
  BY <1>2, <1>14, <1>15, AddedAccesses
<1> HIDE DEF r
<1>17. QED
  BY <1>1, <1>16

\* The address of an element is one.
LEMMA ElementAccesses ==
    ASSUME NEW f, NEW b, NEW r, Evaluated(f, b, r), Accesses(r.f)
    PROVE  LET a == Element(r)
           IN  Accesses(a.f) /\ IsAddress(a.f, a.val) /\ Computed(a.f, a.at, a.val)
<1> DEFINE g == CheckIndex(r.f, r.at, Literal(1))
           c == NewestBlock(g)
           h == AddInstruction(g, c, Pure("gep", <<Global, Literal(1)>>))
           a == NextPlace(g, c)
<1>1. Element(r) = [f |-> h, at |-> c, val |-> a]
  BY DEF Element, AddressOf
<1>2. /\ Literal(1) \in Operands /\ IsValue(r.f, Literal(1))
      /\ \A j : HasValue(j, Literal(1)) /\ HasValue(j, Global)
  BY LiteralFacts, LiteralHasValue
<1>3. Continues(r.f, r.at, g, c) /\ Accesses(g)
  BY <1>2, CheckIndexContinues, CheckIndexAccesses DEF Evaluated, Continues
<1> HIDE DEF g
<1>4. Consistent(g) /\ c \in Blocks(g)
  BY <1>3 DEF Continues
<1>5. /\ Global \in Operands /\ IsValue(g, Global)
      /\ Literal(1) \in Operands /\ IsValue(g, Literal(1))
  BY <1>2 DEF Global, Operands, IsValue, IsPlace, Literal, IsInstruction
<1> HIDE DEF c
<1>6. Added(g, c, "gep", h) /\ Accesses(h)
  BY <1>2, <1>3, <1>4, <1>5, AddedPlain, AddedAccesses
<1> HIDE DEF h
<1>7. IsAddress(h, a) /\ Computed(h, c, a)
  BY <1>4, <1>6, PlaceComputed DEF Added, IsPlace, IsAddress
<1> HIDE DEF a
<1>8. QED
  BY <1>1, <1>6, <1>7

\* The visit of a term, with val where the code has come to.
LEMMA TermAccesses ==
    ASSUME NEW f, NEW b, NEW r, Evaluated(f, b, r), ScopesFit(f, scope), Accesses(r.f),
           Computed(r.f, r.at, r.val),
           NEW e \in {"0", "1", "call", "index"} \cup Name, Known(e)
    PROVE  LET v == Term(r, e) IN Accesses(v.f) /\ Computed(v.f, v.at, v.val)
<1> DEFINE v == Term(r, e)
           p == NextPlace(r.f, r.at)
<1>1. Consistent(r.f) /\ r.at \in Blocks(r.f) /\ Extends(f, r.f)
  BY DEF Evaluated, Continues
<1>2. \A n \in Nat : /\ Literal(n) \in Operands /\ IsValue(r.f, Literal(n))
                     /\ ~IsInstruction(Literal(n))
                     /\ \A g : HasValue(g, Literal(n)) /\ HasValue(g, Global)
  <2>1. \A n \in Nat : ~IsInstruction(Literal(n))
    BY DEF Literal, IsInstruction
  <2>2. QED
    BY <2>1, LiteralFacts, LiteralHasValue
<1>3. CASE e = "0"
  <2>1. v = [f |-> r.f, at |-> r.at, val |-> Literal(0)]
    BY <1>3 DEF Term, Evaluated
  <2>2. QED
    BY <1>2, <2>1 DEF Computed
<1>4. CASE e = "1"
  <2>1. v = [f |-> r.f, at |-> r.at, val |-> Literal(1)]
    BY <1>4 DEF Term, Evaluated
  <2>2. QED
    BY <1>2, <2>1 DEF Computed
<1>5. CASE e = "call"
  <2> DEFINE g == AddInstruction(r.f, r.at, Call)
  <2>1. v = [f |-> g, at |-> r.at, val |-> p]
    BY <1>5 DEF Term, Evaluated
  <2>2. Added(r.f, r.at, "call", g) /\ Accesses(g)
    BY <1>1, AddedPlain, AddedAccesses
  <2> HIDE DEF g, p
  <2>3. QED
    BY <1>1, <2>1, <2>2, PlaceComputed DEF p
<1>6. CASE e = "index"
  <2> DEFINE a == Element(r)
             k == AddInstruction(a.f, a.at, Load(a.val))
             z == NextPlace(a.f, a.at)
  <2>1. v = [f |-> k, at |-> a.at, val |-> z]
    BY <1>6 DEF Term, LoadedFrom
  <2>2. /\ Evaluated(f, b, a) /\ IsPlace(a.f, a.val)
        /\ Accesses(a.f) /\ IsAddress(a.f, a.val)
    BY ElementEvaluated, ElementAccesses
  <2> HIDE DEF a
  <2>3. Added(a.f, a.at, "load", k) /\ Accesses(k)
    BY <2>2, AddedPlain, AddedAccesses DEF Evaluated, Continues
  <2>4. Computed(k, a.at, z)
    BY <2>2, <2>3, PlaceComputed DEF Evaluated, Continues
  <2> HIDE DEF k, z
  <2>5. QED
    BY <2>1, <2>3, <2>4
<1>7. CASE e \notin {"0", "1", "call", "index"}
  <2> DEFINE s == Find(scope, e)
             g == AddInstruction(r.f, r.at, Load(s))
  <2>1. v = [f |-> g, at |-> r.at, val |-> p]
    BY <1>7 DEF Term, Evaluated
  <2>2. s \in Operands /\ IsPlace(r.f, s) /\ (s = Global \/ IsAddress(r.f, s))
    BY <1>1, <1>7, FindFacts, FindAddress, ExtendsPlaces DEF Known
  <2> HIDE DEF s
  <2>3. Added(r.f, r.at, "load", g) /\ Accesses(g)
    BY <1>1, <2>2, AddedPlain, AddedAccesses
  <2> HIDE DEF g, p
  <2>4. QED
    BY <1>1, <2>1, <2>3, PlaceComputed DEF p
<1>8. QED
  BY <1>3, <1>4, <1>5, <1>6, <1>7

\* The visit of an expression whose names are all declared.
LEMMA EvalAccesses ==
    ASSUME NEW f, Consistent(f), Accesses(f), NEW b \in Blocks(f), ScopesFit(f, scope),
           NEW e \in Expr, Declared(e)
    PROVE  LET v == Eval(f, b, e) IN Accesses(v.f) /\ Computed(v.f, v.at, v.val)
<1> DEFINE r0 == [f |-> f, at |-> b, val |-> Literal(0)]
           r == Term(r0, e[1])
           q == Term(r, e[2])
           terms == {"0", "1", "call", "index"} \cup Name
<1>1. e \in Seq(terms) /\ Len(e) \in {1, 2}
  BY CminusfBuilderAssumption
<1>2. ASSUME NEW k \in 1..Len(e)
      PROVE  e[k] \in terms /\ Known(e[k])
  <2>1. e[k] \in terms /\ k \in DOMAIN e
    <3> HIDE DEF terms
    <3>1. QED
      BY <1>1, ElementOfSeq, LenProperties
  <2>2. e[k] \in ToSet(e)
    BY <2>1 DEF ToSet
  <2>3. QED
    BY <2>1, <2>2 DEF Known, Declared
<1>3. /\ Evaluated(f, b, r0) /\ Accesses(r0.f) /\ Computed(r0.f, r0.at, r0.val)
  BY ContinuesReflexive, LiteralFacts, LiteralHasValue
     DEF Evaluated, Computed, Literal, IsInstruction
<1>4. 1 \in 1..Len(e) /\ (Len(e) = 1 \/ Len(e) = 2)
  <2>1. Len(e) = 1 \/ Len(e) = 2
    BY <1>1, Zenon
  <2>2. QED
    BY <2>1
<1> HIDE DEF r0
<1>5. Evaluated(f, b, r) /\ Accesses(r.f) /\ Computed(r.f, r.at, r.val)
  <2>1. e[1] \in terms /\ Known(e[1])
    BY <1>2, <1>4
  <2>2. QED
    BY <1>3, <2>1, TermEvaluated, TermAccesses
<1> HIDE DEF r
<1>6. CASE Len(e) = 1
  BY <1>5, <1>6 DEF Eval, r, r0
<1>7. CASE Len(e) = 2
  <2> DEFINE g == AddInstruction(q.f, q.at, Pure("add", <<r.val, q.val>>))
             p == NextPlace(q.f, q.at)
  <2>1. 2 \in 1..Len(e)
    BY <1>7
  <2>2. e[2] \in terms /\ Known(e[2])
    BY <1>2, <2>1
  <2>3. Evaluated(r.f, r.at, r) /\ ScopesFit(r.f, scope)
    BY <1>5, ContinuesReflexive, ScopesFitLater DEF Evaluated, Continues
  <2>4. Evaluated(r.f, r.at, q) /\ Accesses(q.f) /\ Computed(q.f, q.at, q.val)
    BY <1>5, <2>2, <2>3, TermEvaluated, TermAccesses
  <2>5. AddTerm(r, e[2]) = [q EXCEPT !.f = g, !.val = p]
    BY DEF AddTerm
  <2> HIDE DEF q
  <2>6. /\ Consistent(q.f) /\ q.at \in Blocks(q.f)
        /\ r.val \in Operands /\ IsValue(q.f, r.val)
        /\ q.val \in Operands /\ IsValue(q.f, q.val)
        /\ HasValue(q.f, r.val) /\ HasValue(q.f, q.val)
    <3>1. HasValue(q.f, r.val) /\ HasValue(q.f, q.val)
      BY <1>5, <2>4, HasValueLater DEF Computed, Evaluated, Continues
    <3>2. QED
      BY <2>3, <2>4, <3>1, ExtendsPlaces DEF Evaluated, Continues
  <2>7. Added(q.f, q.at, "add", g) /\ Accesses(g)
    BY <2>4, <2>6, AddedPlain, AddedAccesses
  <2>8. Computed(g, q.at, p)
    BY <2>6, <2>7, PlaceComputed
  <2> HIDE DEF g, p
  <2>9. AddTerm(r, e[2]) = [f |-> g, at |-> q.at, val |-> p]
    BY <2>4, <2>5 DEF Evaluated
  <2>10. Eval(f, b, e) = AddTerm(r, e[2])
    BY <1>7 DEF Eval, r, r0
  <2>11. QED
    BY <2>7, <2>8, <2>9, <2>10
<1>8. QED
  BY <1>4, <1>6, <1>7

-----------------------------------------------------------------------------
(* The visits that change the function.                                    *)

\* An expression where the code stands, in a statement.
LEMMA StatementAccesses ==
    ASSUME IInv, Accesses(func), AtStatement, NEW e \in Expr, Declared(e)
    PROVE  LET v == Eval(func, insert, e)
           IN  /\ Consistent(v.f) /\ Extends(func, v.f) /\ v.at \in Blocks(v.f)
               /\ v.val \in Operands /\ IsValue(v.f, v.val)
               /\ v = [f |-> v.f, at |-> v.at, val |-> v.val]
               /\ Accesses(v.f) /\ Computed(v.f, v.at, v.val)
<1>1. Evaluated(func, insert, Eval(func, insert, e))
  BY StatementFacts, EvalEvaluated
<1>2. QED
  BY <1>1, StatementFacts, EvalAccesses DEF Evaluated, Continues

\* An assignment to an element.
LEMMA AssignElementAccesses ==
    ASSUME IInv, Accesses(func), NEW e \in Expr, AssignElement(e)
    PROVE  Accesses(func')
<1> DEFINE r0 == [f |-> func, at |-> insert, val |-> Literal(0)]
           a == Element(r0)
           v == Eval(a.f, a.at, e)
<1>1. AtStatement /\ Declared(e)
      /\ func' = AddInstruction(v.f, v.at, Store(a.val, v.val))
  BY DEF AssignElement
<1>2. Evaluated(func, insert, r0) /\ r0.f = func
  BY <1>1, StatementFacts, ContinuesReflexive, LiteralFacts DEF Evaluated
<1> HIDE DEF r0
<1>3. /\ Evaluated(func, insert, a) /\ Accesses(a.f)
      /\ a.val \in Operands /\ IsAddress(a.f, a.val)
  BY <1>2, ElementEvaluated, ElementAccesses DEF Evaluated
<1> HIDE DEF a
<1>4. Consistent(a.f) /\ a.at \in Blocks(a.f) /\ ScopesFit(a.f, scope)
  BY <1>1, <1>3, StatementFacts, ScopesFitLater DEF Evaluated, Continues
<1>5. /\ Evaluated(a.f, a.at, v)
      /\ Accesses(v.f) /\ Computed(v.f, v.at, v.val)
  BY <1>1, <1>3, <1>4, EvalEvaluated, EvalAccesses
<1> HIDE DEF v
<1>6. /\ Consistent(v.f) /\ v.at \in Blocks(v.f) /\ v.val \in Operands
      /\ Extends(a.f, v.f)
  BY <1>5 DEF Evaluated, Continues
<1>7. IsAddress(v.f, a.val)
  BY <1>3, <1>6 DEF IsAddress, Extends
<1>8. ComesBefore(v.val, v.at, Len(v.f.code[v.at]) + 1)
  <2>1. v.f.code[v.at] \in Seq(Instructions)
    BY <1>6, BlocksFacts, ElementOfSeq DEF Consistent
  <2>2. Len(v.f.code[v.at]) \in Nat /\ DOMAIN v.f.code[v.at] = 1..Len(v.f.code[v.at])
    BY <2>1, LenProperties
  <2>3. QED
    BY <1>5, <2>2 DEF ComesBefore, Computed
<1>9. QED
  BY <1>1, <1>3, <1>5, <1>6, <1>7, <1>8, AddedAccesses DEF Computed

\* Statements that stay in their block.
LEMMA SimpleStatementsAccesses ==
    ASSUME IInv, Accesses(func), NEW e \in Expr,
           \/ ExpressionStmt(e) \/ ReturnStmt(e)
           \/ \E n \in Name : AssignStmt(n, e)
    PROVE  Accesses(func')
<1> DEFINE v == Eval(func, insert, e)
<1>1. AtStatement /\ Declared(e)
  BY DEF ExpressionStmt, ReturnStmt, AssignStmt
<1>2. /\ Consistent(v.f) /\ Extends(func, v.f) /\ v.at \in Blocks(v.f)
      /\ v.val \in Operands
      /\ Accesses(v.f) /\ Computed(v.f, v.at, v.val)
  BY <1>1, StatementAccesses
<1>3. CASE ExpressionStmt(e)
  BY <1>2, <1>3 DEF ExpressionStmt
<1>4. CASE ReturnStmt(e)
  <2>1. func' = AddInstruction(v.f, v.at, Ret(v.val))
    BY <1>4 DEF ReturnStmt
  <2> HIDE DEF v
  <2>2. QED
    BY <1>2, <2>1, AddedAccesses DEF Computed
<1>5. ASSUME NEW n \in Name, AssignStmt(n, e)
      PROVE  Accesses(func')
  <2> DEFINE s == Find(scope, n)
  <2>1. func' = AddInstruction(v.f, v.at, Store(s, v.val))
    BY <1>5 DEF AssignStmt
  <2>2. s # Undeclared
    <3>1. n \in ToSet(<<n>>) \cap Name
      BY DEF ToSet
    <3>2. QED
      BY <1>5, <3>1 DEF AssignStmt, Declared
  <2> HIDE DEF v
  <2>3. s \in Operands /\ (s = Global \/ IsAddress(v.f, s))
    BY <1>1, <1>2, <2>2, StatementFacts, FindFacts, FindAddress
  <2> HIDE DEF s
  <2>4. ComesBefore(v.val, v.at, Len(v.f.code[v.at]) + 1)
    <3>1. v.f.code[v.at] \in Seq(Instructions)
      BY <1>2, BlocksFacts, ElementOfSeq DEF Consistent
    <3>2. Len(v.f.code[v.at]) \in Nat /\ DOMAIN v.f.code[v.at] = 1..Len(v.f.code[v.at])
      BY <3>1, LenProperties
    <3>3. QED
      BY <1>2, <3>2 DEF ComesBefore, Computed
  <2>5. QED
    BY <1>2, <2>1, <2>3, <2>4, AddedAccesses DEF Computed
<1>6. QED
  BY <1>3, <1>4, <1>5

\* The branch on a value.
LEMMA ValueBranchAccesses ==
    ASSUME NEW v, Consistent(v.f), Accesses(v.f), v.at \in Blocks(v.f),
           v.val \in Operands, IsValue(v.f, v.val), HasValue(v.f, v.val),
           NEW t \in Blocks(v.f), NEW e \in Blocks(v.f)
    PROVE  Accesses(Branch(v, t, e))
<1> DEFINE c == AddInstruction(v.f, v.at, Pure("ne", <<v.val, Literal(0)>>))
           p == NextPlace(v.f, v.at)
<1>1. /\ Literal(0) \in Operands /\ IsValue(v.f, Literal(0))
      /\ HasValue(v.f, Literal(0))
  BY LiteralFacts, LiteralHasValue
<1>2. Added(v.f, v.at, "ne", c) /\ Accesses(c)
  BY <1>1, AddedPlain, AddedAccesses
<1>3. Branch(v, t, e) = CreateCondBr(c, v.at, p, t, e)
  BY DEF Branch
<1> HIDE DEF c, p
<1>4. /\ Consistent(c) /\ v.at \in Blocks(c) /\ Blocks(c) = Blocks(v.f) /\ p \in Operands
      /\ HasValue(c, p)
  <2>1. HasValue(c, p)
    BY <1>2, PlaceComputed DEF Computed, p
  <2>2. QED
    BY <1>2, <2>1 DEF Added, Continues, p
<1>5. QED
  BY <1>2, <1>3, <1>4, CondBrAccesses

\* BasicBlock::create, three times.
LEMMA ThreeBlocksAccesses ==
    ASSUME NEW f, Consistent(f), Accesses(f)
    PROVE  Accesses(NewBlock(NewBlock(NewBlock(f))))
<1>1. Consistent(NewBlock(f)) /\ Accesses(NewBlock(f))
  BY NewBlockKeeps, NewBlockAccesses
<1>2. Consistent(NewBlock(NewBlock(f))) /\ Accesses(NewBlock(NewBlock(f)))
  BY <1>1, NewBlockKeeps, NewBlockAccesses
<1>3. QED
  BY <1>2, NewBlockAccesses

\* visit(ASTSelectionStmt), up to its branch.
LEMMA SelectionStmtAccesses ==
    ASSUME IInv, Accesses(func), NEW e \in Expr, NEW hasElse \in BOOLEAN,
           SelectionStmt(e, hasElse)
    PROVE  Accesses(func')
<1> DEFINE v == Eval(func, insert, e)
           t == NewestBlock(v.f) + 1
           f == NewBlock(NewBlock(NewBlock(v.f)))
           w == [v EXCEPT !.f = f]
<1>1. AtStatement /\ Declared(e)
  BY DEF SelectionStmt
<1>2. /\ Consistent(v.f) /\ Extends(func, v.f) /\ v.at \in Blocks(v.f)
      /\ v.val \in Operands /\ IsValue(v.f, v.val)
      /\ v = [f |-> v.f, at |-> v.at, val |-> v.val]
      /\ Accesses(v.f) /\ HasValue(v.f, v.val)
  BY <1>1, StatementAccesses DEF Computed
<1>3. func' = Branch(w, t, t + 1)
  BY DEF SelectionStmt
<1> HIDE DEF v
<1>4. ThreeAdded(v.f, f) /\ Accesses(f)
  BY <1>2, ThreeBlocks, ThreeBlocksAccesses
<1> HIDE DEF f
<1>5. w.f = f /\ w.at = v.at /\ w.val = v.val
  BY <1>2
<1> HIDE DEF w
<1>6. /\ Consistent(f) /\ Extends(v.f, f) /\ t \in Blocks(f) /\ t + 1 \in Blocks(f)
      /\ t + 1 = NewestBlock(v.f) + 2
  BY <1>2, <1>4, NewestBlockFacts DEF ThreeAdded
<1> HIDE DEF t
<1>7. v.at \in Blocks(f) /\ IsValue(f, v.val) /\ HasValue(f, v.val)
  BY <1>2, <1>6, ExtendsPlaces, HasValueLater DEF Extends
<1>8. QED
  BY <1>2, <1>3, <1>4, <1>5, <1>6, <1>7, ValueBranchAccesses

\* visit(ASTIterationStmt), up to its branch.
LEMMA IterationStmtAccesses ==
    ASSUME IInv, Accesses(func), NEW e \in Expr, IterationStmt(e)
    PROVE  Accesses(func')
<1> DEFINE j == NewestBlock(func) + 1
           f0 == NewBlock(NewBlock(NewBlock(func)))
           f == CreateBr(f0, insert, j)
           v == Eval(f, j, e)
<1>1. AtStatement /\ Declared(e)
  BY DEF IterationStmt
<1>2. func' = Branch(v, j + 1, j + 2)
  BY DEF IterationStmt
<1>3. Consistent(func) /\ insert \in Blocks(func)
  BY <1>1, StatementFacts
<1>4. /\ ThreeAdded(func, f0) /\ Accesses(f0)
      /\ NewestBlock(func) \in Nat /\ NewestBlock(func) >= 1
  BY <1>3, ThreeBlocks, NewestBlockFacts, ThreeBlocksAccesses
<1> HIDE DEF f0
<1>5. /\ Consistent(f0) /\ Extends(func, f0)
      /\ {j, j + 1, j + 2} \subseteq Blocks(f0) \ {Entry}
  BY <1>4 DEF ThreeAdded, Entry
<1> HIDE DEF j
<1>6. BranchedFrom(f0, insert, f) /\ Accesses(f)
  BY <1>3, <1>4, <1>5, BrBranches, BrAccesses DEF Extends
<1> HIDE DEF f
<1>7. /\ Consistent(f) /\ Extends(func, f) /\ Blocks(f) = Blocks(f0)
  BY <1>5, <1>6, ExtendsTransitive DEF BranchedFrom
<1>8. Evaluated(f, j, v) /\ Accesses(v.f) /\ HasValue(v.f, v.val)
  <2>1. ScopesFit(f, scope)
    BY <1>1, <1>7, StatementFacts, ScopesFitLater
  <2>2. QED
    BY <1>1, <1>5, <1>6, <1>7, <2>1, EvalEvaluated, EvalAccesses DEF Computed
<1> HIDE DEF v
<1>9. /\ Consistent(v.f) /\ Extends(f, v.f) /\ v.at \in Blocks(v.f)
      /\ v.val \in Operands /\ IsValue(v.f, v.val)
  BY <1>8 DEF Evaluated, Continues
<1>10. j + 1 \in Blocks(v.f) /\ j + 2 \in Blocks(v.f)
  BY <1>5, <1>7, <1>9 DEF Extends
<1>11. QED
  BY <1>2, <1>8, <1>9, <1>10, ValueBranchAccesses

\* The branch at the end of an arm or of a body.
LEMMA CloseBranchAccesses ==
    ASSUME Consistent(func), Accesses(func), insert \in Blocks(func),
           NEW target \in Blocks(func)
    PROVE  Accesses(CloseBranch(target))
BY BrAccesses DEF CloseBranch

\* The ends of the visits of if and while.
LEMMA BranchEndAccesses ==
    ASSUME IInv, Accesses(func), EndThen \/ EndElse \/ EndBody
    PROVE  Accesses(func')
<1> DEFINE rest == Front(stack)
           top == Last(stack)
           closed == CloseBranch(top.next)
<1>1. ctl = "done" /\ Resumes(rest, top)
  BY DoneResumes DEF EndThen, EndElse, EndBody
<1>2. Consistent(func) /\ insert \in Blocks(func) /\ FrameFits(func, top)
  BY <1>1 DEF Resumes
<1>3. CASE EndThen
  <2>1. /\ top.kind = "then"
        /\ func' = closed \/ func' = CreateBr(closed, top.at, top.next)
    BY <1>3 DEF EndThen
  <2>2. top.next \in Blocks(func) \ {Entry} /\ top.at \in Blocks(func)
    BY <1>2, <2>1 DEF FrameFits, Awaits
  <2> HIDE DEF top
  <2>3. BranchedFrom(func, insert, closed) /\ Accesses(closed)
    BY <1>2, <2>2, CloseBranchLeaves, CloseBranchAccesses
  <2> HIDE DEF closed
  <2>4. Consistent(closed) /\ Blocks(closed) = Blocks(func)
    BY <2>3 DEF BranchedFrom
  <2>5. QED
    BY <2>1, <2>2, <2>3, <2>4, BrAccesses
<1>4. CASE EndElse
  <2>1. top.kind = "else" /\ func' = closed
    BY <1>4 DEF EndElse
  <2>2. top.next \in Blocks(func)
    BY <1>2, <2>1 DEF FrameFits, Awaits
  <2>3. QED
    BY <1>2, <2>1, <2>2, CloseBranchAccesses
<1>5. CASE EndBody
  <2>1. top.kind = "body" /\ func' = CloseBranch(top.at)
    BY <1>5 DEF EndBody
  <2>2. top.at \in Blocks(func)
    BY <1>2, <2>1 DEF FrameFits
  <2>3. QED
    BY <1>2, <2>1, <2>2, CloseBranchAccesses
<1>6. QED
  BY <1>3, <1>4, <1>5

\* visit(ASTVarDeclaration): an alloca.
LEMMA VarDeclarationAccesses ==
    ASSUME IInv, Accesses(func), NEW n \in Name, VarDeclaration(n)
    PROVE  Accesses(func')
<1>1. CASE Len(scope) = 1
  BY <1>1 DEF VarDeclaration
<1>2. CASE Len(scope) # 1
  <2>1. func' = AddInstruction(func, insert, Alloca(NextPlace(func, insert)))
    BY <1>2 DEF VarDeclaration
  <2>2. ctl # "global"
    BY <1>2 DEF Controlled, ScopesOpen, IInv
  <2>3. Consistent(func) /\ insert \in Blocks(func)
    BY <2>2 DEF IInv, FunctionInv
  <2>4. QED
    BY <2>1, <2>3, AddedAccesses
<1>3. QED
  BY <1>1, <1>2

\* A function without blocks.
LEMMA EmptyAccesses == Accesses(EmptyFunction)
BY DEF Accesses, EmptyFunction, Blocks

\* visit(ASTFunDeclaration): the parameter is stored where it was allocated.
LEMMA FunDeclarationAccesses ==
    ASSUME NEW params, FunDeclaration(params)
    PROVE  Accesses(func')
<1> DEFINE f == NewBlock(EmptyFunction)
           s == NextPlace(f, Entry)
           g == AddInstruction(f, Entry, Alloca(s))
<1>1. func' = f \/ func' = AddInstruction(g, Entry, Store(s, Argument))
  BY DEF FunDeclaration
<1>2. Consistent(f) /\ Entry \in Blocks(f) /\ Accesses(f)
  <2>1. BlockAdded(EmptyFunction, f) /\ Accesses(f)
    BY EmptyConsistent, NewBlockAdded, EmptyAccesses, NewBlockAccesses
  <2> HIDE DEF f
  <2>2. NewestBlock(EmptyFunction) + 1 = Entry
    BY EmptyConsistent DEF Entry
  <2>3. QED
    BY <2>1, <2>2 DEF BlockAdded
<1> HIDE DEF f
<1>3. Added(f, Entry, "alloca", g) /\ Accesses(g)
  BY <1>2, AddedPlain, AddedAccesses
<1> HIDE DEF g
<1>4. Consistent(g) /\ Entry \in Blocks(g) /\ s \in Operands /\ IsAddress(g, s)
  BY <1>3 DEF Added, Continues, IsPlace, IsAddress, s
<1> HIDE DEF s
<1>5. /\ Argument \in Operands /\ ComesBefore(Argument, Entry, Len(g.code[Entry]) + 1)
      /\ HasValue(g, Argument)
  BY DEF Argument, Operands, ComesBefore, HasValue, IsInstruction
<1>6. Accesses(AddInstruction(g, Entry, Store(s, Argument)))
  BY <1>3, <1>4, <1>5, AddedAccesses
<1>7. QED
  BY <1>1, <1>2, <1>6

\* The return that is added at the end of a function.
LEMMA EndFunctionAccesses ==
    ASSUME IInv, Accesses(func), EndFunction
    PROVE  Accesses(func')
<1>1. ctl = "done"
  BY DEF EndFunction
<1>2. Consistent(func) /\ insert \in Blocks(func)
  BY <1>1 DEF IInv, FunctionInv
<1>3. Literal(0) \in Operands /\ HasValue(func, Literal(0))
  BY LiteralFacts, LiteralHasValue
<1>4. QED
  BY <1>2, <1>3, AddedAccesses DEF EndFunction

\* Every visit keeps the accesses in order.
LEMMA NextAccesses == IInv /\ Accesses(func) /\ [Next]_vars => Accesses(func')
<1> SUFFICES ASSUME IInv, Accesses(func), [Next]_vars
             PROVE  Accesses(func')
  OBVIOUS
<1>1. CASE UNCHANGED vars
  BY <1>1 DEF vars
<1>2. CASE OpenCompound \/ CloseCompound
  BY <1>2 DEF OpenCompound, CloseCompound
<1>3. CASE EndThen \/ EndElse \/ EndBody
  BY <1>3, BranchEndAccesses
<1>4. CASE EndFunction
  BY <1>4, EndFunctionAccesses
<1>5. CASE \E params : FunDeclaration(params)
  BY <1>5, FunDeclarationAccesses
<1>6. QED
  BY <1>1, <1>2, <1>3, <1>4, <1>5, VarDeclarationAccesses, SimpleStatementsAccesses,
     AssignElementAccesses, SelectionStmtAccesses, IterationStmtAccesses DEF Next
=============================================================================
