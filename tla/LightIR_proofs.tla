--------------------------- MODULE LightIR_proofs ---------------------------
(***************************************************************************)
(* What the constructors of blocks and instructions preserve: a function   *)
(* stays well-formed, its edges stay the same in the branches, succ_bbs_   *)
(* and pre_bbs_, what it had stays where it was, and which blocks are open.*)
(* Then what the reference definitions on the graph of a function say, and *)
(* what recursion up to a number gives.                                    *)
(***************************************************************************)
EXTENDS LightIR, SequenceTheorems, FiniteSetTheorems, WellFoundedInduction, TLAPS

\* The edges from b to t as each of the three places counts them.
Agree(f) ==
    \A b, t \in Blocks(f) :
        /\ Cardinality(Occurrences(f.succ[b], t)) = Cardinality(BranchesTo(f, b, t))
        /\ Cardinality(Occurrences(f.pre[t], b)) = Cardinality(BranchesTo(f, b, t))

\* g has all that f has.
Extends(f, g) ==
    /\ Blocks(f) \subseteq Blocks(g)
    /\ \A b \in Blocks(f) : /\ DOMAIN f.code[b] \subseteq DOMAIN g.code[b]
                            /\ \A k \in DOMAIN f.code[b] : g.code[b][k] = f.code[b][k]

\* The entry block is no branch's target.
NoWayBack(f) == Entry \in Blocks(f) => f.pre[Entry] = << >>

Consistent(f) == WellFormed(f) /\ Agree(f) /\ NoWayBack(f)

\* A function extended twice has been extended.
LEMMA ExtendsTransitive ==
    ASSUME NEW f, NEW g, NEW h, Extends(f, g), Extends(g, h)
    PROVE  Extends(f, h)
BY DEF Extends

\* A place stays one, a value stays one.
LEMMA ExtendsPlaces ==
    ASSUME NEW f, NEW g, Extends(f, g), NEW s
    PROVE  /\ IsPlace(f, s) => IsPlace(g, s)
           /\ IsValue(f, s) => IsValue(g, s)
BY DEF Extends, IsPlace, IsValue

\* An instruction that refers to nothing outside f does not in an extension of
\* f either.
LEMMA ExtendsRefers ==
    ASSUME NEW f, NEW g, Extends(f, g), NEW i, Refers(f, i)
    PROVE  Refers(g, i)
BY ExtendsPlaces DEF Refers, Extends

\* The places of a sequence whose elements are in T.
Places(s, T) == {k \in DOMAIN s : s[k] \in T}

\* Appending an element adds one to the count of the elements that it is among.
LEMMA CountAppend ==
    ASSUME NEW S, NEW s \in Seq(S), NEW y \in S, NEW T
    PROVE  /\ Cardinality(Places(s, T)) \in Nat
           /\ Cardinality(Places(Append(s, y), T)) =
                  Cardinality(Places(s, T)) + (IF y \in T THEN 1 ELSE 0)
<1> DEFINE old == {k \in DOMAIN s : s[k] \in T}
           new == {k \in DOMAIN Append(s, y) : Append(s, y)[k] \in T}
<1>1. /\ Len(s) \in Nat /\ DOMAIN s = 1..Len(s)
      /\ DOMAIN Append(s, y) = 1..(Len(s) + 1)
      /\ \A k \in 1..Len(s) : Append(s, y)[k] = s[k]
      /\ Append(s, y)[Len(s) + 1] = y
  BY LenProperties, AppendProperties
<1>2. IsFiniteSet(old)
  <2>1. IsFiniteSet(1..Len(s))
    <3>1. 1 \in Int /\ Len(s) \in Int
      BY <1>1
    <3>2. QED
      BY <3>1, FS_Interval, Zenon
  <2>2. old \subseteq 1..Len(s)
    BY <1>1
  <2>3. QED
    BY <2>1, <2>2, FS_Subset
<1>3. Cardinality(old) \in Nat
  BY <1>2, FS_CardinalityType
<1>4. Len(s) + 1 \notin old
  BY <1>1
<1>5. new = IF y \in T THEN old \cup {Len(s) + 1} ELSE old
  BY <1>1
<1>6. Cardinality(old \cup {Len(s) + 1}) = Cardinality(old) + 1
  BY <1>2, <1>4, FS_AddElement
<1> HIDE DEF old, new
<1>7. Cardinality(new) = Cardinality(old) + (IF y \in T THEN 1 ELSE 0)
  BY <1>3, <1>5, <1>6
<1>8. QED
  BY <1>3, <1>7 DEF old, new, Places

\* Appending to pre_bbs_ or succ_bbs_ changes the count of the appended block
\* alone.
LEMMA OccurrencesAppend ==
    ASSUME NEW s \in Seq(Nat), NEW y \in Nat, NEW x
    PROVE  /\ Cardinality(Occurrences(s, x)) \in Nat
           /\ Cardinality(Occurrences(Append(s, y), x)) =
                  Cardinality(Occurrences(s, x)) + (IF x = y THEN 1 ELSE 0)
<1>1. /\ Occurrences(s, x) = Places(s, {x})
      /\ Occurrences(Append(s, y), x) = Places(Append(s, y), {x})
  BY DEF Occurrences, Places
<1>2. \A T : /\ Cardinality(Places(s, T)) \in Nat
             /\ Cardinality(Places(Append(s, y), T)) =
                    Cardinality(Places(s, T)) + (IF y \in T THEN 1 ELSE 0)
  BY CountAppend
<1>3. QED
  BY <1>1, <1>2
-----------------------------------------------------------------------------
\* BasicBlock::create, field by field: an empty block, and nothing else
\* changed.
LEMMA NewBlockFacts ==
    ASSUME NEW f, WellFormed(f)
    PROVE  LET g == NewBlock(f)  n == Len(f.code) + 1
           IN  /\ g \in FunctionRecords
               /\ Len(f.code) \in Nat
               /\ Blocks(f) = 1..Len(f.code)
               /\ Len(g.pre) = n /\ Len(g.succ) = n /\ Len(g.code) = n
               /\ Blocks(g) = Blocks(f) \cup {n}
               /\ n \notin Blocks(f)
               /\ \A b \in Blocks(f) : /\ g.pre[b] = f.pre[b]
                                       /\ g.succ[b] = f.succ[b]
                                       /\ g.code[b] = f.code[b]
               /\ g.pre[n] = << >> /\ g.succ[n] = << >> /\ g.code[n] = << >>
<1>1. /\ f.pre \in Seq(Seq(Nat)) /\ f.succ \in Seq(Seq(Nat))
      /\ f.code \in Seq(Seq(Instructions))
      /\ Len(f.pre) = Len(f.code) /\ Len(f.succ) = Len(f.code)
  BY DEF WellFormed, FunctionRecords
<1>2. /\ << >> \in Seq(Nat) /\ << >> \in Seq(Instructions)
  BY EmptySeq
<1>3. /\ Len(f.code) \in Nat
      /\ Blocks(f) = 1..Len(f.code)
  BY <1>1, LenProperties DEF Blocks
<1> DEFINE g == NewBlock(f)
<1>4. /\ g.pre = Append(f.pre, << >>) /\ g.succ = Append(f.succ, << >>)
      /\ g.code = Append(f.code, << >>)
      /\ DOMAIN g = {"pre", "succ", "code"}
  BY DEF NewBlock
<1>5. g.pre \in Seq(Seq(Nat)) /\ g.succ \in Seq(Seq(Nat)) /\ g.code \in Seq(Seq(Instructions))
  BY <1>1, <1>2, <1>4, AppendProperties
<1>6. g \in FunctionRecords
  BY <1>5 DEF FunctionRecords, NewBlock
<1>7. DOMAIN g.code = 1..Len(g.code)
  BY <1>5, LenProperties
<1>8. Len(g.pre) = Len(f.code) + 1 /\ Len(g.succ) = Len(f.code) + 1 /\ Len(g.code) = Len(f.code) + 1
  BY <1>1, <1>2, <1>4, AppendProperties, SMTT(30)
<1>9. \A b \in Blocks(f) : /\ g.pre[b] = f.pre[b]
                           /\ g.succ[b] = f.succ[b]
                           /\ g.code[b] = f.code[b]
  BY <1>1, <1>2, <1>3, <1>4, AppendProperties, SMTT(30)
<1>10. /\ g.pre[Len(f.pre) + 1] = << >> /\ g.succ[Len(f.succ) + 1] = << >>
       /\ g.code[Len(f.code) + 1] = << >>
  <2> DEFINE nil == << >>
  <2>1. /\ nil \in Seq(Nat) /\ nil \in Seq(Instructions)
        /\ g.pre = Append(f.pre, nil) /\ g.succ = Append(f.succ, nil)
        /\ g.code = Append(f.code, nil)
    BY <1>2, <1>4
  <2> HIDE DEF nil, g
  <2>2. Append(f.pre, nil)[Len(f.pre) + 1] = nil
    BY <1>1, <2>1, AppendProperties, SMTT(30)
  <2>3. Append(f.succ, nil)[Len(f.succ) + 1] = nil
    BY <1>1, <2>1, AppendProperties
  <2>4. Append(f.code, nil)[Len(f.code) + 1] = nil
    BY <1>1, <2>1, AppendProperties
  <2>5. QED
    BY <2>1, <2>2, <2>3, <2>4, Zenon DEF nil
<1>11. Blocks(g) = Blocks(f) \cup {Len(f.code) + 1} /\ Len(f.code) + 1 \notin Blocks(f)
  BY <1>3, <1>7, <1>8 DEF Blocks
<1>12. QED
  BY <1>1, <1>3, <1>6, <1>8, <1>9, <1>10, <1>11

\* BasicBlock::create keeps a function well-formed; the new block is open.
LEMMA NewBlockKeeps ==
    ASSUME NEW f, Consistent(f)
    PROVE  LET g == NewBlock(f)
           IN  /\ Consistent(g) /\ Extends(f, g)
               /\ Blocks(g) = Blocks(f) \cup {NewestBlock(f) + 1}
               /\ NewestBlock(g) = NewestBlock(f) + 1
               /\ NewestBlock(f) \in Nat
               /\ NewestBlock(f) + 1 \notin Blocks(f)
               /\ OpenBlocks(g) \subseteq OpenBlocks(f) \cup {NewestBlock(f) + 1}
<1> DEFINE g == NewBlock(f)
           n == Len(f.code) + 1
<1> USE DEF Consistent
<1>1. Extends(f, g)
  BY NewBlockFacts DEF Extends
<1>2. WellFormed(g)
  <2>1. \A b \in Blocks(g) : ToSet(g.pre[b]) \cup ToSet(g.succ[b]) \subseteq Blocks(g)
    BY NewBlockFacts, SMTT(30) DEF WellFormed, ToSet
  <2>2. ASSUME NEW b \in Blocks(g), NEW k \in DOMAIN g.code[b]
        PROVE  g.code[b][k].id = <<b, k>> /\ Refers(g, g.code[b][k])
    <3>1. b \in Blocks(f) /\ g.code[b] = f.code[b]
      BY NewBlockFacts
    <3>2. QED
      BY <1>1, <2>2, <3>1, ExtendsRefers DEF WellFormed
  <2>3. QED
    BY <2>1, <2>2, NewBlockFacts DEF WellFormed
<1>3. Agree(g)
  <2> SUFFICES ASSUME NEW b \in Blocks(g), NEW t \in Blocks(g)
               PROVE  /\ Cardinality(Occurrences(g.succ[b], t)) = Cardinality(BranchesTo(g, b, t))
                      /\ Cardinality(Occurrences(g.pre[t], b)) = Cardinality(BranchesTo(g, b, t))
    BY DEF Agree
  <2>1. CASE b \in Blocks(f) /\ t \in Blocks(f)
    BY <2>1, NewBlockFacts, SMTT(30) DEF Agree, BranchesTo
  <2>2. CASE b = n \/ t = n
    <3>1. Occurrences(g.succ[b], t) = {}
      BY <2>2, NewBlockFacts DEF Occurrences, WellFormed, ToSet
    <3>2. Occurrences(g.pre[t], b) = {}
      BY <2>2, NewBlockFacts DEF Occurrences, WellFormed, ToSet
    <3>3. BranchesTo(g, b, t) = {}
      BY <2>2, NewBlockFacts DEF BranchesTo, WellFormed, Refers
    <3>4. QED
      BY <3>1, <3>2, <3>3
  <2>3. QED
    BY <2>1, <2>2, NewBlockFacts
<1>4. OpenBlocks(g) \subseteq OpenBlocks(f) \cup {n}
  BY NewBlockFacts DEF OpenBlocks, HasTerminator
<1>5. NoWayBack(g)
  BY NewBlockFacts DEF NoWayBack
<1>6. QED
  BY <1>1, <1>2, <1>3, <1>4, <1>5, NewBlockFacts DEF NewestBlock

-----------------------------------------------------------------------------
\* Instruction::Instruction, field by field: one block's list is longer by one.
LEMMA AddFacts ==
    ASSUME NEW f, WellFormed(f), NEW b \in Blocks(f), NEW i \in Instructions
    PROVE  LET g == AddInstruction(f, b, i)
               j == [i EXCEPT !.id = NextPlace(f, b)]
           IN  /\ g \in FunctionRecords
               /\ g.pre = f.pre /\ g.succ = f.succ
               /\ Len(g.code) = Len(f.code)
               /\ Blocks(g) = Blocks(f)
               /\ j \in Instructions
               /\ f.code[b] \in Seq(Instructions)
               /\ NextPlace(f, b) = <<b, Len(f.code[b]) + 1>>
               /\ NextPlace(f, b) \in Operands
               /\ g.code[b] = Append(f.code[b], j)
               /\ \A c \in Blocks(f) : c # b => g.code[c] = f.code[c]
<1> DEFINE g == AddInstruction(f, b, i)
           j == [i EXCEPT !.id = NextPlace(f, b)]
<1>1. /\ f \in FunctionRecords
      /\ f.code \in Seq(Seq(Instructions))
  BY DEF WellFormed, FunctionRecords
<1>2. Len(f.code) \in Nat /\ Blocks(f) = 1..Len(f.code)
  BY <1>1, LenProperties DEF Blocks
<1>3. f.code[b] \in Seq(Instructions)
  BY <1>1, <1>2, ElementOfSeq
<1>4. Len(f.code[b]) \in Nat
  BY <1>3, LenProperties
<1>5. NextPlace(f, b) = <<b, Len(f.code[b]) + 1>> /\ NextPlace(f, b) \in Operands
  BY <1>2, <1>4 DEF NextPlace, Operands
<1>6. j \in Instructions
  BY <1>5 DEF Instructions
<1>7. Append(f.code[b], j) \in Seq(Instructions)
  BY <1>3, <1>6, AppendProperties
<1>8. g = [f EXCEPT !.code = [f.code EXCEPT ![b] = Append(f.code[b], j)]]
  BY DEF AddInstruction
<1> DEFINE new == [f.code EXCEPT ![b] = Append(f.code[b], j)]
<1>9. /\ new \in Seq(Seq(Instructions))
      /\ Len(new) = Len(f.code)
      /\ \A c \in 1..Len(f.code) : new[c] = IF c = b THEN Append(f.code[b], j) ELSE f.code[c]
  BY <1>1, <1>2, <1>7, ExceptSeq
<1>10. g.code = new /\ g.pre = f.pre /\ g.succ = f.succ /\ g \in FunctionRecords
  <2> HIDE DEF new, g
  <2>1. QED
    BY <1>1, <1>8, <1>9 DEF FunctionRecords, new
<1>11. Blocks(g) = Blocks(f)
  <2> HIDE DEF new, g
  <2>1. QED
    BY <1>2, <1>9, <1>10, LenProperties DEF Blocks
<1>12. QED
  <2> HIDE DEF new, g, j
  <2>1. /\ g \in FunctionRecords
        /\ g.pre = f.pre /\ g.succ = f.succ
        /\ Len(g.code) = Len(f.code)
        /\ Blocks(g) = Blocks(f)
        /\ j \in Instructions
        /\ f.code[b] \in Seq(Instructions)
        /\ NextPlace(f, b) = <<b, Len(f.code[b]) + 1>>
        /\ NextPlace(f, b) \in Operands
        /\ g.code[b] = Append(f.code[b], j)
        /\ \A c \in Blocks(f) : c # b => g.code[c] = f.code[c]
    BY <1>2, <1>3, <1>5, <1>6, <1>9, <1>10, <1>11
  <2>2. QED
    BY <2>1 DEF g, j

\* The new instruction has a place, and all that was there keeps its own.
LEMMA AddExtends ==
    ASSUME NEW f, WellFormed(f), NEW b \in Blocks(f), NEW i \in Instructions
    PROVE  /\ Extends(f, AddInstruction(f, b, i))
           /\ IsPlace(AddInstruction(f, b, i), NextPlace(f, b))
<1> DEFINE g == AddInstruction(f, b, i)
           j == [i EXCEPT !.id = NextPlace(f, b)]
<1>1. /\ Blocks(g) = Blocks(f)
      /\ j \in Instructions
      /\ f.code[b] \in Seq(Instructions)
      /\ NextPlace(f, b) = <<b, Len(f.code[b]) + 1>>
      /\ g.code[b] = Append(f.code[b], j)
      /\ \A c \in Blocks(f) : c # b => g.code[c] = f.code[c]
  BY AddFacts
<1> HIDE DEF g, j
<1>2. /\ DOMAIN f.code[b] = 1..Len(f.code[b]) /\ Len(f.code[b]) \in Nat
      /\ Append(f.code[b], j) \in Seq(Instructions)
      /\ Len(Append(f.code[b], j)) = Len(f.code[b]) + 1
      /\ \A k \in 1..Len(f.code[b]) : Append(f.code[b], j)[k] = f.code[b][k]
  BY <1>1, LenProperties, AppendProperties
<1>3. DOMAIN Append(f.code[b], j) = 1..(Len(f.code[b]) + 1)
  BY <1>2, LenProperties
<1>4. /\ DOMAIN f.code[b] \subseteq DOMAIN g.code[b]
      /\ \A k \in DOMAIN f.code[b] : g.code[b][k] = f.code[b][k]
      /\ Len(f.code[b]) + 1 \in DOMAIN g.code[b]
  BY <1>1, <1>2, <1>3
<1>5. Extends(f, g)
  BY <1>1, <1>4 DEF Extends
<1>6. IsPlace(g, NextPlace(f, b))
  BY <1>1, <1>4 DEF IsPlace
<1>7. QED
  BY <1>5, <1>6 DEF g

\* An instruction that refers to what f has may be added to f.
LEMMA RefersLater ==
    ASSUME NEW f, WellFormed(f), NEW b \in Blocks(f),
           NEW i \in Instructions, Refers(f, i)
    PROVE  Refers(AddInstruction(f, b, i), i)
BY AddExtends, ExtendsRefers

\* Instruction::Instruction: an instruction at the end of b.  It may refer to
\* itself, as an alloca does.
LEMMA AddKeeps ==
    ASSUME NEW f, WellFormed(f), NEW b \in Blocks(f),
           NEW i \in Instructions, Refers(AddInstruction(f, b, i), i)
    PROVE  LET g == AddInstruction(f, b, i)
           IN  /\ WellFormed(g) /\ Extends(f, g)
               /\ Blocks(g) = Blocks(f)
               /\ g.pre = f.pre /\ g.succ = f.succ
               /\ NextPlace(f, b) \in Operands
               /\ IsPlace(g, NextPlace(f, b))
               /\ NextPlace(f, b) # Global
               /\ g.code[NextPlace(f, b)[1]][NextPlace(f, b)[2]].op = i.op
               /\ OpenBlocks(g) \subseteq OpenBlocks(f) \cup {b}
               /\ IsTerminator(i) => OpenBlocks(g) \subseteq OpenBlocks(f) \ {b}
               /\ \A c, t \in Blocks(f) :
                     /\ Cardinality(BranchesTo(f, c, t)) \in Nat
                     /\ Cardinality(BranchesTo(g, c, t)) =
                          Cardinality(BranchesTo(f, c, t))
                              + (IF c = b /\ t \in ToSet(i.to) THEN 1 ELSE 0)
<1> DEFINE g == AddInstruction(f, b, i)
           j == [i EXCEPT !.id = NextPlace(f, b)]
           n == Len(f.code[b]) + 1
<1>1. /\ g \in FunctionRecords
      /\ g.pre = f.pre /\ g.succ = f.succ
      /\ Len(g.code) = Len(f.code)
      /\ Blocks(g) = Blocks(f)
      /\ j \in Instructions
      /\ f.code[b] \in Seq(Instructions)
      /\ NextPlace(f, b) = <<b, n>>
      /\ NextPlace(f, b) \in Operands
      /\ g.code[b] = Append(f.code[b], j)
      /\ \A c \in Blocks(f) : c # b => g.code[c] = f.code[c]
  BY AddFacts
<1>2. /\ j.id = <<b, n>> /\ j.op = i.op /\ j.to = i.to
      /\ j.var = i.var /\ j.args = i.args
  BY <1>1 DEF Instructions
<1> HIDE DEF g, j
<1>3. /\ n \in Nat /\ n \notin DOMAIN f.code[b]
      /\ DOMAIN g.code[b] = DOMAIN f.code[b] \cup {n}
      /\ \A k \in DOMAIN f.code[b] : g.code[b][k] = f.code[b][k]
      /\ g.code[b][n] = j
      /\ Len(g.code[b]) = n
      /\ g.code[b] # << >>
  <2>1. Len(f.code[b]) \in Nat /\ DOMAIN f.code[b] = 1..Len(f.code[b])
    BY <1>1, LenProperties
  <2>2. /\ Append(f.code[b], j) # << >>
        /\ Append(f.code[b], j) \in Seq(Instructions)
        /\ Len(Append(f.code[b], j)) = n
        /\ \A k \in 1..Len(f.code[b]) : Append(f.code[b], j)[k] = f.code[b][k]
        /\ Append(f.code[b], j)[n] = j
    BY <1>1, AppendProperties, SMTT(30)
  <2>3. DOMAIN Append(f.code[b], j) = 1..n
    BY <2>2, LenProperties
  <2>4. QED
    BY <1>1, <2>1, <2>2, <2>3, SMTT(30)
<1>4. Extends(f, g)
  BY <1>1, <1>3 DEF Extends
<1>5. WellFormed(g)
  <2>1. ASSUME NEW c \in Blocks(g), NEW k \in DOMAIN g.code[c]
        PROVE  g.code[c][k].id = <<c, k>> /\ Refers(g, g.code[c][k])
    <3>1. CASE c = b /\ k = n
      <4>1. Refers(g, i)
        BY DEF g
      <4>2. QED
        BY <3>1, <4>1, <1>2, <1>3 DEF Refers
    <3>2. CASE ~(c = b /\ k = n)
      <4>1. c \in Blocks(f) /\ k \in DOMAIN f.code[c] /\ g.code[c][k] = f.code[c][k]
        <5>1. CASE c = b
          BY <1>3, <2>1, <3>2, <5>1
        <5>2. CASE c # b
          BY <1>1, <2>1, <5>2
        <5>3. QED
          BY <5>1, <5>2
      <4>2. QED
        BY <4>1, <1>4, ExtendsRefers DEF WellFormed
    <3>3. QED
      BY <3>1, <3>2
  <2>2. QED
    BY <1>1, <2>1 DEF WellFormed
<1>6. IsPlace(g, NextPlace(f, b)) /\ NextPlace(f, b) # Global
  <2>1. NextPlace(f, b)[1] = b /\ NextPlace(f, b)[2] = n /\ NextPlace(f, b) # Global
    BY <1>1, <1>3 DEF Global
  <2>2. QED
    BY <1>1, <1>3, <2>1 DEF IsPlace
<1>7. g.code[NextPlace(f, b)[1]][NextPlace(f, b)[2]].op = i.op
  BY <1>1, <1>2, <1>3
<1>8. /\ OpenBlocks(g) \subseteq OpenBlocks(f) \cup {b}
      /\ IsTerminator(i) => OpenBlocks(g) \subseteq OpenBlocks(f) \ {b}
  <2>1. \A c \in Blocks(f) : c # b => (HasTerminator(g, c) <=> HasTerminator(f, c))
    BY <1>1 DEF HasTerminator
  <2>2. IsTerminator(i) => HasTerminator(g, b)
    BY <1>2, <1>3 DEF HasTerminator, IsTerminator, Last
  <2>3. QED
    BY <1>1, <2>1, <2>2 DEF OpenBlocks
<1>9. ASSUME NEW c \in Blocks(f), NEW t \in Blocks(f)
      PROVE  /\ Cardinality(BranchesTo(f, c, t)) \in Nat
             /\ Cardinality(BranchesTo(g, c, t)) =
                   Cardinality(BranchesTo(f, c, t))
                       + (IF c = b /\ t \in ToSet(i.to) THEN 1 ELSE 0)
  <2> DEFINE T == {x \in Instructions : t \in ToSet(x.to)}
  <2>1. f.code[c] \in Seq(Instructions) /\ g.code[c] \in Seq(Instructions)
    BY <1>1, ElementOfSeq, LenProperties DEF WellFormed, FunctionRecords, Blocks
  <2>2. BranchesTo(f, c, t) = Places(f.code[c], T) /\ BranchesTo(g, c, t) = Places(g.code[c], T)
    <3>1. /\ \A k \in DOMAIN f.code[c] : f.code[c][k] \in Instructions
          /\ \A k \in DOMAIN g.code[c] : g.code[c][k] \in Instructions
      BY <2>1, ElementOfSeq, LenProperties
    <3>2. QED
      BY <3>1 DEF BranchesTo, Places
  <2>3. j \in T <=> t \in ToSet(i.to)
    BY <1>1, <1>2
  <2> HIDE DEF T
  <2>4. Cardinality(Places(f.code[c], T)) \in Nat
    BY <1>1, <2>1, CountAppend, SMTT(30)
  <2>5. c = b => Cardinality(Places(g.code[c], T)) =
                    Cardinality(Places(f.code[c], T)) + (IF j \in T THEN 1 ELSE 0)
    <3>1. Cardinality(Places(Append(f.code[b], j), T)) =
              Cardinality(Places(f.code[b], T)) + (IF j \in T THEN 1 ELSE 0)
      BY <1>1, CountAppend
    <3>2. QED
      BY <1>1, <3>1
  <2>6. QED
    BY <1>1, <2>2, <2>3, <2>4, <2>5
<1>10. QED
  BY <1>1, <1>4, <1>5, <1>6, <1>7, <1>8, <1>9 DEF g

\* Any instruction but a branch leaves the edges as they are.
LEMMA AddKeepsConsistent ==
    ASSUME NEW f, Consistent(f), NEW b \in Blocks(f),
           NEW i \in Instructions, i.to = << >>, Refers(AddInstruction(f, b, i), i)
    PROVE  Consistent(AddInstruction(f, b, i))
<1> DEFINE g == AddInstruction(f, b, i)
<1>1. /\ WellFormed(g) /\ Blocks(g) = Blocks(f)
      /\ g.pre = f.pre /\ g.succ = f.succ
      /\ \A c, t \in Blocks(f) :
            /\ Cardinality(BranchesTo(f, c, t)) \in Nat
            /\ Cardinality(BranchesTo(g, c, t)) =
                   Cardinality(BranchesTo(f, c, t))
                       + (IF c = b /\ t \in ToSet(i.to) THEN 1 ELSE 0)
  BY AddKeeps DEF Consistent
<1> HIDE DEF g
<1>2. ToSet(i.to) = {}
  BY DEF ToSet
<1>3. Agree(g)
  BY <1>1, <1>2 DEF Agree, Consistent
<1>4. NoWayBack(g)
  BY <1>1 DEF NoWayBack, Consistent
<1>5. QED
  BY <1>1, <1>3, <1>4 DEF Consistent, g

-----------------------------------------------------------------------------
\* A list of lists of blocks in which b has been appended to the t-th.
Longer(lists, t, b) == [lists EXCEPT ![t] = Append(@, b)]

IsLonger(new, lists, t, b) ==
    /\ new \in Seq(Seq(Nat))
    /\ Len(new) = Len(lists)
    /\ \A c : c # t => new[c] = lists[c]
    /\ \A c \in 1..Len(lists) : ToSet(new[c]) \subseteq ToSet(lists[c]) \cup {b}
    /\ \A u \in 1..Len(lists) : \A c :
          /\ Cardinality(Occurrences(lists[u], c)) \in Nat
          /\ Cardinality(Occurrences(new[u], c)) =
                Cardinality(Occurrences(lists[u], c)) + (IF u = t /\ c = b THEN 1 ELSE 0)

\* push_back on one of the lists of a function.
LEMMA AppendAt ==
    ASSUME NEW lists \in Seq(Seq(Nat)), NEW t \in 1..Len(lists), NEW b \in Nat
    PROVE  IsLonger(Longer(lists, t, b), lists, t, b)
<1> DEFINE new == Longer(lists, t, b)
<1> USE DEF Longer
<1> DEFINE app == Append(lists[t], b)
<1>1. \A c \in 1..Len(lists) : lists[c] \in Seq(Nat)
  BY ElementOfSeq
<1>2. app \in Seq(Nat)
  BY <1>1, AppendProperties
<1>3. new = [lists EXCEPT ![t] = app]
  OBVIOUS
<1>4. \A c : c # t => new[c] = lists[c]
  OBVIOUS
<1>5. /\ new \in Seq(Seq(Nat))
      /\ Len(new) = Len(lists)
      /\ new[t] = app
  BY <1>2, <1>3, ExceptSeq
<1>6. ASSUME NEW c \in 1..Len(lists)
      PROVE  ToSet(new[c]) \subseteq ToSet(lists[c]) \cup {b}
  <2>1. CASE c # t
    BY <1>4, <2>1
  <2>2. CASE c = t
    <3> HIDE DEF app
    <3>1. /\ Len(lists[t]) \in Nat /\ DOMAIN lists[t] = 1..Len(lists[t])
          /\ \A m \in 1..Len(lists[t]) : app[m] = lists[t][m]
          /\ app[Len(lists[t]) + 1] = b
          /\ DOMAIN app = 1..(Len(lists[t]) + 1)
      BY <1>1, <1>2, AppendProperties, LenProperties DEF app
    <3>2. new[c] = app
      BY <1>5, <2>2
    <3> HIDE DEF Longer, new
    <3>3. QED
      BY <2>2, <3>1, <3>2 DEF ToSet
  <2>3. QED
    BY <2>1, <2>2
<1>7. ASSUME NEW u \in 1..Len(lists), NEW c
      PROVE  /\ Cardinality(Occurrences(lists[u], c)) \in Nat
             /\ Cardinality(Occurrences(new[u], c)) =
                   Cardinality(Occurrences(lists[u], c)) + (IF u = t /\ c = b THEN 1 ELSE 0)
  <2>1. /\ Cardinality(Occurrences(lists[u], c)) \in Nat
        /\ Cardinality(Occurrences(Append(lists[u], b), c)) =
              Cardinality(Occurrences(lists[u], c)) + (IF c = b THEN 1 ELSE 0)
    <3>1. lists[u] \in Seq(Nat)
      BY <1>1
    <3>2. QED
      BY <3>1, OccurrencesAppend
  <2>2. CASE u = t
    BY <1>5, <2>1, <2>2
  <2>3. CASE u # t
    BY <1>4, <2>1, <2>3
  <2>4. QED
    BY <2>2, <2>3
<1>8. QED
  BY <1>4, <1>5, <1>6, <1>7 DEF IsLonger

\* The blocks of a function are numbered from 1, in each of its three lists.
LEMMA BlocksFacts ==
    ASSUME NEW f, WellFormed(f)
    PROVE  /\ Blocks(f) = 1..Len(f.code) /\ Len(f.code) \in Nat
           /\ Blocks(f) \subseteq Nat
           /\ Blocks(f) = 1..Len(f.pre) /\ Blocks(f) = 1..Len(f.succ)
           /\ f.pre \in Seq(Seq(Nat)) /\ f.succ \in Seq(Seq(Nat))
           /\ f.code \in Seq(Seq(Instructions))
BY LenProperties DEF Blocks, WellFormed, FunctionRecords

PreAdded(f, t, b, g) ==
    /\ WellFormed(g) /\ Extends(f, g)
    /\ Blocks(g) = Blocks(f)
    /\ g.succ = f.succ /\ g.code = f.code
    /\ t # Entry => g.pre[Entry] = f.pre[Entry]
    /\ \A c, u \in Blocks(f) :
          /\ Cardinality(Occurrences(f.pre[u], c)) \in Nat
          /\ Cardinality(Occurrences(g.pre[u], c)) =
                Cardinality(Occurrences(f.pre[u], c))
                    + (IF u = t /\ c = b THEN 1 ELSE 0)

\* add_pre_basic_block adds one predecessor and changes nothing else.
LEMMA AddPreFacts ==
    ASSUME NEW f, WellFormed(f), NEW t \in Blocks(f), NEW b \in Blocks(f)
    PROVE  PreAdded(f, t, b, AddPre(f, t, b))
<1> DEFINE g == AddPre(f, t, b)
           new == Longer(f.pre, t, b)
<1>1. g = [f EXCEPT !.pre = new]
  BY DEF AddPre, Longer
<1>2. IsLonger(new, f.pre, t, b)
  BY BlocksFacts, AppendAt
<1> HIDE DEF new, g
<1>3. /\ g.pre = new /\ g.succ = f.succ /\ g.code = f.code
      /\ g \in FunctionRecords
      /\ Blocks(g) = Blocks(f)
  BY <1>1, <1>2 DEF FunctionRecords, WellFormed, Blocks, IsLonger
<1>4. Extends(f, g)
  BY <1>3 DEF Extends
<1>5. WellFormed(g)
  <2>1. \A c \in Blocks(g) : \A k \in DOMAIN g.code[c] :
            g.code[c][k].id = <<c, k>> /\ Refers(g, g.code[c][k])
    BY <1>3, <1>4, ExtendsRefers DEF WellFormed
  <2>2. QED
    BY <1>2, <1>3, <2>1, BlocksFacts, ZenonT(30) DEF WellFormed, IsLonger
<1>6. QED
  BY <1>2, <1>3, <1>4, <1>5, BlocksFacts DEF g, IsLonger, PreAdded

SuccAdded(f, t, b, g) ==
    /\ WellFormed(g) /\ Extends(f, g)
    /\ Blocks(g) = Blocks(f)
    /\ g.pre = f.pre /\ g.code = f.code
    /\ \A c, u \in Blocks(f) :
          /\ Cardinality(Occurrences(f.succ[c], u)) \in Nat
          /\ Cardinality(Occurrences(g.succ[c], u)) =
                Cardinality(Occurrences(f.succ[c], u))
                    + (IF u = t /\ c = b THEN 1 ELSE 0)

\* add_succ_basic_block adds one successor and changes nothing else.
LEMMA AddSuccFacts ==
    ASSUME NEW f, WellFormed(f), NEW t \in Blocks(f), NEW b \in Blocks(f)
    PROVE  SuccAdded(f, t, b, AddSucc(f, b, t))
<1> DEFINE g == AddSucc(f, b, t)
           new == Longer(f.succ, b, t)
<1>1. g = [f EXCEPT !.succ = new]
  BY DEF AddSucc, Longer
<1>2. IsLonger(new, f.succ, b, t)
  BY BlocksFacts, AppendAt
<1> HIDE DEF new, g
<1>3. /\ g.pre = f.pre /\ g.succ = new /\ g.code = f.code
      /\ g \in FunctionRecords
      /\ Blocks(g) = Blocks(f)
  BY <1>1, <1>2 DEF FunctionRecords, WellFormed, Blocks, IsLonger
<1>4. Extends(f, g)
  BY <1>3 DEF Extends
<1>5. WellFormed(g)
  <2>1. \A c \in Blocks(g) : \A k \in DOMAIN g.code[c] :
            g.code[c][k].id = <<c, k>> /\ Refers(g, g.code[c][k])
    BY <1>3, <1>4, ExtendsRefers DEF WellFormed
  <2>2. QED
    BY <1>2, <1>3, <2>1, BlocksFacts, ZenonT(30) DEF WellFormed, IsLonger
<1>6. QED
  BY <1>2, <1>3, <1>4, <1>5, BlocksFacts DEF g, IsLonger, SuccAdded

\* What the constructor of a branch from b leaves is consistent, if the edges
\* in pre_bbs_ and succ_bbs_ have grown by one for each of its targets.
LEMMA BranchConsistent ==
    ASSUME NEW f, Consistent(f), NEW b \in Blocks(f), NEW i \in Instructions,
           Refers(f, i), IsTerminator(i), Entry \notin ToSet(i.to),
           NEW h, WellFormed(h), Extends(f, h), Blocks(h) = Blocks(f), h.code = f.code,
           h.pre[Entry] = f.pre[Entry],
           \A c, t \in Blocks(f) :
               /\ Cardinality(Occurrences(h.succ[c], t)) =
                     Cardinality(Occurrences(f.succ[c], t))
                         + (IF c = b /\ t \in ToSet(i.to) THEN 1 ELSE 0)
               /\ Cardinality(Occurrences(h.pre[t], c)) =
                     Cardinality(Occurrences(f.pre[t], c))
                         + (IF c = b /\ t \in ToSet(i.to) THEN 1 ELSE 0)
    PROVE  LET g == AddInstruction(h, b, i)
           IN  /\ Consistent(g) /\ Extends(f, g)
               /\ Blocks(g) = Blocks(f)
               /\ OpenBlocks(g) \subseteq OpenBlocks(f) \ {b}
<1> DEFINE g == AddInstruction(h, b, i)
<1>1. Refers(g, i)
  BY ExtendsRefers, RefersLater
<1>2. /\ WellFormed(g) /\ Extends(h, g)
      /\ Blocks(g) = Blocks(h)
      /\ g.pre = h.pre /\ g.succ = h.succ
      /\ OpenBlocks(g) \subseteq OpenBlocks(h) \ {b}
      /\ \A c, t \in Blocks(h) :
            /\ Cardinality(BranchesTo(h, c, t)) \in Nat
            /\ Cardinality(BranchesTo(g, c, t)) =
                   Cardinality(BranchesTo(h, c, t))
                       + (IF c = b /\ t \in ToSet(i.to) THEN 1 ELSE 0)
  BY <1>1, AddKeeps
<1> HIDE DEF g
<1>3. OpenBlocks(h) = OpenBlocks(f)
  BY DEF OpenBlocks, HasTerminator
<1>4. \A c, t \in Blocks(f) : BranchesTo(h, c, t) = BranchesTo(f, c, t)
  BY DEF BranchesTo
<1>5. Agree(g)
  BY <1>2, <1>4 DEF Agree, Consistent
<1>6. NoWayBack(g)
  BY <1>2 DEF NoWayBack, Consistent
<1>7. Extends(f, g)
  BY <1>2, ExtendsTransitive
<1>8. QED
  BY <1>2, <1>3, <1>5, <1>6, <1>7 DEF Consistent, g

\* create_br.
LEMMA CreateBrKeeps ==
    ASSUME NEW f, Consistent(f), NEW b \in Blocks(f), NEW t \in Blocks(f) \ {Entry}
    PROVE  LET g == CreateBr(f, b, t)
           IN  /\ Consistent(g) /\ Extends(f, g)
               /\ Blocks(g) = Blocks(f)
               /\ OpenBlocks(g) \subseteq OpenBlocks(f) \ {b}
<1> DEFINE p == AddPre(f, t, b)
           h == AddSucc(p, b, t)
           i == Br(t)
<1>1. /\ i \in Instructions /\ i.to = <<t>> /\ IsTerminator(i)
      /\ ToSet(i.to) = {t} /\ Refers(f, i)
  <2>1. i = [id |-> Global, op |-> "br", to |-> <<t>>, var |-> Global, args |-> << >>]
    BY DEF Br, Instruction
  <2>2. <<t>> \in Seq(Nat) /\ << >> \in Seq(Operands) /\ Global \in Operands
    BY BlocksFacts, EmptySeq DEF Consistent, Global, Operands
  <2>3. ToSet(<<t>>) = {t} /\ ToSet(<< >>) = {}
    BY DEF ToSet
  <2>4. QED
    BY <2>1, <2>2, <2>3 DEF Instructions, Opcodes, IsTerminator, Refers, IsPlace
<1>2. CreateBr(f, b, t) = AddInstruction(h, b, i)
  BY DEF CreateBr
<1> HIDE DEF p, h, i
<1>3. PreAdded(f, t, b, p)
  BY AddPreFacts DEF Consistent, p
<1>4. SuccAdded(p, t, b, h)
  BY <1>3, AddSuccFacts DEF h, PreAdded
<1>5. Extends(f, h)
  BY <1>3, <1>4, ExtendsTransitive DEF PreAdded, SuccAdded
<1>6. \A d, u \in Blocks(f) :
          /\ Cardinality(Occurrences(h.succ[d], u)) =
                Cardinality(Occurrences(f.succ[d], u))
                    + (IF d = b /\ u \in ToSet(i.to) THEN 1 ELSE 0)
          /\ Cardinality(Occurrences(h.pre[u], d)) =
                Cardinality(Occurrences(f.pre[u], d))
                    + (IF d = b /\ u \in ToSet(i.to) THEN 1 ELSE 0)
  BY <1>1, <1>3, <1>4 DEF PreAdded, SuccAdded
<1>7. /\ WellFormed(h) /\ Blocks(h) = Blocks(f) /\ h.code = f.code
      /\ h.pre[Entry] = f.pre[Entry]
  BY <1>3, <1>4 DEF PreAdded, SuccAdded
<1>8. QED
  BY <1>1, <1>2, <1>5, <1>6, <1>7, BranchConsistent

\* create_cond_br, to two blocks.
LEMMA CreateCondBrKeeps ==
    ASSUME NEW f, Consistent(f), NEW b \in Blocks(f), NEW c \in Operands, IsValue(f, c),
           NEW t \in Blocks(f) \ {Entry}, NEW e \in Blocks(f) \ {Entry}, t # e
    PROVE  LET g == CreateCondBr(f, b, c, t, e)
           IN  /\ Consistent(g) /\ Extends(f, g)
               /\ Blocks(g) = Blocks(f)
               /\ OpenBlocks(g) \subseteq OpenBlocks(f) \ {b}
<1> DEFINE p == AddPre(f, t, b)
           q == AddPre(p, e, b)
           r == AddSucc(q, b, e)
           h == AddSucc(r, b, t)
           i == CondBr(c, t, e)
<1>1. /\ i \in Instructions /\ IsTerminator(i)
      /\ ToSet(i.to) = {t, e} /\ Refers(f, i)
  <2>1. i = [id |-> Global, op |-> "br", to |-> <<t, e>>, var |-> Global, args |-> <<c>>]
    BY DEF CondBr, Instruction
  <2>2. <<t, e>> \in Seq(Nat) /\ <<c>> \in Seq(Operands) /\ Global \in Operands
    BY BlocksFacts DEF Consistent, Global, Operands
  <2>3. ToSet(<<t, e>>) = {t, e} /\ ToSet(<<c>>) = {c}
    BY DEF ToSet
  <2>4. QED
    BY <2>1, <2>2, <2>3 DEF Instructions, Opcodes, IsTerminator, Refers, IsPlace
<1>2. CreateCondBr(f, b, c, t, e) = AddInstruction(h, b, i)
  BY DEF CreateCondBr
<1> HIDE DEF p, q, r, h, i
<1>3. PreAdded(f, t, b, p)
  BY AddPreFacts DEF Consistent, p
<1>4. PreAdded(p, e, b, q)
  <2>1. WellFormed(p) /\ e \in Blocks(p) /\ b \in Blocks(p)
    BY <1>3 DEF PreAdded
  <2>2. QED
    BY <2>1, AddPreFacts DEF q
<1>5. SuccAdded(q, e, b, r)
  BY <1>3, <1>4, AddSuccFacts DEF r, PreAdded
<1>6. SuccAdded(r, t, b, h)
  BY <1>3, <1>4, <1>5, AddSuccFacts DEF h, PreAdded, SuccAdded
<1>7. /\ WellFormed(h) /\ Blocks(h) = Blocks(f) /\ h.code = f.code
      /\ h.pre[Entry] = f.pre[Entry]
  BY <1>3, <1>4, <1>5, <1>6 DEF PreAdded, SuccAdded
<1>8. Extends(f, h)
  BY <1>3, <1>4, <1>5, <1>6, ExtendsTransitive DEF PreAdded, SuccAdded
<1>9. ASSUME NEW d \in Blocks(f), NEW u \in Blocks(f)
      PROVE  /\ Cardinality(Occurrences(h.succ[d], u)) =
                   Cardinality(Occurrences(f.succ[d], u))
                       + (IF d = b /\ u \in ToSet(i.to) THEN 1 ELSE 0)
             /\ Cardinality(Occurrences(h.pre[u], d)) =
                   Cardinality(Occurrences(f.pre[u], d))
                       + (IF d = b /\ u \in ToSet(i.to) THEN 1 ELSE 0)
  <2>1. Blocks(p) = Blocks(f) /\ Blocks(q) = Blocks(f) /\ Blocks(r) = Blocks(f)
    BY <1>3, <1>4, <1>5 DEF PreAdded, SuccAdded
  <2>2. /\ Cardinality(Occurrences(f.pre[u], d)) \in Nat
        /\ Cardinality(Occurrences(p.pre[u], d)) =
              Cardinality(Occurrences(f.pre[u], d)) + (IF u = t /\ d = b THEN 1 ELSE 0)
        /\ Cardinality(Occurrences(q.pre[u], d)) =
              Cardinality(Occurrences(p.pre[u], d)) + (IF u = e /\ d = b THEN 1 ELSE 0)
        /\ h.pre = q.pre
    BY <2>1, <1>3, <1>4, <1>5, <1>6 DEF PreAdded, SuccAdded
  <2>3. /\ Cardinality(Occurrences(f.succ[d], u)) \in Nat
        /\ Cardinality(Occurrences(r.succ[d], u)) =
              Cardinality(Occurrences(f.succ[d], u)) + (IF u = e /\ d = b THEN 1 ELSE 0)
        /\ Cardinality(Occurrences(h.succ[d], u)) =
              Cardinality(Occurrences(r.succ[d], u)) + (IF u = t /\ d = b THEN 1 ELSE 0)
    BY <2>1, <1>3, <1>4, <1>5, <1>6 DEF PreAdded, SuccAdded
  <2>4. QED
    BY <1>1, <2>2, <2>3
<1>10. QED
  BY <1>1, <1>2, <1>7, <1>8, <1>9, BranchConsistent

-----------------------------------------------------------------------------
\* The count of a block among the predecessors or successors is a number.
LEMMA OccurrencesCount ==
    ASSUME NEW s \in Seq(Nat), NEW x
    PROVE  Cardinality(Occurrences(s, x)) = 0 <=> x \notin ToSet(s)
<1>1. Len(s) \in Nat /\ DOMAIN s = 1..Len(s)
  BY LenProperties
<1>2. IsFiniteSet(Occurrences(s, x))
  <2>1. 1 \in Int /\ Len(s) \in Int
    BY <1>1
  <2>2. IsFiniteSet(1..Len(s))
    BY <2>1, FS_Interval, Zenon
  <2>3. Occurrences(s, x) \subseteq 1..Len(s)
    BY <1>1 DEF Occurrences
  <2>4. QED
    BY <2>2, <2>3, FS_Subset
<1>3. Cardinality(Occurrences(s, x)) = 0 <=> Occurrences(s, x) = {}
  BY <1>2, FS_EmptySet
<1>4. Occurrences(s, x) = {} <=> x \notin ToSet(s)
  BY DEF Occurrences, ToSet
<1>5. QED
  BY <1>3, <1>4

\* The values of a function with a finite domain.
LEMMA ValuesFinite ==
    ASSUME NEW S, IsFiniteSet(S), NEW F, DOMAIN F = S
    PROVE  IsFiniteSet({F[x] : x \in S})
<1> DEFINE T == {F[x] : x \in S}
           G == [x \in S |-> F[x]]
<1>1. G \in Surjection(S, T)
  BY DEF Surjection
<1> HIDE DEF G, T
<1>2. QED
  BY <1>1, FS_Surjection DEF T

-----------------------------------------------------------------------------
(* Reachability and dominance: ReachAvoiding, a recursive function that    *)
(* grows a set until it is closed under the successors, gives the least    *)
(* closed set, and Dominates can be read off a certificate, a set of       *)
(* dominators for every block that the edges respect.                      *)

\* A nonempty family of subsets of a finite set has a member that no other
\* contains.
LEMMA MaximalMember ==
    ASSUME NEW U, IsFiniteSet(U), NEW F \in SUBSET SUBSET U, F # {}
    PROVE  \E S \in F : \A T \in F : S \subseteq T => T = S
<1> DEFINE C == {U \ S : S \in F}
<1>1. IsWellFoundedOn(StrictSubsetOrdering(U), FiniteSubsetsOf(U))
  BY FS_StrictSubsetOrderingWellFounded
<1>2. FiniteSubsetsOf(U) = SUBSET U
  BY FS_FiniteSubsetsOfFinite
<1>3. C \subseteq FiniteSubsetsOf(U) /\ C # {}
  <2>1. \A S \in F : U \ S \in FiniteSubsetsOf(U)
    BY <1>2
  <2>2. C \subseteq FiniteSubsetsOf(U)
    BY <2>1
  <2>3. PICK S \in F : TRUE
    OBVIOUS
  <2>4. U \ S \in C
    OBVIOUS
  <2>5. QED
    BY <2>2, <2>4
<1>4. PICK c \in C : \A y \in C : ~(<<y, c>> \in StrictSubsetOrdering(U))
  <2> HIDE DEF C
  <2>1. QED
    BY <1>1, <1>3, WFMin
<1>5. PICK S \in F : c = U \ S
  OBVIOUS
<1>6. ASSUME NEW T \in F, S \subseteq T, T # S
      PROVE  FALSE
  <2>1. U \ T \in C /\ U \ T \subseteq U \ S /\ U \ T # U \ S
    BY <1>6
  <2>2. <<U \ T, U \ S>> \in StrictSubsetOrdering(U)
    BY <2>1 DEF StrictSubsetOrdering
  <2>3. QED
    BY <1>4, <1>5, <2>1, <2>2
<1>7. QED
  BY <1>6

-----------------------------------------------------------------------------
\* One round of a search along next that does not enter avoid.
Grown(S, next, avoid) == (S \cup UNION {next[b] : b \in S}) \ avoid

\* A search that goes on until a round finds nothing new.
Searches(R, U, next, avoid) ==
    R = [S \in SUBSET U |->
            IF Grown(S, next, avoid) = S THEN S ELSE R[Grown(S, next, avoid)]]

\* What the search may never leave.
Closed(C, next, avoid) == \A b \in C : next[b] \subseteq C \cup avoid

\* The least closed set above S.
Least(S, U, next, avoid) ==
    {x \in U : \A C \in SUBSET U : S \subseteq C /\ Closed(C, next, avoid) => x \in C}

\* It is closed, and a round of the search stays inside it.
LEMMA LeastFacts ==
    ASSUME NEW U, NEW next \in [U -> SUBSET U], NEW avoid, NEW S \in SUBSET U
    PROVE  /\ S \subseteq Least(S, U, next, avoid)
           /\ Closed(Least(S, U, next, avoid), next, avoid)
           /\ Grown(S, next, avoid) \in SUBSET (U \ avoid)
           /\ S \cap avoid = {} =>
                 /\ S \subseteq Grown(S, next, avoid)
                 /\ Grown(S, next, avoid) = S => Least(S, U, next, avoid) = S
                 /\ Least(Grown(S, next, avoid), U, next, avoid) = Least(S, U, next, avoid)
<1> DEFINE G == Grown(S, next, avoid)
           L == Least(S, U, next, avoid)
<1>1. S \subseteq L
  BY DEF Least
<1>2. Closed(L, next, avoid)
  <2> SUFFICES ASSUME NEW b \in L, NEW t \in next[b], t \notin avoid,
                      NEW C \in SUBSET U, S \subseteq C, Closed(C, next, avoid)
               PROVE  t \in C
    BY DEF Least, Closed
  <2>1. b \in C
    BY DEF Least
  <2>2. QED
    BY <2>1 DEF Closed
<1>3. G \in SUBSET (U \ avoid)
  BY DEF Grown
<1>4. ASSUME S \cap avoid = {}
      PROVE  /\ S \subseteq G
             /\ G = S => L = S
             /\ Least(G, U, next, avoid) = L
  <2>1. S \subseteq G
    BY <1>4 DEF Grown
  <2>2. ASSUME G = S
        PROVE  L = S
    <3>1. Closed(S, next, avoid)
      BY <2>2 DEF Closed, Grown
    <3>2. L \subseteq S
      BY <3>1 DEF Least
    <3>3. QED
      BY <1>1, <3>2
  <2>3. \A C \in SUBSET U : Closed(C, next, avoid) => (S \subseteq C <=> G \subseteq C)
    BY <2>1 DEF Grown, Closed
  <2>4. Least(G, U, next, avoid) = L
    BY <2>3 DEF Least
  <2>5. QED
    BY <2>1, <2>2, <2>4
<1>5. QED
  BY <1>1, <1>2, <1>3, <1>4

\* The equation of the search has a solution...
LEMMA SearchExists ==
    ASSUME NEW U, NEW next \in [U -> SUBSET U], NEW avoid
    PROVE  \E R : Searches(R, U, next, avoid)
<1> DEFINE R == [S \in SUBSET U |-> Least(Grown(S, next, avoid), U, next, avoid)]
<1>1. ASSUME NEW S \in SUBSET U
      PROVE  R[S] = IF Grown(S, next, avoid) = S THEN S ELSE R[Grown(S, next, avoid)]
  <2> DEFINE G == Grown(S, next, avoid)
  <2>1. G \in SUBSET U /\ G \cap avoid = {}
    BY LeastFacts
  <2>2. CASE G = S
    BY <2>1, <2>2, LeastFacts
  <2>3. CASE G # S
    <3>1. R[G] = Least(G, U, next, avoid)
      BY <2>1, LeastFacts
    <3>2. QED
      BY <2>3, <3>1
  <2>4. QED
    BY <2>2, <2>3
<1>2. Searches(R, U, next, avoid)
  BY <1>1 DEF Searches
<1>3. QED
  BY <1>2

\* ... and in a finite graph any solution finds the least closed set.
LEMMA SearchFindsLeast ==
    ASSUME NEW U, IsFiniteSet(U), NEW next \in [U -> SUBSET U], NEW avoid,
           NEW R, Searches(R, U, next, avoid),
           NEW S \in SUBSET (U \ avoid)
    PROVE  R[S] = Least(S, U, next, avoid)
<1> DEFINE Wrong == {T \in SUBSET (U \ avoid) : R[T] # Least(T, U, next, avoid)}
<1> SUFFICES ASSUME Wrong # {}
             PROVE  FALSE
  OBVIOUS
<1>1. PICK T \in Wrong : \A V \in Wrong : T \subseteq V => V = T
  <2>1. Wrong \in SUBSET SUBSET U
    OBVIOUS
  <2> HIDE DEF Wrong
  <2>2. QED
    BY <2>1, MaximalMember
<1> DEFINE G == Grown(T, next, avoid)
<1>2. T \in SUBSET U /\ T \cap avoid = {}
  OBVIOUS
<1>3. /\ T \subseteq G /\ G \in SUBSET (U \ avoid)
      /\ G = T => Least(T, U, next, avoid) = T
      /\ Least(G, U, next, avoid) = Least(T, U, next, avoid)
  BY <1>2, LeastFacts
<1>4. R[T] = IF G = T THEN T ELSE R[G]
  BY <1>2 DEF Searches
<1>5. CASE G = T
  BY <1>3, <1>4, <1>5
<1>6. CASE G # T
  <2>1. G \notin Wrong
    BY <1>1, <1>3, <1>6
  <2>2. QED
    BY <1>3, <1>4, <1>6, <2>1
<1>7. QED
  BY <1>5, <1>6

-----------------------------------------------------------------------------
\* What is reached: the start, what an edge leads to that is not avoided, and
\* nothing outside a set that is so closed.
Reaches(f, from, avoid, reached) ==
    /\ reached \subseteq Blocks(f) \ avoid
    /\ from \ avoid \subseteq reached
    /\ \A b \in reached : Succ(f, b) \subseteq reached \cup avoid
    /\ \A C : /\ from \ avoid \subseteq C
              /\ \A b \in C \cap reached : Succ(f, b) \subseteq C \cup avoid
              => reached \subseteq C

\* The recursive definition of ReachAvoiding reaches what paths reach.
LEMMA ReachAvoidingReaches ==
    ASSUME NEW f, WellFormed(f), NEW from \in SUBSET Blocks(f), NEW avoid
    PROVE  Reaches(f, from, avoid, ReachAvoiding(f, from, avoid))
<1> DEFINE U == Blocks(f)
           next == [b \in U |-> Succ(f, b)]
           R == CHOOSE R : R = [S \in SUBSET U |->
                    LET T == (S \cup UNION {Succ(f, b) : b \in S}) \ avoid
                    IN  IF T = S THEN S ELSE R[T]]
           start == from \ avoid
<1>1. ReachAvoiding(f, from, avoid) = R[start]
  BY DEF ReachAvoiding
<1>2. next \in [U -> SUBSET U] /\ IsFiniteSet(U)
  <2>1. U = 1..Len(f.code) /\ Len(f.code) \in Nat
    BY BlocksFacts
  <2>2. IsFiniteSet(U)
    <3>1. 1 \in Int /\ Len(f.code) \in Int
      BY <2>1
    <3>2. QED
      BY <2>1, <3>1, FS_Interval, Zenon
  <2>3. \A b \in U : Succ(f, b) \subseteq U
    BY DEF WellFormed, Succ
  <2>4. QED
    BY <2>2, <2>3
<1>3. \A Q : Searches(Q, U, next, avoid) <=>
          Q = [S \in SUBSET U |->
                    LET T == (S \cup UNION {Succ(f, b) : b \in S}) \ avoid
                    IN  IF T = S THEN S ELSE Q[T]]
  <2>1. \A S \in SUBSET U : Grown(S, next, avoid) = (S \cup UNION {Succ(f, b) : b \in S}) \ avoid
    BY DEF Grown
  <2> HIDE DEF U, next
  <2>2. QED
    BY <2>1 DEF Searches
<1>4. Searches(R, U, next, avoid)
  <2> HIDE DEF U, next
  <2>1. \E Q : Searches(Q, U, next, avoid)
    BY <1>2, SearchExists
  <2>2. QED
    BY <1>3, <2>1
<1>5. start \in SUBSET (U \ avoid)
  OBVIOUS
<1> HIDE DEF R
<1> DEFINE reached == Least(start, U, next, avoid)
<1>6. R[start] = reached
  <2> HIDE DEF U, next, start
  <2>1. QED
    BY <1>2, <1>4, <1>5, SearchFindsLeast
<1>7. start \subseteq reached /\ Closed(reached, next, avoid)
  <2> HIDE DEF U, next, start
  <2>1. start \in SUBSET U
    BY <1>5
  <2>2. QED
    BY <1>2, <2>1, LeastFacts, ZenonT(30)
<1>8. reached \subseteq U \ avoid
  <2>1. Closed(U \ avoid, next, avoid)
    BY <1>2 DEF Closed
  <2>2. QED
    BY <1>5, <2>1 DEF Least
<1>9. ASSUME NEW C, start \subseteq C, \A b \in C \cap reached : Succ(f, b) \subseteq C \cup avoid
      PROVE  reached \subseteq C
  <2>1. Closed(C \cap reached, next, avoid)
    BY <1>7, <1>8, <1>9 DEF Closed
  <2>2. start \subseteq C \cap reached /\ C \cap reached \in SUBSET U
    BY <1>7, <1>8, <1>9
  <2> HIDE DEF U, next, start
  <2>3. QED
    BY <2>1, <2>2 DEF Least
<1>10. Reaches(f, from, avoid, reached)
  <2>1. \A b \in reached : Succ(f, b) \subseteq reached \cup avoid
    BY <1>7, <1>8 DEF Closed
  <2> HIDE DEF reached
  <2>2. QED
    BY <1>7, <1>8, <1>9, <2>1 DEF Reaches
<1>11. QED
  BY <1>1, <1>6, <1>10

-----------------------------------------------------------------------------
\* The reachable blocks: the entry, and where an edge leads from one of them.
LEMMA ReachableFacts ==
    ASSUME NEW f, WellFormed(f), Entry \in Blocks(f)
    PROVE  /\ Reachable(f) \subseteq Blocks(f)
           /\ Entry \in Reachable(f)
           /\ \A b \in Reachable(f) : Succ(f, b) \subseteq Reachable(f)
           /\ \A C : /\ Entry \in C
                     /\ \A b \in C \cap Reachable(f) : Succ(f, b) \subseteq C
                     => Reachable(f) \subseteq C
<1>1. Reaches(f, {Entry}, {}, Reachable(f))
  BY ReachAvoidingReaches DEF Reachable
<1> HIDE DEF Entry
<1>2. QED
  BY <1>1 DEF Reaches

\* The blocks that paths around d reach.
LEMMA AroundFacts ==
    ASSUME NEW f, WellFormed(f), Entry \in Blocks(f), NEW d
    PROVE  LET around == ReachAvoiding(f, {Entry}, {d})
           IN  /\ around \subseteq Blocks(f) \ {d}
               /\ Entry # d => Entry \in around
               /\ \A b \in around : Succ(f, b) \subseteq around \cup {d}
               /\ \A C : /\ Entry # d => Entry \in C
                         /\ \A b \in C \cap around : Succ(f, b) \subseteq C \cup {d}
                         => around \subseteq C
<1> DEFINE around == ReachAvoiding(f, {Entry}, {d})
<1>1. Reaches(f, {Entry}, {d}, around)
  BY ReachAvoidingReaches
<1> HIDE DEF Entry, around
<1>2. {Entry} \ {d} = IF Entry = d THEN {} ELSE {Entry}
  OBVIOUS
<1>3. QED
  BY <1>1, <1>2 DEF Reaches, around

\* The dominators of reachable blocks are reachable and dominate them.
LEMMA DominatorSetsFacts ==
    ASSUME NEW f
    PROVE  /\ DOMAIN DominatorSets(f) = Reachable(f)
           /\ \A b \in Reachable(f) :
                 DominatorSets(f)[b] = {d \in Reachable(f) : Dominates(f, d, b)}
BY DEF DominatorSets, Dominates

\* A set of claimed dominators for each block: every edge carries over what
\* is claimed of its target, but for the target itself.
Claims(f, dom) ==
    /\ dom[Entry] \subseteq {Entry}
    /\ \A b \in Blocks(f) : \A t \in Succ(f, b) : dom[t] \subseteq dom[b] \cup {t}

\* Whatever is claimed of a reachable block so is one of its dominators.
LEMMA ClaimsDominate ==
    ASSUME NEW f, WellFormed(f), Entry \in Blocks(f), NEW dom, Claims(f, dom),
           NEW b \in Reachable(f), NEW d \in dom[b]
    PROVE  d \in DominatorSets(f)[b]
<1> DEFINE C == {x \in Blocks(f) : d \notin dom[x]}
           live == Reachable(f)
           around == ReachAvoiding(f, {Entry}, {d})
<1>1. Entry # d => Entry \in C
  BY DEF Claims
<1>2. \A x \in C : Succ(f, x) \subseteq C \cup {d}
  <2>1. \A x \in C : Succ(f, x) \subseteq Blocks(f)
    BY DEF WellFormed, Succ
  <2>2. QED
    BY <2>1 DEF Claims
<1>3. d \in live
  <2>1. SUFFICES ASSUME d \notin live
                 PROVE  FALSE
    OBVIOUS
  <2>2. Entry \in C
    BY <1>1, <2>1, ReachableFacts
  <2>3. \A x \in C \cap live : Succ(f, x) \subseteq C
    BY <1>2, <2>1, ReachableFacts
  <2> HIDE DEF C
  <2>4. live \subseteq C
    BY <2>2, <2>3, ReachableFacts
  <2>5. QED
    BY <2>4 DEF C
<1>4. around \subseteq C
  <2> HIDE DEF C
  <2>1. QED
    BY <1>1, <1>2, AroundFacts
<1>5. Dominates(f, d, b)
  BY <1>4 DEF Dominates
<1>6. QED
  BY <1>3, <1>5, DominatorSetsFacts

-----------------------------------------------------------------------------
\* Among the members of a finite set, some has the least rank.
LEMMA LeastRank ==
    ASSUME NEW U, IsFiniteSet(U), NEW rank, \A x \in U : rank[x] \in Nat,
           NEW S \in SUBSET U, S # {}
    PROVE  \E x \in S : \A y \in S : rank[x] <= rank[y]
<1> DEFINE Above(x) == {y \in U : rank[x] <= rank[y]}
           F == {Above(x) : x \in S}
<1>1. F \in SUBSET SUBSET U /\ F # {}
  OBVIOUS
<1>2. PICK M \in F : \A T \in F : M \subseteq T => T = M
  <2> HIDE DEF F
  <2>1. QED
    BY <1>1, MaximalMember
<1>3. PICK x \in S : M = Above(x)
  OBVIOUS
<1>4. ASSUME NEW y \in S, ~(rank[x] <= rank[y])
      PROVE  FALSE
  <2>1. rank[x] \in Nat /\ rank[y] \in Nat /\ rank[y] < rank[x] /\ rank[y] <= rank[y]
    BY <1>4
  <2>2. Above(x) \subseteq Above(y)
    BY <2>1
  <2>3. y \in Above(y) /\ y \notin Above(x)
    BY <1>4, <2>1
  <2>4. Above(y) \in F
    OBVIOUS
  <2>5. QED
    BY <1>2, <1>3, <2>2, <2>3, <2>4
<1>5. QED
  BY <1>4

\* The predecessors of a block are those it is a successor of.
LEMMA PredecessorsAre ==
    ASSUME NEW f, Consistent(f), NEW b \in Blocks(f), NEW p \in Blocks(f)
    PROVE  p \in Pre(f, b) <=> b \in Succ(f, p)
<1>1. WellFormed(f)
  BY DEF Consistent
<1>2. f.pre[b] \in Seq(Nat) /\ f.succ[p] \in Seq(Nat)
  BY <1>1, BlocksFacts, ElementOfSeq
<1>3. Cardinality(Occurrences(f.pre[b], p)) = Cardinality(Occurrences(f.succ[p], b))
  BY DEF Consistent, Agree
<1>4. QED
  BY <1>2, <1>3, OccurrencesCount DEF Pre, Succ

-----------------------------------------------------------------------------
\* A graph with an entry.
HasEntry(f) == WellFormed(f) /\ Entry \in Blocks(f)

\* Reachable blocks are dominated by reachable blocks, themselves among them;
\* the entry by itself alone.
LEMMA DominatorsOfLive ==
    ASSUME NEW f, HasEntry(f)
    PROVE  LET doms == DominatorSets(f)
           IN  /\ \A b \in Reachable(f) : doms[b] \subseteq Reachable(f) /\ b \in doms[b]
               /\ doms[Entry] = {Entry}
               /\ Entry \in Reachable(f) /\ Reachable(f) \subseteq Blocks(f)
<1>1. WellFormed(f) /\ Entry \in Blocks(f)
  BY DEF HasEntry
<1>2. Reachable(f) \subseteq Blocks(f) /\ Entry \in Reachable(f)
  BY <1>1, ReachableFacts
<1>3. \A b \in Reachable(f) : DominatorSets(f)[b] = {d \in Reachable(f) : Dominates(f, d, b)}
  BY DominatorSetsFacts
<1>4. \A b : Dominates(f, b, b)
  <2> TAKE b
  <2>1. ReachAvoiding(f, {Entry}, {b}) \subseteq Blocks(f) \ {b}
    BY <1>1, AroundFacts
  <2>2. QED
    BY <2>1 DEF Dominates
<1>5. \A d : Dominates(f, d, Entry) => d = Entry
  <2> TAKE d
  <2>1. Entry # d => Entry \in ReachAvoiding(f, {Entry}, {d})
    BY <1>1, AroundFacts
  <2>2. QED
    BY <2>1 DEF Dominates
<1>6. QED
  BY <1>2, <1>3, <1>4, <1>5

\* A strict dominator of a block dominates all its reachable predecessors.
LEMMA DominatorsThroughEdge ==
    ASSUME NEW f, HasEntry(f), NEW p \in Reachable(f), NEW b \in Succ(f, p)
    PROVE  DominatorSets(f)[b] \ {b} \subseteq DominatorSets(f)[p]
<1>1. WellFormed(f) /\ Entry \in Blocks(f)
  BY DEF HasEntry
<1>2. b \in Reachable(f)
  BY <1>1, ReachableFacts
<1> SUFFICES ASSUME NEW d \in DominatorSets(f)[b], d # b
             PROVE  d \in DominatorSets(f)[p]
  OBVIOUS
<1>3. d \in Reachable(f) /\ Dominates(f, d, b)
  BY <1>2, DominatorSetsFacts
<1>4. \A x \in ReachAvoiding(f, {Entry}, {d}) :
          Succ(f, x) \subseteq ReachAvoiding(f, {Entry}, {d}) \cup {d}
  BY <1>1, AroundFacts
<1>5. Dominates(f, d, p)
  BY <1>3, <1>4 DEF Dominates
<1>6. QED
  BY <1>3, <1>5, DominatorSetsFacts

\* The dominators of a dominator are dominators.
LEMMA DominanceTransitive ==
    ASSUME NEW f, HasEntry(f), NEW c \in Reachable(f), NEW b \in DominatorSets(f)[c]
    PROVE  DominatorSets(f)[b] \subseteq DominatorSets(f)[c]
<1>1. WellFormed(f) /\ Entry \in Blocks(f)
  BY DEF HasEntry
<1>2. b \in Reachable(f) /\ Dominates(f, b, c)
  BY DominatorSetsFacts
<1> SUFFICES ASSUME NEW a \in DominatorSets(f)[b], a # b
             PROVE  a \in DominatorSets(f)[c]
  OBVIOUS
<1>3. a \in Reachable(f) /\ Dominates(f, a, b)
  BY <1>2, DominatorSetsFacts
<1> DEFINE A == ReachAvoiding(f, {Entry}, {a})
           B == ReachAvoiding(f, {Entry}, {b})
<1>4. b \notin A /\ c \notin B
  BY <1>2, <1>3 DEF Dominates
<1>5. /\ Entry # a => Entry \in A
      /\ \A x \in A : Succ(f, x) \subseteq A \cup {a}
      /\ \A C : /\ Entry # a => Entry \in C
                /\ \A x \in C \cap A : Succ(f, x) \subseteq C \cup {a}
                => A \subseteq C
  BY <1>1, AroundFacts
<1>6. /\ Entry # b => Entry \in B
      /\ \A x \in B : Succ(f, x) \subseteq B \cup {b}
  BY <1>1, AroundFacts
<1> HIDE DEF A, B
<1>7. Entry # a => Entry \in B
  BY <1>4, <1>5, <1>6
<1>8. \A x \in B \cap A : Succ(f, x) \subseteq B \cup {a}
  BY <1>4, <1>5, <1>6
<1>9. A \subseteq B
  BY <1>5, <1>7, <1>8
<1>10. Dominates(f, a, c)
  BY <1>4, <1>9 DEF Dominates, A
<1>11. QED
  BY <1>3, <1>10, DominatorSetsFacts

\* A reachable block but the entry has a reachable predecessor.
LEMMA EnteredFromLive ==
    ASSUME NEW f, HasEntry(f), NEW b \in Reachable(f), b # Entry
    PROVE  \E p \in Reachable(f) : b \in Succ(f, p)
<1> DEFINE C == Reachable(f) \ {b}
<1>1. WellFormed(f) /\ Entry \in Blocks(f)
  BY DEF HasEntry
<1>2. Entry \in C
  BY <1>1, ReachableFacts
<1>3. ~(Reachable(f) \subseteq C)
  OBVIOUS
<1>4. PICK p \in C \cap Reachable(f) : ~(Succ(f, p) \subseteq C)
  <2> HIDE DEF C
  <2>1. QED
    BY <1>1, <1>2, <1>3, ReachableFacts
<1>5. Succ(f, p) \subseteq Reachable(f)
  BY <1>1, ReachableFacts
<1>6. QED
  BY <1>4, <1>5

\* What dominates all predecessors of a block dominates the block.
LEMMA DominatorsFromPredecessors ==
    ASSUME NEW f, HasEntry(f), NEW b \in Reachable(f), b # Entry, NEW d \in Reachable(f),
           \A p \in Reachable(f) : b \in Succ(f, p) => d \in DominatorSets(f)[p]
    PROVE  d \in DominatorSets(f)[b]
<1>1. WellFormed(f) /\ Entry \in Blocks(f)
  BY DEF HasEntry
<1> DEFINE A == ReachAvoiding(f, {Entry}, {d})
           C == A \ {b}
<1>2. /\ A \subseteq Blocks(f) \ {d}
      /\ Entry # d => Entry \in A
      /\ \A C1 : /\ Entry # d => Entry \in C1
                 /\ \A x \in C1 \cap A : Succ(f, x) \subseteq C1 \cup {d}
                 => A \subseteq C1
      /\ \A x \in A : Succ(f, x) \subseteq A \cup {d}
  BY <1>1, AroundFacts
<1>3. A \subseteq Reachable(f)
  <2>1. /\ Entry \in Reachable(f)
        /\ \A x \in Reachable(f) : Succ(f, x) \subseteq Reachable(f)
    BY <1>1, ReachableFacts
  <2> HIDE DEF A
  <2>2. QED
    BY <1>2, <2>1
<1>4. \A x \in A : b \notin Succ(f, x)
  <2> SUFFICES ASSUME NEW x \in A, b \in Succ(f, x)
               PROVE  FALSE
    OBVIOUS
  <2>1. x \in Reachable(f)
    BY <1>3
  <2>2. Dominates(f, d, x)
    BY <2>1, DominatorSetsFacts
  <2>3. QED
    BY <2>2 DEF Dominates
<1>5. A \subseteq C
  <2>1. Entry # d => Entry \in C
    BY <1>2
  <2>2. \A x \in C \cap A : Succ(f, x) \subseteq C \cup {d}
    BY <1>2, <1>4
  <2> HIDE DEF A, C
  <2>3. QED
    BY <1>2, <2>1, <2>2
<1>6. Dominates(f, d, b)
  BY <1>5 DEF Dominates
<1>7. QED
  BY <1>6, DominatorSetsFacts

-----------------------------------------------------------------------------
(* Induction and recursion up to a number.                                 *)

\* What holds of 0 and is passed on holds up to n.
LEMMA UpTo ==
    ASSUME NEW n \in Nat, NEW Good, 0 \in Good,
           \A k \in 1..n : k - 1 \in Good => k \in Good
    PROVE  0..n \subseteq Good
<1> SUFFICES ASSUME NEW m \in 0..n, m \notin Good
             PROVE  FALSE
  OBVIOUS
<1> DEFINE Bad == {k \in 0..n : k \notin Good}
           rank == [k \in 0..n |-> k]
<1>1. IsFiniteSet(0..n)
  <2>1. 0 \in Int /\ n \in Int
    OBVIOUS
  <2>2. QED
    BY <2>1, FS_Interval, Zenon
<1>2. Bad \in SUBSET (0..n) /\ Bad # {} /\ \A k \in 0..n : rank[k] \in Nat
  OBVIOUS
<1>3. PICK k \in Bad : \A j \in Bad : rank[k] <= rank[j]
  <2> HIDE DEF Bad, rank
  <2>1. QED
    BY <1>1, <1>2, LeastRank
<1>4. k \in 1..n
  BY <1>3
<1>5. k - 1 \in Bad
  BY <1>3, <1>4
<1>6. QED
  BY <1>3, <1>4, <1>5

\* The states that step leads through from the first one, n times.
Runs(F, n, first, step) ==
    F = [k \in 0..n |-> IF k = 0 THEN first ELSE step[<<k, F[k - 1]>>]]

\* There are such states, and they stay where the step does.
LEMMA RunExists ==
    ASSUME NEW n \in Nat, NEW S, NEW first \in S, NEW step \in [(1..n) \X S -> S]
    PROVE  \E F : Runs(F, n, first, step) /\ \A k \in 0..n : F[k] \in S
<1> DEFINE Good == {m \in 0..n : \E F : Runs(F, m, first, step) /\ \A k \in 0..m : F[k] \in S}
<1>1. 0 \in Good
  <2> DEFINE F == [k \in 0..0 |-> first]
  <2>1. Runs(F, 0, first, step) /\ \A k \in 0..0 : F[k] \in S
    BY DEF Runs
  <2>2. QED
    BY <2>1
<1>2. ASSUME NEW m \in 1..n, m - 1 \in Good
      PROVE  m \in Good
  <2>1. PICK F : Runs(F, m - 1, first, step) /\ \A k \in 0..(m - 1) : F[k] \in S
    BY <1>2
  <2> DEFINE G == [k \in 0..m |-> IF k = m THEN step[<<m, F[m - 1]>>] ELSE F[k]]
  <2>2. \A k \in 0..(m - 1) : G[k] = F[k]
    OBVIOUS
  <2>3. F[m - 1] \in S /\ G[m] = step[<<m, F[m - 1]>>]
    BY <2>1
  <2>4. \A k \in 0..m : G[k] = IF k = 0 THEN first ELSE step[<<k, G[k - 1]>>]
    <3> SUFFICES ASSUME NEW k \in 0..m
                 PROVE  G[k] = IF k = 0 THEN first ELSE step[<<k, G[k - 1]>>]
      OBVIOUS
    <3>1. CASE k = m
      <4>1. G[m - 1] = F[m - 1]
        BY <2>2
      <4>2. QED
        BY <2>3, <3>1, <4>1, SMTT(30)
    <3>2. CASE k # m
      <4>1. k \in 0..(m - 1)
        BY <3>2
      <4>2. F[k] = IF k = 0 THEN first ELSE step[<<k, F[k - 1]>>]
        BY <2>1, <4>1 DEF Runs
      <4>3. k # 0 => G[k - 1] = F[k - 1]
        BY <2>2, <4>1
      <4>4. QED
        BY <2>2, <4>1, <4>2, <4>3
    <3>3. QED
      BY <3>1, <3>2
  <2>5. G = [k \in 0..m |-> IF k = 0 THEN first ELSE step[<<k, G[k - 1]>>]]
    <3>1. DOMAIN G = 0..m /\ G = [k \in 0..m |-> G[k]]
      OBVIOUS
    <3> HIDE DEF G
    <3>2. QED
      BY <2>4, <3>1
  <2>6. \A k \in 0..m : G[k] \in S
    <3>1. step[<<m, F[m - 1]>>] \in S
      BY <2>3
    <3>2. QED
      BY <2>1, <2>2, <2>3, <3>1
  <2> HIDE DEF G
  <2>7. Runs(G, m, first, step)
    BY <2>5 DEF Runs
  <2>8. m \in 0..n /\ \E H : Runs(H, m, first, step) /\ \A k \in 0..m : H[k] \in S
    BY <2>6, <2>7
  <2>9. QED
    BY <2>8
<1>3. n \in 0..n
  OBVIOUS
<1> HIDE DEF Good
<1>4. n \in Good
  BY <1>1, <1>2, <1>3, UpTo
<1>5. QED
  BY <1>4 DEF Good
=============================================================================
