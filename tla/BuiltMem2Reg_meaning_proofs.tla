-------------------- MODULE BuiltMem2Reg_meaning_proofs ---------------------
(***************************************************************************)
(* The visitor and Mem2Reg, for every program: what the pass leaves means  *)
(* in every execution what the function meant before.                      *)
(*                                                                         *)
(* The meaning needs MeaningInv: to BuiltInv it adds where branches stand  *)
(* (BranchInv), that phis stand on the dominance frontiers of all blocks   *)
(* that define their variable (JInv), and that what the walk has seen on   *)
(* top of each stack, instruction by instruction, is what the loads have   *)
(* been replaced by and the phis filled with (HInv).                       *)
(***************************************************************************)
EXTENDS BuiltMem2Reg_proofs

-----------------------------------------------------------------------------
(* Enough phis: the blocks that define a variable, by a store or a phi,    *)
(* have a phi of it on all their dominance frontiers when the walk begins. *)

\* b gives v a value.
Defines(b, v) == b \in StoringBlocks(v) \/ v \in ToSet(phis[b])

\* It is still to come that the frontier of b gets phis of v.
Due(b, v) == v \in vars_left \/ \E j \in (worked + 1)..Len(work_list) : work_list[j] = <<b, v>>

\* The frontier of b has them.
Joined(b, v) == \A t \in dominators.frontier[b] : v \in ToSet(phis[t])

\* While the phis are placed, and after.
Joining ==
    /\ \A b \in Live : dominators.frontier[b] = FrontierOf(func, Doms, b)
    /\ \A v \in vars_left : \A b \in Blocks(func) : v \notin ToSet(phis[b])
    /\ \A j \in DOMAIN work_list : work_list[j][2] \notin vars_left
    /\ \A b \in Blocks(func) : \A v \in Allocas : Defines(b, v) => Due(b, v) \/ Joined(b, v)
    /\ phase # "place" => vars_left = {} /\ worked = Len(work_list)

\* That is so from the start of the pass.
JInv == phase # "idle" => Joining

\* The order of a finite set leaves nothing out.
LEMMA SetToSeqOnto ==
    ASSUME NEW S, IsFiniteSet(S), NEW x \in S
    PROVE  \E k \in 1..Cardinality(S) : SetToSeq(S)[k] = x
<1>1. Cardinality(S) \in Nat /\ ExistsBijection(1..Cardinality(S), S)
  BY FS_CardinalityType
<1>2. PICK f : f \in Bijection(1..Cardinality(S), S)
  BY <1>1 DEF ExistsBijection
<1>3. f \in [1..Cardinality(S) -> S] /\ IsInjective(f)
  BY <1>2 DEF Bijection, Injection
<1> DEFINE s == SetToSeq(S)
           n == Cardinality(S)
<1>4. s \in [1..n -> S] /\ IsInjective(s)
  BY <1>3 DEF SetToSeq
<1>5. s \in Injection(1..n, S)
  BY <1>4 DEF Injection
<1>6. Cardinality(1..n) = n
  BY <1>1, FS_CountingElements, FS_Interval
<1>7. s \in Surjection(1..n, S)
  BY <1>5, <1>6, FS_Injection
<1>8. QED
  BY <1>7 DEF Surjection

\* One more in front.
LEMMA ToSetOfPushed ==
    ASSUME NEW S, NEW s \in Seq(S), NEW v \in S
    PROVE  ToSet(<<v>> \o s) = ToSet(s) \cup {v}
<1> DEFINE t == <<v>> \o s
<1>1. Len(s) \in Nat /\ DOMAIN s = 1..Len(s)
  BY LenProperties
<1>2. <<v>> \in Seq(S) /\ Len(<<v>>) = 1 /\ <<v>>[1] = v
  OBVIOUS
<1>3. /\ t \in Seq(S) /\ Len(t) = 1 + Len(s)
      /\ \A k \in 1..Len(t) : t[k] = IF k <= 1 THEN <<v>>[k] ELSE s[k - 1]
  BY <1>2, ConcatProperties
<1> HIDE DEF t
<1>4. DOMAIN t = 1..(Len(s) + 1)
  BY <1>1, <1>3, LenProperties
<1>5. t[1] = v /\ \A k \in 2..(Len(s) + 1) : t[k] = s[k - 1] /\ k - 1 \in DOMAIN s
  BY <1>1, <1>2, <1>3
<1>6. ASSUME NEW k \in DOMAIN t
      PROVE  t[k] = v \/ \E m \in DOMAIN s : s[m] = t[k]
  <2>1. k = 1 \/ k \in 2..(Len(s) + 1)
    BY <1>1, <1>4
  <2>2. QED
    BY <1>5, <2>1
<1>7. v \in ToSet(t)
  <2>1. 1 \in DOMAIN t
    BY <1>1, <1>4
  <2>2. QED
    BY <1>5, <2>1 DEF ToSet
<1>8. ASSUME NEW k \in DOMAIN s
      PROVE  s[k] \in ToSet(t)
  <2>1. k + 1 \in 2..(Len(s) + 1) /\ (k + 1) - 1 = k /\ k + 1 \in DOMAIN t
    BY <1>1, <1>4
  <2>2. t[k + 1] = s[k]
    BY <1>5, <2>1
  <2>3. QED
    BY <2>1, <2>2 DEF ToSet
<1>9. ToSet(t) \subseteq ToSet(s) \cup {v} /\ ToSet(s) \subseteq ToSet(t)
  BY <1>6, <1>8 DEF ToSet
<1>10. QED
  BY <1>7, <1>9 DEF t

\* The work list w asks for phis of v on the frontiers of S.
Lists(w, S, v) ==
    /\ \A b \in S : \E k \in DOMAIN w : w[k] = <<b, v>>
    /\ \A k \in DOMAIN w : w[k][2] = v

\* All of S is in the work list.
LEMMA WorkHasAll ==
    ASSUME WellFormed(func), NEW S \in SUBSET Blocks(func), NEW v
    PROVE  Lists([k \in 1..Cardinality(S) |-> <<SetToSeq(S)[k], v>>], S, v)
<1>1. IsFiniteSet(S)
  <2>1. Blocks(func) = 1..Len(func.code) /\ Len(func.code) \in Nat
    BY BlocksFacts
  <2>2. IsFiniteSet(Blocks(func))
    BY <2>1, FS_Interval
  <2>3. QED
    BY <2>2, FS_Subset
<1>2. \A b \in S : \E k \in 1..Cardinality(S) : SetToSeq(S)[k] = b
  BY <1>1, SetToSeqOnto
<1>3. QED
  BY <1>2 DEF Lists

\* The next variable is due through the work list.
LEMMA TakeJoins ==
    ASSUME phase = "place", Prepared, Placing, Joining, TakeVariable
    PROVE  Joining'
<1> DEFINE v == CHOOSE x \in vars_left : TRUE
<1>1. WellFormed(func)
  BY SoundFacts DEF Prepared
<1>2. v \in vars_left /\ worked = Len(work_list)
  BY DEF TakeVariable
<1>3. /\ work_list' = [k \in 1..Cardinality(StoringBlocks(v)) |->
                          <<SetToSeq(StoringBlocks(v))[k], v>>]
      /\ vars_left' = vars_left \ {v} /\ worked' = 0
      /\ UNCHANGED <<func, phase, dominators, phis>>
  BY DEF TakeVariable
<1> HIDE DEF v
<1>4. v \in Allocas /\ StoringBlocks(v) \in SUBSET Blocks(func)
  BY <1>2 DEF Placing, StoringBlocks
<1>5. /\ \A b \in StoringBlocks(v) : \E k \in DOMAIN work_list' : work_list'[k] = <<b, v>>
      /\ \A k \in DOMAIN work_list' : work_list'[k][2] = v
  <2>1. Lists(work_list', StoringBlocks(v), v)
    BY <1>1, <1>3, <1>4, WorkHasAll
  <2>2. QED
    BY <2>1, Zenon DEF Lists
<1>6. /\ Allocas' = Allocas /\ Live' = Live /\ Doms' = Doms
      /\ \A u : StoringBlocks(u)' = StoringBlocks(u)
  BY <1>3, SameSets
<1>7. DOMAIN work_list' = 1..Len(work_list')
  <2>1. work_list' \in Seq(Blocks(func) \X Allocas)
    BY <1>1, <1>3, <1>4, WorkIs
  <2>2. QED
    BY <2>1, LenProperties
<1>8. ASSUME NEW b \in Blocks(func), NEW u \in Allocas, Defines(b, u)'
      PROVE  Due(b, u)' \/ Joined(b, u)'
  <2>1. Defines(b, u)
    BY <1>3, <1>6, <1>8 DEF Defines
  <2>2. CASE u = v
    <3>1. v \notin ToSet(phis[b])
      BY <1>2 DEF Joining
    <3>2. b \in StoringBlocks(v)
      BY <2>1, <2>2, <3>1 DEF Defines
    <3>3. PICK k \in DOMAIN work_list' : work_list'[k] = <<b, v>>
      BY <1>5, <3>2
    <3>4. k \in (worked' + 1)..Len(work_list')
      <4>1. worked' + 1 = 1
        BY <1>3
      <4>2. QED
        BY <1>7, <3>3, <4>1
    <3>5. QED
      BY <2>2, <3>3, <3>4 DEF Due
  <2>3. CASE u # v
    <3>1. Due(b, u) \/ Joined(b, u)
      BY <2>1 DEF Joining
    <3>2. Joined(b, u) => Joined(b, u)'
      BY <1>3 DEF Joined
    <3>3. \A j : j \notin (worked + 1)..Len(work_list)
      <4>1. worked \in Int
        BY DEF Placing
      <4>2. QED
        BY <1>2, <4>1
    <3>4. Due(b, u) => u \in vars_left'
      BY <1>3, <2>3, <3>3 DEF Due
    <3>5. QED
      BY <3>1, <3>2, <3>4 DEF Due
  <2>4. QED
    BY <2>2, <2>3
<1>9. \A b \in Blocks(func)' : \A u \in Allocas' : Defines(b, u)' => Due(b, u)' \/ Joined(b, u)'
  BY <1>3, <1>6, <1>8
<1>10. \A b \in Live' : dominators'.frontier[b] = FrontierOf(func, Doms, b)'
  BY <1>3, <1>6 DEF Joining
<1>11. \A u \in vars_left' : \A b \in Blocks(func)' : u \notin ToSet(phis'[b])
  BY <1>3 DEF Joining
<1>12. \A j \in DOMAIN work_list' : work_list'[j][2] \notin vars_left'
  BY <1>3, <1>5
<1>13. phase' = "place"
  BY <1>3
<1>14. QED
  BY <1>9, <1>10, <1>11, <1>12, <1>13 DEF Joining

\* One block of the work list: its frontier has the phis now, and the blocks
\* that got one are due.
LEMMA PlaceJoins ==
    ASSUME phase = "place", Prepared, Placing, Joining, PlacePhis
    PROVE  Joining'
<1> DEFINE b == work_list[worked + 1][1]
           v == work_list[worked + 1][2]
           new == {y \in dominators.frontier[b] : ~Contains(phis[y], v)}
           more == [k \in 1..Cardinality(new) |-> <<SetToSeq(new)[k], v>>]
<1>1. /\ worked < Len(work_list)
      /\ phis' = [y \in Blocks(func) |-> IF y \in new THEN <<v>> \o phis[y] ELSE phis[y]]
      /\ work_list' = work_list \o more
      /\ worked' = worked + 1
      /\ UNCHANGED <<func, phase, dominators, vars_left>>
  BY Zenon DEF PlacePhis
<1>2. WellFormed(func) /\ PhisFit
  BY SoundFacts DEF Prepared
<1>3. /\ work_list \in Seq(Blocks(func) \X Allocas) /\ worked \in Nat
      /\ Len(work_list) \in Nat /\ DOMAIN work_list = 1..Len(work_list)
  BY LenProperties DEF Placing
<1>4. b \in Blocks(func) /\ v \in Allocas /\ v \notin vars_left /\ work_list[worked + 1] = <<b, v>>
  <2>1. worked + 1 \in 1..Len(work_list)
    <3>1. worked < Len(work_list)
      BY <1>1
    <3>2. worked \in Nat /\ Len(work_list) \in Nat
      BY <1>3
    <3>3. QED
      BY <3>1, <3>2
  <2>2. work_list[worked + 1] \in Blocks(func) \X Allocas
    BY <1>3, <2>1, ElementOfSeq
  <2>3. work_list[worked + 1][2] \notin vars_left
    BY <1>3, <2>1 DEF Joining
  <2>4. QED
    BY <2>2, <2>3
<1> HIDE DEF b, v
<1>5. new \in SUBSET Blocks(func)
  BY <1>4 DEF Prepared
<1>6. \A y \in dominators.frontier[b] : y \in new \/ v \in ToSet(phis[y])
  BY DEF Contains, ToSet
<1> HIDE DEF new
<1>7. /\ more \in Seq(Blocks(func) \X Allocas)
      /\ \A y \in new : \E k \in DOMAIN more : more[k] = <<y, v>>
      /\ \A k \in DOMAIN more : more[k][2] = v
  <2>1. more \in Seq(Blocks(func) \X Allocas)
    BY <1>2, <1>4, <1>5, WorkIs
  <2>2. Lists(more, new, v)
    BY <1>2, <1>5, WorkHasAll
  <2> HIDE DEF more
  <2>3. QED
    BY <2>1, <2>2, Zenon DEF Lists
<1> HIDE DEF more
<1>8. Len(more) \in Nat /\ DOMAIN more = 1..Len(more)
  BY <1>7, LenProperties
<1>9. /\ Len(work_list') = Len(work_list) + Len(more)
      /\ DOMAIN work_list' = 1..(Len(work_list) + Len(more))
      /\ \A k \in 1..Len(work_list) : work_list'[k] = work_list[k]
      /\ \A k \in 1..Len(more) : work_list'[Len(work_list) + k] = more[k]
  <2> DEFINE S == Blocks(func) \X Allocas
             a == work_list
             c == a \o more
  <2>1. a \in Seq(S) /\ more \in Seq(S)
    BY <1>3, <1>7
  <2> HIDE DEF S, a
  <2>2. /\ c \in Seq(S) /\ Len(c) = Len(a) + Len(more)
        /\ \A k \in 1..Len(c) : c[k] = IF k <= Len(a) THEN a[k] ELSE more[k - Len(a)]
    BY <2>1, ConcatProperties
  <2> HIDE DEF c
  <2>3. DOMAIN c = 1..Len(c)
    BY <2>2, LenProperties
  <2>4. Len(a) \in Nat
    BY <2>1, LenProperties
  <2>5. \A k \in 1..Len(a) : c[k] = a[k]
    BY <1>8, <2>2, <2>4
  <2>6. \A k \in 1..Len(more) : c[Len(a) + k] = more[k]
    <3> SUFFICES ASSUME NEW k \in 1..Len(more)
                 PROVE  c[Len(a) + k] = more[k]
      OBVIOUS
    <3>1. Len(a) + k \in 1..Len(c) /\ ~(Len(a) + k <= Len(a)) /\ (Len(a) + k) - Len(a) = k
      BY <1>8, <2>2, <2>4
    <3>2. QED
      BY <2>2, <3>1
  <2>7. QED
    BY <1>1, <2>2, <2>3, <2>5, <2>6 DEF a, c
<1>10. /\ Allocas' = Allocas /\ Live' = Live /\ Doms' = Doms
       /\ \A u : StoringBlocks(u)' = StoringBlocks(u)
  <2>1. Allocas' = Allocas /\ \A u : StoringBlocks(u)' = StoringBlocks(u)
    BY <1>1 DEF Allocas, PlacesOf, InstrAt, StoringBlocks
  <2>2. QED
    BY <1>1, <2>1 DEF Live, Doms
<1>11. ASSUME NEW y \in Blocks(func)
       PROVE  ToSet(phis'[y]) = ToSet(phis[y]) \cup (IF y \in new THEN {v} ELSE {})
  <2>1. phis[y] \in Seq(Allocas)
    BY <1>2 DEF PhisFit
  <2>2. phis'[y] = IF y \in new THEN <<v>> \o phis[y] ELSE phis[y]
    BY <1>1
  <2>3. ToSet(<<v>> \o phis[y]) = ToSet(phis[y]) \cup {v}
    BY <1>4, <2>1, ToSetOfPushed
  <2>4. QED
    BY <2>2, <2>3
<1>12. ASSUME NEW y \in Blocks(func), NEW u \in Allocas, Defines(y, u)'
       PROVE  Due(y, u)' \/ Joined(y, u)'
  <2>1. CASE y \in new /\ u = v
    <3>1. PICK k \in DOMAIN more : more[k] = <<y, v>>
      BY <1>7, <2>1
    <3>2. Len(work_list) + k \in (worked' + 1)..Len(work_list')
      BY <1>1, <1>3, <1>8, <1>9
    <3>3. work_list'[Len(work_list) + k] = <<y, u>>
      BY <1>8, <1>9, <2>1, <3>1
    <3>4. QED
      BY <3>2, <3>3 DEF Due
  <2>2. CASE ~(y \in new /\ u = v)
    <3>1. Defines(y, u)
      BY <1>10, <1>11, <1>12, <2>2 DEF Defines
    <3>2. Due(y, u) \/ Joined(y, u)
      BY <3>1 DEF Joining
    <3>3. dominators.frontier[y] \subseteq Blocks(func)
      BY DEF Prepared
    <3>4. Joined(y, u) => Joined(y, u)'
      BY <1>1, <1>11, <3>3 DEF Joined
    <3>5. u \in vars_left => Due(y, u)'
      BY <1>1 DEF Due
    <3>6. ASSUME NEW j \in (worked + 1)..Len(work_list), work_list[j] = <<y, u>>
          PROVE  Due(y, u)' \/ Joined(y, u)'
      <4>1. CASE j = worked + 1
        <5>1. y = b /\ u = v
          BY <1>4, <3>6, <4>1
        <5>2. \A t \in dominators.frontier[b] : v \in ToSet(phis'[t])
          BY <1>6, <1>11, <3>3, <5>1
        <5>3. QED
          BY <1>1, <5>1, <5>2 DEF Joined
      <4>2. CASE j # worked + 1
        <5>1. j \in (worked' + 1)..Len(work_list') /\ j \in 1..Len(work_list)
          BY <1>1, <1>3, <1>8, <1>9, <4>2
        <5>2. work_list'[j] = <<y, u>>
          BY <1>9, <3>6, <5>1
        <5>3. QED
          BY <5>1, <5>2 DEF Due
      <4>3. QED
        BY <4>1, <4>2
    <3>7. QED
      BY <3>2, <3>4, <3>5, <3>6 DEF Due
  <2>3. QED
    BY <2>1, <2>2
<1>13. \A y \in Blocks(func)' : \A u \in Allocas' : Defines(y, u)' => Due(y, u)' \/ Joined(y, u)'
  BY <1>1, <1>10, <1>12
<1>14. \A y \in Live' : dominators'.frontier[y] = FrontierOf(func, Doms, y)'
  BY <1>1, <1>10 DEF Joining
<1>15. \A u \in vars_left' : \A y \in Blocks(func)' : u \notin ToSet(phis'[y])
  <2> SUFFICES ASSUME NEW u \in vars_left, NEW y \in Blocks(func)
               PROVE  u \notin ToSet(phis'[y])
    BY <1>1
  <2>1. u # v /\ u \notin ToSet(phis[y])
    BY <1>4 DEF Joining
  <2>2. QED
    BY <1>11, <2>1
<1>16. \A j \in DOMAIN work_list' : work_list'[j][2] \notin vars_left'
  <2> SUFFICES ASSUME NEW j \in DOMAIN work_list'
               PROVE  work_list'[j][2] \notin vars_left
    BY <1>1
  <2>1. CASE j \in 1..Len(work_list)
    BY <1>3, <1>9, <2>1 DEF Joining
  <2>2. CASE j \notin 1..Len(work_list)
    <3>1. j - Len(work_list) \in 1..Len(more) /\ Len(work_list) + (j - Len(work_list)) = j
      BY <1>3, <1>8, <1>9, <2>2
    <3>2. work_list'[j] = more[j - Len(work_list)]
      BY <1>9, <3>1
    <3>3. more[j - Len(work_list)][2] = v
      BY <1>7, <1>8, <3>1
    <3>4. QED
      BY <1>4, <3>2, <3>3
  <2>3. QED
    BY <2>1, <2>2
<1>17. phase' = "place"
  BY <1>1
<1>18. QED
  BY <1>13, <1>14, <1>15, <1>16, <1>17 DEF Joining

\* The rest of the pass does not touch it.
LEMMA JoiningStays ==
    ASSUME Joining, func' = func, phis' = phis, UNCHANGED <<dominators, vars_left, work_list, worked>>,
           phase' # "place" => vars_left = {} /\ worked = Len(work_list)
    PROVE  Joining'
<1>1. /\ Allocas' = Allocas /\ Live' = Live /\ Doms' = Doms
      /\ \A u : StoringBlocks(u)' = StoringBlocks(u)
  BY SameSets
<1>2. \A b, v : (Defines(b, v)' <=> Defines(b, v)) /\ (Due(b, v)' <=> Due(b, v))
                /\ (Joined(b, v)' <=> Joined(b, v))
  BY <1>1 DEF Defines, Due, Joined
<1>3. \A b \in Blocks(func)' : \A v \in Allocas' : Defines(b, v)' => Due(b, v)' \/ Joined(b, v)'
  BY <1>1, <1>2 DEF Joining
<1>4. \A b \in Live' : dominators'.frontier[b] = FrontierOf(func, Doms, b)'
  BY <1>1 DEF Joining
<1>5. QED
  BY <1>3, <1>4 DEF Joining

\* Run leaves all variables that are stored to.
LEMMA TransformJoins ==
    ASSUME Sound(func), InitPass, Run
    PROVE  Joining'
<1> DEFINE doms == DominatorSets(func)
<1>1. /\ func' = func /\ phase' = "place"
      /\ dominators' =
             [frontier |-> [b \in Blocks(func) |->
                  IF b \in DOMAIN doms THEN FrontierOf(func, doms, b)
                  ELSE DeadJoins(func, DOMAIN doms, b)],
              tree |-> [b \in Blocks(func) |->
                  IF b \in DOMAIN doms THEN ChildrenOf(doms, b) ELSE {}]]
      /\ vars_left' = {v \in Allocas : StoringBlocks(v) # {}}
      /\ phis' = [b \in Blocks(func) |-> << >>]
      /\ UNCHANGED <<work_list, worked>>
  BY DEF Run
<1>2. DOMAIN doms = Live /\ Live \subseteq Blocks(func) /\ doms = Doms
  BY SoundFacts, DominatorSetsFacts DEF Live, Doms
<1>3. /\ Allocas' = Allocas /\ Live' = Live /\ Doms' = Doms
      /\ \A u : StoringBlocks(u)' = StoringBlocks(u)
  <2>1. Allocas' = Allocas /\ \A u : StoringBlocks(u)' = StoringBlocks(u)
    BY <1>1 DEF Allocas, PlacesOf, InstrAt, StoringBlocks
  <2>2. QED
    BY <1>1, <2>1 DEF Live, Doms
<1> HIDE DEF doms
<1>4. \A b \in Live' : dominators'.frontier[b] = FrontierOf(func, Doms, b)'
  <2>1. dominators'.frontier = [b \in Blocks(func) |->
             IF b \in DOMAIN doms THEN FrontierOf(func, doms, b)
             ELSE DeadJoins(func, DOMAIN doms, b)]
    BY <1>1
  <2>2. QED
    BY <1>1, <1>2, <1>3, <2>1
<1>5. \A b \in Blocks(func) : ToSet(phis'[b]) = {}
  BY <1>1 DEF ToSet
<1>6. work_list' = << >>
  BY <1>1 DEF InitPass
<1>7. \A b \in Blocks(func)' : \A v \in Allocas' : Defines(b, v)' => Due(b, v)'
  BY <1>1, <1>3, <1>5 DEF Defines, Due
<1>8. QED
  BY <1>1, <1>4, <1>5, <1>6, <1>7 DEF Joining

\* Each step of the visitor and the pass.
LEMMA BuiltJoins ==
    ASSUME BuiltInv, JInv, [BuiltNext]_builtvars
    PROVE  JInv'
<1>1. CASE Build
  BY <1>1 DEF Build, passvars, JInv
<1>2. CASE Transform
  <2>1. InitPass /\ Run /\ Finished
    BY <1>2 DEF Transform, Run, BuiltInv, MInv
  <2>2. Sound(func)
    BY <2>1, FinishedIsSound DEF Run, BuiltInv
  <2>3. QED
    BY <2>1, <2>2, TransformJoins DEF JInv
<1>3. CASE TransformStep
  <2>1. Step /\ phase # "idle"
    BY <1>3, Zenon DEF TransformStep, Step, TakeVariable, PlacePhis, StartRename, EnterChild, Leave
  <2>2. Joining
    BY <2>1 DEF JInv
  <2>3. phase = "place" => Prepared /\ Placing
    BY DEF BuiltInv, MInv, InitPass
  <2>4. CASE TakeVariable
    BY <2>2, <2>3, <2>4, TakeJoins DEF TakeVariable, JInv
  <2>5. CASE PlacePhis
    BY <2>2, <2>3, <2>5, PlaceJoins, Zenon DEF PlacePhis, JInv
  <2>6. CASE StartRename
    BY <2>2, <2>6, JoiningStays DEF StartRename, JInv
  <2>7. CASE EnterChild
    <3>1. vars_left = {} /\ worked = Len(work_list)
      BY <2>2, <2>7 DEF EnterChild, Joining
    <3>2. QED
      BY <2>2, <2>7, <3>1, JoiningStays DEF EnterChild, JInv
  <2>8. CASE Leave
    <3>1. vars_left = {} /\ worked = Len(work_list)
      BY <2>2, <2>8 DEF Leave, Joining
    <3>2. QED
      BY <2>2, <2>8, <3>1, JoiningStays DEF Leave, JInv
  <2>9. QED
    BY <2>1, <2>4, <2>5, <2>6, <2>7, <2>8 DEF Step
<1>4. CASE UNCHANGED builtvars
  <2>1. /\ func' = func /\ phis' = phis /\ phase' = phase
        /\ UNCHANGED <<dominators, vars_left, work_list, worked>>
    BY <1>4 DEF builtvars, passvars
  <2>2. QED
    BY <2>1, JoiningStays DEF JInv, Joining
<1>5. QED
  BY <1>1, <1>2, <1>3, <1>4 DEF BuiltNext

-----------------------------------------------------------------------------
(* What the walk has seen.  h[b][k][v] is the top of v's stack when re_name *)
(* was at instruction k of block b, Undefined if the stack was empty.      *)

\* The value at the end of a stack.
TopOf(s) == IF s = << >> THEN Undefined ELSE s[Len(s)]

\* A variable with a value on its stack has an entry in the map.
StacksKnown(sts, kn) == \A v \in Allocas : sts[v] # << >> => v \in kn

\* The value of the store at p, seen through the replacements.
StoredIn(rep, p) ==
    LET val == InstrAt(p).args[1]
    IN  IF ~IsInstruction(val) THEN p ELSE IF val \in DOMAIN rep THEN rep[val] ELSE val

\* What the first n instructions of b did to the tops hb of the stacks, and
\* what the loads among them were replaced by.
Recalls(hb, b, rep, n) ==
    \A k \in 1..n : \A v \in Allocas :
        LET i == func.code[b][k]
        IN  /\ hb[k][v] = IF IsLocalAccess(i, "store") /\ i.var = v
                          THEN StoredIn(rep, <<b, k>>) ELSE hb[k - 1][v]
            /\ IsLocalAccess(i, "load") /\ i.var = v /\ hb[k - 1][v] # Undefined
                   => <<b, k>> \in DOMAIN rep /\ rep[<<b, k>>] = hb[k - 1][v]

\* Undefined is no value.
LEMMA UndefinedNoValue == Undefined \notin Values
<1>1. \A b, k : <<0>> # <<b, k>>
  OBVIOUS
<1>2. \A b, v : <<0>> # <<b, v[1], v[2]>>
  OBVIOUS
<1>3. Undefined \notin PlacesOf(func)
  BY <1>1, PlaceIs DEF Undefined
<1>4. Undefined \notin PhiPlaces
  BY <1>2 DEF Undefined, PhiPlaces, PhiOf
<1>5. QED
  BY <1>3, <1>4 DEF Values

\* The top of a stack.
LEMMA TopIs ==
    ASSUME NEW s \in Seq(Values)
    PROVE  /\ TopOf(s) # Undefined <=> s # << >>
           /\ s # << >> => TopOf(s) = s[Len(s)] /\ Last(s) = s[Len(s)] /\ Len(s) \in DOMAIN s
           /\ TopOf(s) \in Values \cup {Undefined}
<1>1. ASSUME s # << >>
      PROVE  s[Len(s)] \in Values /\ Last(s) = s[Len(s)] /\ Len(s) \in DOMAIN s
  <2>1. Len(s) \in Nat \ {0} /\ DOMAIN s = 1..Len(s) /\ Last(s) = s[Len(s)] /\ s[Len(s)] \in Values
    BY <1>1, FrontIs
  <2>2. QED
    BY <2>1
<1>2. QED
  BY <1>1, UndefinedNoValue DEF TopOf

\* Other replacements do not matter.
LEMMA RecallsStays ==
    ASSUME Sound(func), NEW b \in Blocks(func), NEW n \in 0..Len(func.code[b]),
           NEW hb, NEW rep, NEW new, Recalls(hb, b, rep, n),
           \A m \in 1..n : /\ <<b, m>> \in DOMAIN rep <=> <<b, m>> \in DOMAIN new
                           /\ <<b, m>> \in DOMAIN rep => new[<<b, m>>] = rep[<<b, m>>]
    PROVE  Recalls(hb, b, new, n)
<1>1. /\ DOMAIN func.code[b] = 1..Len(func.code[b]) /\ Len(func.code[b]) \in Nat
      /\ \A k \in 1..n : k \in DOMAIN func.code[b] /\ \A m \in 1..(k - 1) : m \in 1..n
  <2>1. DOMAIN func.code[b] = 1..Len(func.code[b]) /\ Len(func.code[b]) \in Nat
    BY SoundFacts
  <2>2. QED
    BY <2>1
<1>2. ASSUME NEW k \in 1..n, IsLocalAccess(func.code[b][k], "store")
      PROVE  StoredIn(new, <<b, k>>) = StoredIn(rep, <<b, k>>)
  <2>1. k \in DOMAIN func.code[b]
    BY <1>1
  <2>2. InstrAt(<<b, k>>) = func.code[b][k] /\ func.code[b][k].op = "store"
    BY <1>2, <2>1, LocalAccess
  <2>3. CASE IsInstruction(func.code[b][k].args[1])
    <3>1. PICK m \in 1..(k - 1) : func.code[b][k].args[1] = <<b, m>>
      BY <2>1, <2>2, <2>3, StoredIs
    <3>2. m \in 1..n
      BY <1>1
    <3>3. QED
      BY <2>2, <2>3, <3>1, <3>2 DEF StoredIn
  <2>4. QED
    BY <2>2, <2>3 DEF StoredIn
<1>3. QED
  BY <1>2 DEF Recalls

\* One instruction more.
LEMMA RecallsMore ==
    ASSUME NEW b, NEW k \in Nat \ {0}, NEW hb, NEW rep, Recalls(hb, b, rep, k - 1),
           \A v \in Allocas :
               /\ hb[k][v] = IF IsLocalAccess(func.code[b][k], "store") /\ func.code[b][k].var = v
                             THEN StoredIn(rep, <<b, k>>) ELSE hb[k - 1][v]
               /\ IsLocalAccess(func.code[b][k], "load") /\ func.code[b][k].var = v
                     /\ hb[k - 1][v] # Undefined
                     => <<b, k>> \in DOMAIN rep /\ rep[<<b, k>>] = hb[k - 1][v]
    PROVE  Recalls(hb, b, rep, k)
<1>1. \A m \in 1..k : m \in 1..(k - 1) \/ m = k
  OBVIOUS
<1>2. QED
  BY <1>1, Zenon DEF Recalls

\* An instruction, on stacks with the tops hb.
LEMMA InstrRecalls ==
    ASSUME NEW E, NEW b, Ready(E, b), NEW k \in DOMAIN func.code[b],
           NEW r \in States, NEW q, q = RenameInstr(r, <<b, k>>), ~q.failed,
           NEW hb, Recalls(hb, b, r.replacement, k - 1), StacksKnown(r.stacks, r.known),
           \A v \in Allocas : hb[k - 1][v] = TopOf(r.stacks[v]) /\ hb[k][v] = TopOf(q.stacks[v])
    PROVE  Recalls(hb, b, q.replacement, k) /\ StacksKnown(q.stacks, q.known)
<1> DEFINE i == func.code[b][k]
<1>1. /\ Sound(func) /\ b \in Blocks(func) /\ k \in Nat \ {0} /\ k - 1 \in 0..Len(func.code[b])
      /\ \A m \in 1..(k - 1) : <<b, m>> # <<b, k>>
  <2>1. /\ Sound(func) /\ b \in Blocks(func) /\ DOMAIN func.code[b] = 1..Len(func.code[b])
        /\ Len(func.code[b]) \in Nat
    BY ReadyFacts
  <2>2. k \in Nat \ {0} /\ k - 1 \in 0..Len(func.code[b]) /\ \A m \in 1..(k - 1) : m # k
    BY <2>1
  <2>3. QED
    BY <2>1, <2>2
<1>2. q \in States /\ GoesTo(r, b, k, i, q)
  BY <1>1, RenameInstrCases
<1>3. r.stacks \in [Allocas -> Seq(Values)] /\ q.stacks \in [Allocas -> Seq(Values)]
  BY <1>2, StateIs
<1>4. ~r.failed
  BY <1>2 DEF GoesTo
<1>5. IsLocalAccess(i, "load") => i.var \in Allocas /\ ~IsLocalAccess(i, "store")
  BY <1>1, LocalAccess DEF IsLocalAccess
<1>6. IsLocalAccess(i, "store") => i.var \in Allocas /\ ~IsLocalAccess(i, "load")
  BY <1>1, LocalAccess DEF IsLocalAccess
<1> HIDE DEF i
<1>7. CASE q = r /\ ~IsLocalAccess(i, "store")
           /\ (IsLocalAccess(i, "load") => r.stacks[i.var] = << >>)
  <2>1. \A v \in Allocas : hb[k][v] = hb[k - 1][v]
    BY <1>7
  <2>2. IsLocalAccess(i, "load") => hb[k - 1][i.var] = Undefined
    BY <1>5, <1>7 DEF TopOf
  <2>3. QED
    BY <1>1, <1>7, <2>1, <2>2, RecallsMore DEF i
<1>8. CASE IsLocalAccess(i, "load") /\ i.var \in r.known /\ Len(r.stacks[i.var]) \in DOMAIN r.stacks[i.var]
           /\ IsReplaced(q, r, <<b, k>>, r.stacks[i.var][Len(r.stacks[i.var])])
  <2>1. /\ q.known = r.known /\ q.stacks = r.stacks
        /\ <<b, k>> \in DOMAIN q.replacement
        /\ q.replacement[<<b, k>>] = r.stacks[i.var][Len(r.stacks[i.var])]
        /\ \A m \in 1..(k - 1) :
              /\ <<b, m>> \in DOMAIN r.replacement <=> <<b, m>> \in DOMAIN q.replacement
              /\ <<b, m>> \in DOMAIN r.replacement => q.replacement[<<b, m>>] = r.replacement[<<b, m>>]
    BY <1>1, <1>8, Zenon DEF IsReplaced
  <2>2. Recalls(hb, b, q.replacement, k - 1)
    BY <1>1, <2>1, RecallsStays
  <2>3. r.stacks[i.var] # << >>
    BY <1>8
  <2>4. hb[k - 1][i.var] = r.stacks[i.var][Len(r.stacks[i.var])]
    BY <1>5, <1>8, <2>3 DEF TopOf
  <2>5. \A v \in Allocas : hb[k][v] = hb[k - 1][v]
    BY <2>1
  <2>6. ~IsLocalAccess(i, "store")
    BY <1>5, <1>8
  <2>7. Recalls(hb, b, q.replacement, k)
    BY <1>1, <2>1, <2>2, <2>4, <2>5, <2>6, RecallsMore, Zenon DEF i
  <2>8. QED
    BY <2>1, <2>7
<1>9. CASE IsLocalAccess(i, "store")
  <2>1. IsPushed(q, r, i.var, StoredAt(r, <<b, k>>))
    BY <1>2, <1>4, <1>9 DEF GoesTo
  <2>2. /\ q.known = r.known \cup {i.var} /\ q.replacement = r.replacement
        /\ EndsIn(q.stacks[i.var], r.stacks[i.var], StoredAt(r, <<b, k>>))
        /\ \A u \in Allocas : u # i.var => q.stacks[u] = r.stacks[u]
    BY <2>1 DEF IsPushed
  <2>3. StoredAt(r, <<b, k>>) = StoredIn(q.replacement, <<b, k>>)
    BY <2>2 DEF StoredAt, StoredIn, Resolve
  <2>4. hb[k][i.var] = StoredIn(q.replacement, <<b, k>>)
    <3> DEFINE s == q.stacks[i.var]
               t == r.stacks[i.var]
    <3>1. s \in Seq(Values) /\ t \in Seq(Values) /\ s # << >> /\ Len(s) = Len(t) + 1
          /\ \A j \in DOMAIN s : j \in DOMAIN t \/ s[j] = StoredAt(r, <<b, k>>)
      BY <1>3, <1>6, <1>9, <2>2 DEF EndsIn
    <3>2. hb[k][i.var] = TopOf(s)
      BY <1>6, <1>9
    <3> HIDE DEF s, t
    <3>3. Len(s) \in DOMAIN s /\ TopOf(s) = s[Len(s)]
      BY <3>1, TopIs
    <3>4. Len(s) \notin DOMAIN t
      <4>1. DOMAIN t = 1..Len(t) /\ Len(t) \in Nat
        BY <3>1, LenProperties
      <4>2. QED
        BY <3>1, <4>1
    <3>5. QED
      BY <2>3, <3>1, <3>2, <3>3, <3>4
  <2>5. \A v \in Allocas : v # i.var => hb[k][v] = hb[k - 1][v]
    BY <2>2
  <2>6. Recalls(hb, b, q.replacement, k)
    BY <1>1, <1>6, <1>9, <2>2, <2>4, <2>5, RecallsMore, Zenon DEF i
  <2>7. StacksKnown(q.stacks, q.known)
    BY <2>2 DEF StacksKnown
  <2>8. QED
    BY <2>6, <2>7
<1>10. CASE IsLocalAccess(i, "load")
  <2>1. CASE i.var \notin r.known /\ q = r
    <3>1. r.stacks[i.var] = << >>
      BY <1>5, <1>10, <2>1 DEF StacksKnown
    <3>2. QED
      BY <1>5, <1>7, <1>10, <2>1, <3>1
  <2>2. QED
    BY <1>2, <1>4, <1>8, <1>10, <2>1 DEF GoesTo
<1>11. CASE ~IsLocalAccess(i, "load") /\ ~IsLocalAccess(i, "store")
  BY <1>2, <1>4, <1>7, <1>11 DEF GoesTo
<1>12. QED
  BY <1>9, <1>10, <1>11

\* The values that come into b: its phis, and otherwise what its parent in the
\* tree has left.
ComesIn(h, b) ==
    \A v \in Allocas :
        /\ v \in ToSet(phis[b]) => h[b][0][v] = PhiOf(b, v)
        /\ v \notin ToSet(phis[b]) => \A d \in Live : b \in ChildrenOf(Doms, d) =>
              h[b][0][v] = h[d][Len(func.code[d])][v]

\* The values that go out of b: they are at home in its dominators, and they
\* are operands of the phis behind b.
GoesOut(out, b, prs) ==
    \A v \in Allocas : out[v] # Undefined =>
        /\ HomeOf(out[v]) \in Doms[b]
        /\ \A t \in Succ(func, b) : v \in ToSet(phis[t]) =>
              \E k \in DOMAIN prs[PhiOf(t, v)] : prs[PhiOf(t, v)][k] = <<out[v], b>>

\* What has been seen of the blocks E, with the replacements and operands of now.
History(h, E, rep, prs) ==
    \A b \in E : /\ Recalls(h[b], b, rep, Len(func.code[b]))
                 /\ ComesIn(h, b)
                 /\ GoesOut(h[b][Len(func.code[b])], b, prs)

\* All of the block.
LEMMA BlockRecalls ==
    ASSUME NEW E, NEW b, Ready(E, b), StacksKnown(stacks, known),
           NEW r, r = RenameBlock(b), ~r.failed
    PROVE  \E hb : /\ Recalls(hb, b, r.replacement, Len(func.code[b]))
                   /\ \A v \in Allocas :
                         /\ v \in ToSet(phis[b]) => hb[0][v] = PhiOf(b, v)
                         /\ v \notin ToSet(phis[b]) => hb[0][v] = TopOf(stacks[v])
                         /\ hb[Len(func.code[b])][v] = TopOf(r.stacks[v])
                   /\ StacksKnown(r.stacks, r.known)
<1> DEFINE N == Len(func.code[b])
<1>1. PICK R : Renames(R, b)
  BY RenameRuns
<1>2. Sound(func) /\ b \in Blocks(func) /\ DOMAIN func.code[b] = 1..N /\ N \in Nat
      /\ stacks \in [Allocas -> Seq(Values)] /\ PhisFit
  BY ReadyFacts DEF Ready
<1>3. R[0] = PushPhis(b) /\ R[N] = r
      /\ \A k \in 1..N : R[k] = RenameInstr(R[k - 1], <<b, k>>)
  BY <1>1 DEF Renames
<1> DEFINE hb == [k \in 0..N |-> [v \in Allocas |-> TopOf(R[k].stacks[v])]]
           Right(k) == /\ R[k] \in States
                       /\ ~R[k].failed => /\ Recalls(hb, b, R[k].replacement, k)
                                          /\ StacksKnown(R[k].stacks, R[k].known)
           Good == {k \in 0..N : Right(k)}
<1> HIDE DEF N
<1>4. \A k \in 0..N : \A v \in Allocas : hb[k][v] = TopOf(R[k].stacks[v])
  OBVIOUS
<1> HIDE DEF hb
<1>5. /\ R[0] \in States
      /\ R[0].stacks = [v \in DOMAIN stacks |->
             IF v \in ToSet(phis[b]) THEN Append(stacks[v], PhiOf(b, v)) ELSE stacks[v]]
      /\ R[0].known = known \cup ToSet(phis[b])
  <2>1. Renamed(b, 0, PushPhis(b))
    BY PhisRenamed
  <2>2. QED
    BY <1>3, <2>1 DEF Renamed, PushPhis
<1>6. \A v \in Allocas : R[0].stacks[v] = IF v \in ToSet(phis[b]) THEN Append(stacks[v], PhiOf(b, v))
                                          ELSE stacks[v]
  BY <1>2, <1>5
<1>7. 0 \in Good
  <2>1. StacksKnown(R[0].stacks, R[0].known)
    BY <1>5, <1>6 DEF StacksKnown
  <2>2. Recalls(hb, b, R[0].replacement, 0)
    BY DEF Recalls
  <2>3. 0 \in 0..N
    BY <1>2
  <2>4. QED
    BY <1>5, <2>1, <2>2, <2>3
<1>8. ASSUME NEW k \in 1..N, k - 1 \in Good
      PROVE  k \in Good
  <2>1. k \in DOMAIN func.code[b] /\ k \in 0..N /\ k - 1 \in 0..N
    BY <1>2
  <2>2. Right(k - 1) /\ R[k] = RenameInstr(R[k - 1], <<b, k>>)
    BY <1>3, <1>8
  <2>3. R[k] \in States /\ GoesTo(R[k - 1], b, k, func.code[b][k], R[k])
    BY <1>2, <2>1, <2>2, RenameInstrCases
  <2>4. ASSUME ~R[k].failed
        PROVE  Recalls(hb, b, R[k].replacement, k) /\ StacksKnown(R[k].stacks, R[k].known)
    <3>1. ~R[k - 1].failed
      BY <2>3, <2>4 DEF GoesTo
    <3>2. \A v \in Allocas : hb[k - 1][v] = TopOf(R[k - 1].stacks[v]) /\ hb[k][v] = TopOf(R[k].stacks[v])
      BY <1>4, <2>1
    <3>3. R[k - 1] \in States /\ Recalls(hb, b, R[k - 1].replacement, k - 1)
          /\ StacksKnown(R[k - 1].stacks, R[k - 1].known)
      BY <2>2, <3>1
    <3>4. QED
      BY <2>1, <2>2, <2>4, <3>2, <3>3, InstrRecalls
  <2>5. QED
    BY <2>1, <2>3, <2>4
<1>9. N \in Good
  <2> HIDE DEF Good
  <2>1. 0..N \subseteq Good
    BY <1>2, <1>7, <1>8, UpTo
  <2>2. QED
    BY <1>2, <2>1
<1>10. Recalls(hb, b, r.replacement, N) /\ StacksKnown(r.stacks, r.known)
  BY <1>3, <1>9
<1>11. ASSUME NEW v \in Allocas
       PROVE  /\ v \in ToSet(phis[b]) => hb[0][v] = PhiOf(b, v)
              /\ v \notin ToSet(phis[b]) => hb[0][v] = TopOf(stacks[v])
              /\ hb[N][v] = TopOf(r.stacks[v])
  <2>1. hb[0][v] = TopOf(R[0].stacks[v]) /\ hb[N][v] = TopOf(r.stacks[v])
    <3>1. 0 \in 0..N /\ N \in 0..N
      BY <1>2
    <3>2. QED
      BY <1>3, <1>4, <3>1
  <2>2. ASSUME v \in ToSet(phis[b])
        PROVE  TopOf(R[0].stacks[v]) = PhiOf(b, v)
    <3> DEFINE s == stacks[v]
               p == PhiOf(b, v)
    <3>1. s \in Seq(Values) /\ p \in Values
      BY <1>2, <2>2 DEF Values, PhiPlaces
    <3>2. R[0].stacks[v] = Append(s, p)
      BY <1>6, <2>2
    <3> HIDE DEF s, p
    <3>3. Append(s, p) \in Seq(Values) /\ EndsIn(Append(s, p), s, p)
      BY <3>1, AppendEndsIn
    <3>4. TopOf(Append(s, p)) = p
      <4>1. Len(Append(s, p)) = Len(s) + 1 /\ Append(s, p)[Len(s) + 1] = p /\ Append(s, p) # << >>
        BY <3>1
      <4>2. QED
        BY <4>1 DEF TopOf
    <3>5. QED
      BY <3>2, <3>4 DEF p
  <2>3. QED
    BY <1>6, <2>1, <2>2
<1>12. QED
  BY <1>10, <1>11 DEF N

\* The operands that FillPhis adds to those that were there.
LEMMA FilledIs ==
    ASSUME NEW E, NEW b, Ready(E, b), pairs \in Operandss, NEW r \in States,
           \A q \in PhisBehind(b, r) : r.stacks[PhiVar(q)] # << >>,
           NEW q \in PhiPlaces
    PROVE  /\ \A k \in DOMAIN pairs[q] : k \in DOMAIN FillPhis(b, r)[q] /\ FillPhis(b, r)[q][k] = pairs[q][k]
           /\ q[1] \in Succ(func, b) /\ PhiVar(q) \in r.known =>
                 \E k \in DOMAIN FillPhis(b, r)[q] :
                     FillPhis(b, r)[q][k] = <<TopOf(r.stacks[PhiVar(q)]), b>>
<1> DEFINE new == FillPhis(b, r)
           s == pairs[q]
<1>1. DOMAIN pairs = PhiPlaces /\ s \in Seq(Values \X Blocks(func)) /\ b \in Blocks(func)
  BY ReadyFacts DEF Operandss
<1>2. new[q] = IF q \in PhisBehind(b, r) THEN Append(s, <<Last(r.stacks[PhiVar(q)]), b>>) ELSE s
  BY <1>1 DEF FillPhis
<1>3. q \in PhisBehind(b, r) <=> q[1] \in Succ(func, b) /\ PhiVar(q) \in r.known
  BY <1>1 DEF PhisBehind
<1>4. ASSUME q \in PhisBehind(b, r)
      PROVE  /\ \A k \in DOMAIN s : k \in DOMAIN new[q] /\ new[q][k] = s[k]
             /\ \E k \in DOMAIN new[q] : new[q][k] = <<TopOf(r.stacks[PhiVar(q)]), b>>
  <2> DEFINE t == r.stacks[PhiVar(q)]
             e == <<Last(t), b>>
  <2>1. t \in Seq(Values) /\ t # << >>
    <3>1. PhiVar(q) \in Allocas
      BY PhiPlaceIs DEF Ready
    <3>2. r.stacks \in [Allocas -> Seq(Values)]
      BY StateIs
    <3>3. QED
      BY <1>4, <3>1, <3>2
  <2>2. new[q] = Append(s, e)
    BY <1>2, <1>4
  <2> HIDE DEF t, s, new
  <2>3. TopOf(t) = Last(t) /\ Last(t) \in Values
    BY <2>1, TopIs, FrontIs
  <2>4. e \in Values \X Blocks(func)
    BY <1>1, <2>3
  <2> HIDE DEF e
  <2>5. /\ Len(s) \in Nat /\ DOMAIN s = 1..Len(s)
        /\ DOMAIN Append(s, e) = 1..(Len(s) + 1) /\ Append(s, e)[Len(s) + 1] = e
        /\ \A k \in 1..Len(s) : Append(s, e)[k] = s[k]
    BY <1>1, <2>4, AppendProperties, LenProperties
  <2>6. Len(s) + 1 \in DOMAIN Append(s, e) /\ \A k \in DOMAIN s : k \in DOMAIN Append(s, e)
    BY <2>5
  <2>7. QED
    BY <2>2, <2>3, <2>5, <2>6 DEF e, t
<1> HIDE DEF new, s
<1>5. QED
  BY <1>2, <1>3, <1>4 DEF new, s

\* Seen before, and as true after the call on one more block.
LEMMA OldHistory ==
    ASSUME NEW E, NEW b, Ready(E, b), E \subseteq Live, \A c \in E : Doms[c] \subseteq E,
           NEW rep, NEW prs, NEW h, NEW g, History(h, E, replacement, pairs),
           \A c \in E : g[c] = h[c],
           \A l \in DOMAIN replacement : l \in DOMAIN rep /\ rep[l] = replacement[l],
           \A l \in DOMAIN rep : l \in DOMAIN replacement \/ l[1] = b,
           \A q \in PhiPlaces : \A k \in DOMAIN pairs[q] : k \in DOMAIN prs[q] /\ prs[q][k] = pairs[q][k]
    PROVE  History(g, E, rep, prs)
<1> SUFFICES ASSUME NEW c \in E
             PROVE  /\ Recalls(h[c], c, rep, Len(func.code[c]))
                    /\ ComesIn(g, c)
                    /\ GoesOut(h[c][Len(func.code[c])], c, prs)
  BY DEF History
<1>1. /\ Recalls(h[c], c, replacement, Len(func.code[c])) /\ ComesIn(h, c)
      /\ GoesOut(h[c][Len(func.code[c])], c, pairs)
  BY DEF History
<1>2. /\ Sound(func) /\ c # b /\ c \in Live /\ c \in Blocks(func)
      /\ Len(func.code[c]) \in 0..Len(func.code[c])
      /\ IsTree(Live, Doms) /\ PhisFit
  <2>1. Sound(func) /\ PhisFit /\ b \notin E
    BY DEF Ready
  <2>2. c \in Live /\ c \in Blocks(func) /\ Len(func.code[c]) \in Nat /\ IsTree(Live, Doms)
    BY <2>1, SoundFacts DEF Live, Doms
  <2>3. QED
    BY <2>1, <2>2
<1>3. Recalls(h[c], c, rep, Len(func.code[c]))
  <2>1. \A m : <<c, m>>[1] # b
    BY <1>2
  <2>2. QED
    BY <1>1, <1>2, <2>1, RecallsStays
<1>4. ComesIn(g, c)
  <2>1. \A d \in Live : c \in ChildrenOf(Doms, d) => d \in E
    BY <1>2, ChildFacts
  <2>2. QED
    BY <1>1, <2>1 DEF ComesIn
<1>5. GoesOut(h[c][Len(func.code[c])], c, prs)
  <2> DEFINE out == h[c][Len(func.code[c])]
  <2>1. GoesOut(out, c, pairs)
    BY <1>1
  <2> HIDE DEF out
  <2>2. ASSUME NEW v \in Allocas, NEW t \in Succ(func, c), v \in ToSet(phis[t]), out[v] # Undefined
        PROVE  \E k \in DOMAIN prs[PhiOf(t, v)] : prs[PhiOf(t, v)][k] = <<out[v], c>>
    <3>1. PhiOf(t, v) \in PhiPlaces
      <4>1. t \in Blocks(func)
        BY <1>2, SoundFacts DEF WellFormed, Succ
      <4>2. QED
        BY <2>2, <4>1 DEF PhiPlaces
    <3>2. PICK k \in DOMAIN pairs[PhiOf(t, v)] : pairs[PhiOf(t, v)][k] = <<out[v], c>>
      BY <2>1, <2>2 DEF GoesOut
    <3>3. QED
      BY <3>1, <3>2
  <2>3. GoesOut(out, c, prs)
    BY <2>1, <2>2 DEF GoesOut
  <2>4. QED
    BY <2>3 DEF out
<1>6. QED
  BY <1>3, <1>4, <1>5

\* The stacks are as b has left them.
Leaves(h, b, sts) == \A v \in Allocas : h[b][Len(func.code[b])][v] = TopOf(sts[v])

\* The parent of b has been seen, and the stacks are as it has left them.
FromParent(h, E, b) ==
    \A d \in Live : b \in ChildrenOf(Doms, d) => d \in E /\ Leaves(h, d, stacks)

\* On the blocks E they are the same.
SameOn(E, g, h) == \A c \in E : g[c] = h[c]

\* The call on one more block sees what it leaves.
LEMMA EnterHistory ==
    ASSUME NEW E, NEW b, Ready(E, b), E \subseteq Live, \A c \in E : Doms[c] \subseteq E,
           pairs \in Operandss, StacksKnown(stacks, known),
           NEW h, History(h, E, replacement, pairs),
           FromParent(h, E, b), Enter(b), phase' = "rename"
    PROVE  /\ StacksKnown(stacks', known')
           /\ \E g : /\ History(g, E \cup {b}, replacement', pairs')
                     /\ SameOn(E, g, h)
                     /\ Leaves(g, b, stacks')
<1> DEFINE r == RenameBlock(b)
           N == Len(func.code[b])
<1>1. /\ stacks' = r.stacks /\ known' = r.known /\ replacement' = r.replacement
      /\ pairs' = FillPhis(b, r) /\ ~r.failed
      /\ \A q \in PhisBehind(b, r) : r.stacks[PhiVar(q)] # << >>
  BY DEF Enter
<1>2. r \in States /\ BlockLeft(E, b, r)
  <2>1. BlockLeft(E, b, r)
    BY <1>1, BlockLeaves
  <2> HIDE DEF r
  <2>2. QED
    BY <2>1 DEF BlockLeft
<1>3. LoadsRenamed(b, N, r)
  BY <1>1, BlockRenamed DEF Renamed
<1>4. PICK hb : /\ Recalls(hb, b, r.replacement, N)
                /\ \A v \in Allocas :
                      /\ v \in ToSet(phis[b]) => hb[0][v] = PhiOf(b, v)
                      /\ v \notin ToSet(phis[b]) => hb[0][v] = TopOf(stacks[v])
                      /\ hb[N][v] = TopOf(r.stacks[v])
                /\ StacksKnown(r.stacks, r.known)
  BY <1>1, BlockRecalls
<1> HIDE DEF r
<1>5. /\ Sound(func) /\ b \in Live /\ b \notin E /\ b \in Blocks(func) /\ PhisFit
  BY ReadyFacts DEF Ready
<1>6. \A q \in PhiPlaces :
        /\ \A k \in DOMAIN pairs[q] : k \in DOMAIN pairs'[q] /\ pairs'[q][k] = pairs[q][k]
        /\ q[1] \in Succ(func, b) /\ PhiVar(q) \in r.known =>
              \E k \in DOMAIN pairs'[q] : pairs'[q][k] = <<TopOf(r.stacks[PhiVar(q)]), b>>
  <2> DEFINE new == FillPhis(b, r)
  <2>1. ASSUME NEW q \in PhiPlaces
        PROVE  /\ \A k \in DOMAIN pairs[q] : k \in DOMAIN new[q] /\ new[q][k] = pairs[q][k]
               /\ q[1] \in Succ(func, b) /\ PhiVar(q) \in r.known =>
                     \E k \in DOMAIN new[q] : new[q][k] = <<TopOf(r.stacks[PhiVar(q)]), b>>
    BY <1>1, <1>2, FilledIs
  <2>2. pairs' = new
    BY <1>1
  <2> HIDE DEF new
  <2>3. QED
    BY <2>1, <2>2
<1> DEFINE g == [c \in E \cup {b} |-> IF c = b THEN hb ELSE h[c]]
<1>7. g[b] = hb /\ \A c \in E : g[c] = h[c]
  BY <1>5
<1> HIDE DEF g
<1>8. History(g, E, replacement', pairs')
  <2>1. \A l \in DOMAIN replacement : l \in DOMAIN replacement' /\ replacement'[l] = replacement[l]
    BY <1>1, <1>3 DEF LoadsRenamed
  <2>2. \A l \in DOMAIN replacement' : l \in DOMAIN replacement \/ l[1] = b
    BY <1>1, <1>2 DEF BlockLeft
  <2>3. QED
    BY <1>6, <1>7, <2>1, <2>2, OldHistory
<1>9. ComesIn(g, b)
  <2> SUFFICES ASSUME NEW v \in Allocas
               PROVE  /\ v \in ToSet(phis[b]) => g[b][0][v] = PhiOf(b, v)
                      /\ v \notin ToSet(phis[b]) => \A d \in Live : b \in ChildrenOf(Doms, d) =>
                            g[b][0][v] = g[d][Len(func.code[d])][v]
    BY DEF ComesIn
  <2>1. QED
    BY <1>4, <1>7 DEF FromParent, Leaves
<1>10. GoesOut(hb[N], b, pairs')
  <2> SUFFICES ASSUME NEW v \in Allocas, hb[N][v] # Undefined
               PROVE  /\ HomeOf(hb[N][v]) \in Doms[b]
                      /\ \A t \in Succ(func, b) : v \in ToSet(phis[t]) =>
                            \E k \in DOMAIN pairs'[PhiOf(t, v)] :
                                pairs'[PhiOf(t, v)][k] = <<hb[N][v], b>>
    BY DEF GoesOut
  <2>1. r.stacks[v] \in Seq(Values) /\ hb[N][v] = TopOf(r.stacks[v])
    <3>1. r.stacks \in [Allocas -> Seq(Values)]
      BY <1>2, StateIs
    <3>2. QED
      BY <1>4, <3>1
  <2>2. r.stacks[v] # << >> /\ Len(r.stacks[v]) \in DOMAIN r.stacks[v]
        /\ hb[N][v] = r.stacks[v][Len(r.stacks[v])]
    BY <2>1, TopIs
  <2>3. HomeOf(hb[N][v]) \in Doms[b]
    BY <1>2, <2>2 DEF BlockLeft
  <2>4. v \in r.known
    BY <1>4, <2>2 DEF StacksKnown
  <2>5. ASSUME NEW t \in Succ(func, b), v \in ToSet(phis[t])
        PROVE  \E k \in DOMAIN pairs'[PhiOf(t, v)] : pairs'[PhiOf(t, v)][k] = <<hb[N][v], b>>
    <3> DEFINE q == PhiOf(t, v)
    <3>1. t \in Blocks(func)
      BY <1>5, SoundFacts DEF WellFormed, Succ
    <3>2. q \in PhiPlaces
      BY <2>5, <3>1 DEF PhiPlaces
    <3>3. q[1] = t /\ PhiVar(q) = v
      <4>1. v \in PlacesOf(func)
        BY DEF Allocas
      <4>2. v = <<v[1], v[2]>>
        BY <4>1, PlaceIs
      <4>3. q[1] = t /\ q[2] = v[1] /\ q[3] = v[2]
        BY DEF PhiOf
      <4>4. QED
        BY <4>2, <4>3 DEF PhiVar
    <3> HIDE DEF q
    <3>4. PICK k \in DOMAIN pairs'[q] : pairs'[q][k] = <<TopOf(r.stacks[v]), b>>
      BY <1>6, <2>4, <3>2, <3>3
    <3>5. pairs'[q][k] = <<hb[N][v], b>>
      BY <2>1, <3>4
    <3>6. QED
      BY <3>5 DEF q
  <2>6. QED
    BY <2>3, <2>5
<1>11. Recalls(g[b], b, replacement', N)
  BY <1>1, <1>4, <1>7
<1>12. History(g, E \cup {b}, replacement', pairs')
  <2>1. GoesOut(g[b][N], b, pairs')
    BY <1>7, <1>10
  <2>2. QED
    BY <1>8, <1>9, <1>11, <2>1 DEF History
<1>13. Leaves(g, b, stacks')
  BY <1>1, <1>4, <1>7 DEF Leaves
<1>14. StacksKnown(stacks', known')
  BY <1>1, <1>4
<1>15. QED
  BY <1>7, <1>12, <1>13, <1>14 DEF SameOn

-----------------------------------------------------------------------------
(* The history goes with the calls: where a call is still open, its block's *)
(* last tops are still in the stacks.                                       *)

\* The value at place m of a stack, counted from one.
TopAt(s, m) == IF m = 0 THEN Undefined ELSE s[m]

\* For each open call of cs the stacks still hold what was on top at its end.
Linked(h, cs, sts) ==
    \A n \in DOMAIN cs : \A v \in Allocas :
        h[cs[n][1]][Len(func.code[cs[n][1]])][v] = TopAt(sts[v], Pushed(cs, v)[n])

\* The walk has a history.
HInv == phase \in {"rename", "done"} =>
            /\ StacksKnown(stacks, known)
            /\ \E h : /\ History(h, Entered(Live, Doms, calls), replacement, pairs)
                      /\ Linked(h, calls, stacks)

\* The top of a stack is its last place.
LEMMA TopAtLast ==
    ASSUME NEW s \in Seq(Values)
    PROVE  TopAt(s, Len(s)) = TopOf(s)
<1>1. s = << >> <=> Len(s) = 0
  BY EmptySeq
<1>2. QED
  BY <1>1 DEF TopAt, TopOf

\* These depend on the function and its phis alone.
LEMMA SameHistory ==
    ASSUME func' = func, phis' = phis
    PROVE  /\ \A h, E, rep, prs : History(h, E, rep, prs)' <=> History(h, E, rep, prs)
           /\ \A h, cs, sts : Linked(h, cs, sts)' <=> Linked(h, cs, sts)
           /\ \A sts, kn : StacksKnown(sts, kn)' <=> StacksKnown(sts, kn)
<1>1. /\ Allocas' = Allocas /\ Live' = Live /\ Doms' = Doms
      /\ \A cs, v : Pushed(cs, v)' = Pushed(cs, v)
  BY SameSets
<1>2. \A rep, p : StoredIn(rep, p)' = StoredIn(rep, p)
  BY DEF StoredIn, InstrAt
<1>3. \A hb, b, rep, n : Recalls(hb, b, rep, n)' <=> Recalls(hb, b, rep, n)
  <2>1. \A i, op : IsLocalAccess(i, op)' <=> IsLocalAccess(i, op)
    BY DEF IsLocalAccess, InstrAt
  <2>2. QED
    BY <1>1, <1>2, <2>1 DEF Recalls
<1>4. \A h, b : ComesIn(h, b)' <=> ComesIn(h, b)
  BY <1>1 DEF ComesIn
<1>5. \A out, b, prs : GoesOut(out, b, prs)' <=> GoesOut(out, b, prs)
  BY <1>1 DEF GoesOut
<1>6. \A h, E, rep, prs : History(h, E, rep, prs)' <=> History(h, E, rep, prs)
  BY <1>3, <1>4, <1>5 DEF History
<1>7. \A h, cs, sts : Linked(h, cs, sts)' <=> Linked(h, cs, sts)
  BY <1>1 DEF Linked
<1>8. \A sts, kn : StacksKnown(sts, kn)' <=> StacksKnown(sts, kn)
  BY <1>1 DEF StacksKnown
<1>9. QED
  BY <1>6, <1>7, <1>8

\* The invariant from its parts on the next values.
LEMMA HistoryNext ==
    ASSUME func' = func, phis' = phis, StacksKnown(stacks', known'),
           NEW E, E = Entered(Live, Doms, calls'),
           NEW h, History(h, E, replacement', pairs'), Linked(h, calls', stacks')
    PROVE  HInv'
<1>1. Live' = Live /\ Doms' = Doms
  BY SameSets
<1>2. Entered(Live, Doms, calls)' = E
  BY <1>1
<1>3. History(h, E, replacement, pairs)'
  BY SameHistory
<1>4. Linked(h, calls, stacks)' /\ StacksKnown(stacks, known)'
  BY SameHistory
<1>5. History(h, Entered(Live, Doms, calls), replacement, pairs)'
  BY <1>2, <1>3
<1>6. QED
  BY <1>4, <1>5 DEF HInv

\* One call more: the stacks it leaves hold what was on top for the others.
LEMMA LinkedDeepens ==
    ASSUME Sound(func), PhisFit, NEW cs, CallsFit(Live, Doms, cs), StacksFit(cs, stacks),
           NEW new, CallsFit(Live, Doms, new), Len(new) = Len(cs) + 1,
           \A k \in 1..Len(cs) : new[k][1] = cs[k][1],
           stacks \in [Allocas -> Seq(Values)],
           NEW E, NEW b, new[Len(cs) + 1][1] = b, NEW r, BlockLeft(E, b, r),
           NEW h, NEW g, Linked(h, cs, stacks),
           \A k \in 1..Len(cs) : g[cs[k][1]] = h[cs[k][1]],
           Leaves(g, b, r.stacks)
    PROVE  Linked(g, new, r.stacks)
<1> SUFFICES ASSUME NEW n \in DOMAIN new, NEW v \in Allocas
             PROVE  g[new[n][1]][Len(func.code[new[n][1]])][v] = TopAt(r.stacks[v], Pushed(new, v)[n])
  BY DEF Linked
<1> DEFINE P == Pushed(cs, v)
           Q == Pushed(new, v)
           N == Len(cs)
           Out(c) == Len(func.code[c])
<1>1. /\ N \in Nat /\ DOMAIN cs = 1..N /\ Counts(P, cs, v)
      /\ \A k \in 1..N : Pops(cs[k][1], v) \in Nat
  BY CallCounts
<1>2. DOMAIN new = 1..(N + 1) /\ Counts(Q, new, v)
  BY CallCounts
<1>3. StacksFit(new, r.stacks)
  BY StacksDeepen
<1>4. /\ Len(stacks[v]) = P[N] /\ Len(r.stacks[v]) = Q[N + 1]
      /\ stacks[v] \in Seq(Values) /\ r.stacks[v] \in Seq(Values)
      /\ \A j \in DOMAIN stacks[v] : j \in DOMAIN r.stacks[v] /\ r.stacks[v][j] = stacks[v][j]
  <2>1. r.stacks \in [Allocas -> Seq(Values)]
    BY StateIs DEF BlockLeft
  <2>2. QED
    BY <1>3, <2>1 DEF StacksFit, BlockLeft
<1>5. \A k \in 1..N : g[cs[k][1]][Out(cs[k][1])][v] = TopAt(stacks[v], P[k])
  <2>1. \A k \in DOMAIN cs : h[cs[k][1]][Out(cs[k][1])][v] = TopAt(stacks[v], P[k])
    BY DEF Linked
  <2>2. QED
    BY <1>1, <2>1
<1> HIDE DEF P, Q
<1>6. \A k \in 0..N : Q[k] = P[k]
  <2>1. N \in Nat /\ N <= Len(cs) /\ N <= Len(new) /\ Len(cs) \in Nat /\ Len(new) \in Nat
    BY <1>1
  <2>2. \A k \in 1..N : new[k][1] = cs[k][1]
    OBVIOUS
  <2> HIDE DEF N
  <2>3. QED
    BY <1>1, <1>2, <2>1, <2>2, SameCounts, SMTT(30)
<1>7. CASE n = N + 1
  <2>1. TopAt(r.stacks[v], Q[n]) = TopOf(r.stacks[v])
    BY <1>4, <1>7, TopAtLast
  <2>2. QED
    BY <1>7, <2>1 DEF Q, Leaves
<1>8. CASE n \in 1..N
  <2>1. Q[n] = P[n] /\ P[n] \in Nat /\ P[n] <= P[N]
    <3>1. n \in 0..Len(cs) /\ Len(cs) \in Nat /\ n \in 0..N
      BY <1>1, <1>8
    <3>2. P[n] <= P[Len(cs)]
      BY <1>1, <3>1, CountsGrow, Zenon
    <3>3. P[n] \in Nat
      BY <1>1, <3>1 DEF Counts
    <3>4. QED
      BY <1>6, <3>1, <3>2, <3>3
  <2>2. TopAt(r.stacks[v], P[n]) = TopAt(stacks[v], P[n])
    <3>1. DOMAIN stacks[v] = 1..P[N] /\ P[N] \in Nat
      <4>1. DOMAIN stacks[v] = 1..Len(stacks[v]) /\ Len(stacks[v]) \in Nat
        BY <1>4, LenProperties
      <4>2. QED
        BY <1>4, <4>1
    <3>2. P[n] # 0 => P[n] \in DOMAIN stacks[v]
      BY <2>1, <3>1
    <3>3. QED
      BY <1>4, <3>2 DEF TopAt
  <2>3. new[n][1] = cs[n][1]
    BY <1>8
  <2>4. QED
    BY <1>5, <1>8, <2>1, <2>2, <2>3 DEF Q
<1>9. QED
  BY <1>1, <1>2, <1>7, <1>8

\* The first call.
LEMMA StartHistory ==
    ASSUME phase = "place", Prepared, Placing, StartRename, phase' = "rename"
    PROVE  HInv'
<1>1. Sound(func) /\ PhisFit /\ IsTree(Live, Doms) /\ Entry \in Live
  BY SoundFacts DEF Prepared, Live, Doms
<1>2. /\ stacks = [v \in Allocas |-> << >>] /\ known = {} /\ calls = << >>
  BY DEF Placing
<1>3. /\ func' = func /\ phis' = phis
      /\ Enter(Entry) /\ calls' = <<<<Entry, dominators.tree[Entry]>>>>
  BY DEF StartRename
<1>4. /\ Ready({}, Entry) /\ OperandsFit({}, pairs) /\ pairs \in Operandss
      /\ stacks \in [Allocas -> Seq(Values)]
  BY StartReady DEF Ready
<1>5. calls' = <<<<Entry, ChildrenOf(Doms, Entry)>>>>
  BY <1>1, <1>3 DEF Prepared
<1>6. /\ CallsFit(Live, Doms, calls') /\ Entered(Live, Doms, calls') = {Entry}
      /\ Len(calls') = 1 /\ calls'[1][1] = Entry
  BY <1>1, <1>5, CallsStart
<1>7. \A d \in Live : Entry \notin ChildrenOf(Doms, d)
  BY <1>1, ChildFacts
<1>8. StacksKnown(stacks, known)
  BY <1>2 DEF StacksKnown
<1> DEFINE E == {}
<1>9. /\ \A c : c \notin E
      /\ E \cup {Entry} = {Entry}
      /\ Ready(E, Entry)
  BY <1>4
<1> HIDE DEF E
<1>10. PICK g : /\ StacksKnown(stacks', known')
                /\ History(g, E \cup {Entry}, replacement', pairs')
                /\ Leaves(g, Entry, stacks')
  <2>1. E \subseteq Live /\ \A c \in E : Doms[c] \subseteq E
    BY <1>9
  <2>2. PICK h : History(h, E, replacement, pairs)
    BY <1>9 DEF History
  <2>3. FromParent(h, E, Entry)
    BY <1>7 DEF FromParent
  <2>4. QED
    BY <1>3, <1>4, <1>8, <1>9, <2>1, <2>2, <2>3, EnterHistory
<1>11. BlockLeft(E, Entry, RenameBlock(Entry)) /\ stacks' = RenameBlock(Entry).stacks
  <2>1. ~RenameBlock(Entry).failed /\ stacks' = RenameBlock(Entry).stacks
    BY <1>3 DEF Enter
  <2>2. QED
    BY <1>9, <2>1, BlockLeaves
<1>12. Linked(g, calls', stacks')
  <2> DEFINE r == RenameBlock(Entry)
  <2>1. BlockLeft(E, Entry, r) /\ stacks' = r.stacks
    BY <1>11
  <2> HIDE DEF r
  <2>2. /\ CallsFit(Live, Doms, calls) /\ Len(calls) = 0 /\ DOMAIN calls = {}
    BY <1>2 DEF CallsFit, Called, ToCome
  <2>3. StacksFit(calls, stacks)
    <3> SUFFICES ASSUME NEW v \in Allocas
                 PROVE  Len(stacks[v]) = Pushed(calls, v)[Len(calls)]
      BY <2>2 DEF StacksFit
    <3>1. Counts(Pushed(calls, v), calls, v)
      BY <1>1, <2>2, CallCounts
    <3>2. QED
      BY <1>2, <2>2, <3>1 DEF Counts
  <2>4. Linked(g, calls, stacks)
    BY <2>2 DEF Linked
  <2>5. /\ Len(calls') = Len(calls) + 1 /\ calls'[Len(calls) + 1][1] = Entry
        /\ \A k \in 1..Len(calls) : calls'[k][1] = calls[k][1]
    BY <1>6, <2>2
  <2>6. Leaves(g, Entry, r.stacks)
    BY <1>10, <2>1
  <2>7. \A k \in 1..Len(calls) : g[calls[k][1]] = g[calls[k][1]]
    OBVIOUS
  <2>8. Linked(g, calls', r.stacks)
    BY <1>1, <1>4, <1>6, <2>1, <2>2, <2>3, <2>4, <2>5, <2>6, <2>7, LinkedDeepens, Zenon
  <2>9. QED
    BY <2>1, <2>8
<1>13. QED
  <2>1. History(g, {Entry}, replacement', pairs') /\ {Entry} = Entered(Live, Doms, calls')
    BY <1>6, <1>9, <1>10
  <2>2. QED
    BY <1>3, <1>10, <1>12, <2>1, HistoryNext

-----------------------------------------------------------------------------
(* The steps of the walk and the history.                                   *)

\* The call on a child.
LEMMA ChildHistory ==
    ASSUME phase = "rename", Prepared, Typed, calls # << >>, Walked, HInv, EnterChild,
           phase' = "rename"
    PROVE  HInv'
<1> DEFINE E == Entered(Live, Doms, calls)
           N == Len(calls)
<1>1. /\ Sound(func) /\ PhisFit /\ IsTree(Live, Doms)
      /\ CallsFit(Live, Doms, calls) /\ StacksFit(calls, stacks)
      /\ stacks \in [Allocas -> Seq(Values)]
  BY SoundFacts DEF Prepared, Live, Doms, Walked, Typed
<1>2. PICK c \in Last(calls)[2] :
         /\ Enter(c)
         /\ calls' = Append(Append(Front(calls), <<Last(calls)[1], Last(calls)[2] \ {c}>>),
                            <<c, dominators.tree[c]>>)
  BY DEF EnterChild
<1>3. func' = func /\ phis' = phis
  BY DEF EnterChild
<1>4. StacksKnown(stacks, known) /\ \E h : History(h, E, replacement, pairs) /\ Linked(h, calls, stacks)
  BY DEF HInv
<1>5. PICK h : History(h, E, replacement, pairs) /\ Linked(h, calls, stacks)
  BY <1>4
<1>6. /\ Ready(E, c) /\ pairs \in Operandss
      /\ CallsFit(Live, Doms, calls') /\ Entered(Live, Doms, calls') = E \cup {c}
      /\ N \in Nat \ {0} /\ DOMAIN calls = 1..N
      /\ Len(calls') = N + 1 /\ calls'[N + 1][1] = c
      /\ \A k \in 1..N : calls'[k][1] = calls[k][1]
      /\ calls[N][1] \in Live /\ c \in ChildrenOf(Doms, calls[N][1])
  BY <1>2, ChildReady
<1>7. E \subseteq Live /\ (\A d \in E : Doms[d] \subseteq E) /\ \A k \in 1..N : calls[k][1] \in E
  BY <1>1, <1>6, EnteredFacts DEF Called
<1> HIDE DEF E
<1>8. FromParent(h, E, c)
  <2> SUFFICES ASSUME NEW d \in Live, c \in ChildrenOf(Doms, d)
               PROVE  d \in E /\ Leaves(h, d, stacks)
    BY DEF FromParent
  <2>1. d = calls[N][1] /\ N \in 1..N
    BY <1>1, <1>6, OneParent
  <2>2. ASSUME NEW v \in Allocas
        PROVE  h[d][Len(func.code[d])][v] = TopOf(stacks[v])
    <3>1. h[d][Len(func.code[d])][v] = TopAt(stacks[v], Pushed(calls, v)[N])
      BY <1>5, <1>6, <2>1 DEF Linked
    <3>2. Len(stacks[v]) = Pushed(calls, v)[N] /\ stacks[v] \in Seq(Values)
      BY <1>1 DEF StacksFit
    <3>3. QED
      BY <3>1, <3>2, TopAtLast
  <2>3. QED
    BY <1>7, <2>1, <2>2 DEF Leaves
<1>9. PICK g : /\ StacksKnown(stacks', known')
               /\ History(g, E \cup {c}, replacement', pairs')
               /\ SameOn(E, g, h)
               /\ Leaves(g, c, stacks')
  <2>1. Enter(c) /\ StacksKnown(stacks, known) /\ History(h, E, replacement, pairs)
    BY <1>2, <1>4, <1>5
  <2>2. Ready(E, c) /\ pairs \in Operandss
    BY <1>6
  <2>3. E \subseteq Live /\ \A d \in E : Doms[d] \subseteq E
    BY <1>7
  <2>4. QED
    BY <1>8, <2>1, <2>2, <2>3, EnterHistory
<1>10. Linked(g, calls', stacks')
  <2> DEFINE r == RenameBlock(c)
  <2>1. BlockLeft(E, c, r) /\ stacks' = r.stacks
    BY <1>2, <1>6, BlockLeaves DEF Enter
  <2> HIDE DEF r
  <2>2. \A k \in 1..N : g[calls[k][1]] = h[calls[k][1]]
    BY <1>7, <1>9 DEF SameOn
  <2>3. Leaves(g, c, r.stacks)
    BY <1>9, <2>1
  <2>4. Linked(g, calls', r.stacks)
    BY <1>1, <1>5, <1>6, <2>1, <2>2, <2>3, LinkedDeepens, Zenon DEF N
  <2>5. QED
    BY <2>1, <2>4
<1>11. QED
  <2>1. E \cup {c} = Entered(Live, Doms, calls')
    BY <1>6
  <2>2. QED
    BY <1>3, <1>9, <1>10, <2>1, HistoryNext

\* The end of a call.
LEMMA LeaveHistory ==
    ASSUME phase = "rename", Prepared, Typed, calls # << >>, Walked, HInv, Leave
    PROVE  HInv'
<1> DEFINE E == Entered(Live, Doms, calls)
           N == Len(calls)
           b == Last(calls)[1]
<1>1. Sound(func) /\ PhisFit /\ IsTree(Live, Doms) /\ CallsFit(Live, Doms, calls)
  BY SoundFacts DEF Prepared, Live, Doms, Walked
<1>2. /\ func' = func /\ phis' = phis
      /\ known' = known /\ replacement' = replacement /\ pairs' = pairs
      /\ calls' = Front(calls) /\ Last(calls)[2] = {}
  BY DEF Leave
<1>3. StacksKnown(stacks, known) /\ \E h : History(h, E, replacement, pairs) /\ Linked(h, calls, stacks)
  BY DEF HInv
<1>4. PICK h : History(h, E, replacement, pairs) /\ Linked(h, calls, stacks)
  BY <1>3
<1>5. /\ N \in Nat \ {0} /\ DOMAIN calls = 1..N /\ Len(calls') = N - 1
      /\ DOMAIN calls' = 1..(N - 1) /\ \A k \in 1..(N - 1) : calls'[k] = calls[k]
  <2>1. calls \in Seq(Live \X SUBSET Live)
    BY <1>1 DEF CallsFit
  <2>2. QED
    BY <1>2, <2>1, FrontIs
<1>6. CallsFit(Live, Doms, calls') /\ Entered(Live, Doms, calls') = E
  BY <1>1, <1>2, CallsReturn
<1> HIDE DEF E, b, N
<1>7. ASSUME NEW v \in Allocas
      PROVE  /\ \A k \in 0..(N - 1) : Pushed(calls', v)[k] = Pushed(calls, v)[k]
             /\ stacks'[v] \in Seq(Values)
             /\ DOMAIN stacks'[v] = 1..Pushed(calls', v)[N - 1]
             /\ \A j \in DOMAIN stacks'[v] : j \in DOMAIN stacks[v] /\ stacks'[v][j] = stacks[v][j]
  BY LeavePops DEF N, b
<1>8. StacksKnown(stacks', known')
  <2> SUFFICES ASSUME NEW v \in Allocas, stacks'[v] # << >>
               PROVE  v \in known
    BY <1>2 DEF StacksKnown
  <2>1. Len(stacks'[v]) \in DOMAIN stacks'[v]
    BY <1>7, TopIs
  <2>2. stacks[v] # << >>
    BY <1>7, <2>1
  <2>3. QED
    BY <1>3, <2>2 DEF StacksKnown
<1>9. Linked(h, calls', stacks')
  <2> SUFFICES ASSUME NEW n \in DOMAIN calls', NEW v \in Allocas
               PROVE  h[calls'[n][1]][Len(func.code[calls'[n][1]])][v]
                        = TopAt(stacks'[v], Pushed(calls', v)[n])
    BY DEF Linked
  <2> DEFINE Q == Pushed(calls', v)
  <2>1. Counts(Q, calls', v) /\ \A k \in 1..Len(calls') : Pops(calls'[k][1], v) \in Nat
    BY <1>1, <1>6, CallCounts
  <2>2. h[calls[n][1]][Len(func.code[calls[n][1]])][v] = TopAt(stacks[v], Pushed(calls, v)[n])
    BY <1>4, <1>5 DEF Linked
  <2>3. Pushed(calls, v)[n] = Q[n] /\ calls'[n] = calls[n]
    BY <1>5, <1>7
  <2>4. DOMAIN stacks'[v] = 1..Q[N - 1]
    BY <1>7
  <2> HIDE DEF Q
  <2>5. Q[n] \in Nat /\ Q[N - 1] \in Nat /\ Q[n] <= Q[N - 1]
    <3>1. n \in 0..Len(calls') /\ Len(calls') \in Nat /\ Len(calls') = N - 1 /\ N - 1 \in 0..Len(calls')
      BY <1>5
    <3>2. Q[n] <= Q[Len(calls')]
      BY <2>1, <3>1, CountsGrow, Zenon
    <3>3. Q[n] \in Nat /\ Q[N - 1] \in Nat
      BY <2>1, <3>1 DEF Counts
    <3>4. QED
      BY <3>1, <3>2, <3>3
  <2>6. Q[n] # 0 => Q[n] \in DOMAIN stacks'[v]
    BY <2>4, <2>5
  <2>7. TopAt(stacks'[v], Q[n]) = TopAt(stacks[v], Q[n])
    BY <1>7, <2>6 DEF TopAt
  <2>8. QED
    BY <2>2, <2>3, <2>7 DEF Q
<1>10. QED
  BY <1>2, <1>4, <1>6, <1>8, <1>9, HistoryNext

\* The steps of the pass and of the visitor keep it.
LEMMA BuiltHistory ==
    ASSUME BuiltInv, HInv, [BuiltNext]_builtvars
    PROVE  HInv'
<1> SUFFICES ASSUME phase' \in {"rename", "done"}
             PROVE  HInv'
  BY DEF HInv
<1>1. CASE Build
  BY <1>1 DEF Build, passvars
<1>2. CASE Transform
  <2>1. phase' \notin {"rename", "done"}
    BY <1>2 DEF Transform, Run
  <2>2. QED
    BY <2>1
<1>3. CASE TransformStep
  <2>1. Step
    BY <1>3 DEF TransformStep
  <2>2. /\ phase = "place" => Prepared /\ Placing
        /\ phase = "rename" => Prepared /\ Typed /\ Walked
    BY DEF BuiltInv, MInv, InitPass
  <2>3. CASE TakeVariable \/ PlacePhis
    BY <2>3, Zenon DEF TakeVariable, PlacePhis
  <2>4. CASE StartRename
    <3>1. phase' = "rename"
      BY <2>4 DEF StartRename, Enter
    <3>2. QED
      BY <2>2, <2>4, <3>1, StartHistory DEF StartRename
  <2>5. CASE EnterChild
    <3>1. phase' = "rename"
      BY <2>5 DEF EnterChild, Enter
    <3>2. QED
      BY <2>2, <2>5, <3>1, ChildHistory DEF EnterChild
  <2>6. CASE Leave
    BY <2>2, <2>6, LeaveHistory DEF Leave
  <2>7. QED
    BY <2>1, <2>3, <2>4, <2>5, <2>6 DEF Step
<1>4. CASE UNCHANGED builtvars
  <2>1. /\ func' = func /\ phis' = phis /\ phase' = phase /\ stacks' = stacks /\ known' = known
        /\ calls' = calls /\ replacement' = replacement /\ pairs' = pairs
    BY <1>4 DEF builtvars, passvars
  <2>2. /\ StacksKnown(stacks', known')
        /\ \E h : History(h, Entered(Live, Doms, calls'), replacement', pairs') /\ Linked(h, calls', stacks')
    BY <2>1 DEF HInv
  <2>3. PICK h : History(h, Entered(Live, Doms, calls'), replacement', pairs') /\ Linked(h, calls', stacks')
    BY <2>2
  <2>4. QED
    BY <2>1, <2>2, <2>3, HistoryNext
<1>5. QED
  BY <1>1, <1>2, <1>3, <1>4 DEF BuiltNext

-----------------------------------------------------------------------------
(* The values on the edges.                                                 *)

\* A phi stands wherever a value of the variable meets another.
PhisClosed ==
    \A b \in Live : \A v \in Allocas : Defines(b, v) =>
        \A t \in FrontierOf(func, Doms, b) : v \in ToSet(phis[t])

\* So it is when the work lists have been worked off.
LEMMA JoinedIsClosed ==
    ASSUME Sound(func), Joining, phase # "place"
    PROVE  PhisClosed
<1>1. Live \subseteq Blocks(func)
  BY SoundFacts DEF Live
<1>2. vars_left = {} /\ worked = Len(work_list)
  BY DEF Joining
<1>3. \A b, v : ~Due(b, v)
  <2>1. \A n : (n + 1)..n = {} \/ n \notin Int
    OBVIOUS
  <2>2. QED
    BY <1>2, <2>1 DEF Due
<1>4. QED
  BY <1>1, <1>3 DEF Joining, Joined, PhisClosed

\* What b leaves for v.
Left(h, b, v) == h[b][Len(func.code[b])][v]

\* A block that does not store to v leaves what has come in.
LEMMA PassesOn ==
    ASSUME Sound(func), NEW b \in Blocks(func), NEW v \in Allocas, b \notin StoringBlocks(v),
           NEW h, NEW rep, Recalls(h[b], b, rep, Len(func.code[b]))
    PROVE  Left(h, b, v) = h[b][0][v]
<1> DEFINE N == Len(func.code[b])
           Good == {k \in 0..N : h[b][k][v] = h[b][0][v]}
<1>1. N \in Nat /\ DOMAIN func.code[b] = 1..N
  BY SoundFacts
<1>2. 0 \in Good
  BY <1>1
<1>3. ASSUME NEW k \in 1..N, k - 1 \in Good
      PROVE  k \in Good
  <2>1. ~(IsLocalAccess(func.code[b][k], "store") /\ func.code[b][k].var = v)
    BY <1>1 DEF IsLocalAccess, StoringBlocks
  <2>2. h[b][k][v] = h[b][k - 1][v]
    BY <2>1 DEF Recalls
  <2>3. k \in 0..N
    BY <1>1
  <2>4. QED
    BY <1>3, <2>2, <2>3
<1>4. N \in Good
  <2> HIDE DEF Good
  <2>1. 0..N \subseteq Good
    BY <1>1, <1>2, <1>3, UpTo
  <2>2. QED
    BY <1>1, <2>1
<1>5. QED
  BY <1>4 DEF Left

\* The live blocks are finitely many.
LEMMA LiveFinite ==
    ASSUME Sound(func)
    PROVE  IsFiniteSet(Live)
<1>1. Live \subseteq 1..Len(func.code) /\ 1 \in Int /\ Len(func.code) \in Int
  BY SoundFacts DEF Live
<1>2. IsFiniteSet(1..Len(func.code))
  BY <1>1, FS_Interval, Zenon
<1>3. QED
  BY <1>1, <1>2, FS_Subset

\* Among live blocks there is one that no other is strictly dominated by.
LEMMA LowestIn ==
    ASSUME Sound(func), NEW S \in SUBSET Live, S # {}
    PROVE  \E c \in S : \A e \in S : Doms[c] \subseteq Doms[e] => Doms[e] = Doms[c]
<1> DEFINE F == {Doms[e] : e \in S}
<1>1. IsTree(Live, Doms)
  BY SoundFacts DEF Live, Doms
<1>2. F \in SUBSET SUBSET Live /\ F # {}
  BY <1>1 DEF IsTree
<1>3. PICK D \in F : \A T \in F : D \subseteq T => T = D
  <2> HIDE DEF F
  <2>1. QED
    BY <1>2, LiveFinite, MaximalMember
<1>4. PICK c \in S : D = Doms[c]
  BY <1>3
<1>5. ASSUME NEW e \in S, Doms[c] \subseteq Doms[e]
      PROVE  Doms[e] = Doms[c]
  <2>1. Doms[e] \in F
    OBVIOUS
  <2>2. QED
    BY <1>3, <1>4, <1>5, <2>1
<1>6. QED
  BY <1>5

\* Every live block but the entry has a parent in the tree.
LEMMA ParentExists ==
    ASSUME Sound(func), NEW b \in Live, b # Entry
    PROVE  \E d \in Live : b \in ChildrenOf(Doms, d)
<1>1. IsTree(Live, Doms)
  BY SoundFacts DEF Live, Doms
<1>2. Doms[b] \ {b} \in SUBSET Live /\ Entry \in Doms[b] \ {b}
  BY <1>1 DEF IsTree
<1>3. PICK d \in Doms[b] \ {b} : \A e \in Doms[b] \ {b} : Doms[d] \subseteq Doms[e] => Doms[e] = Doms[d]
  BY <1>2, LowestIn
<1>4. ASSUME NEW a \in Doms[b] \ {b}
      PROVE  a \in Doms[d]
  <2>1. a \in Doms[d] \/ d \in Doms[a]
    BY <1>1, <1>3 DEF IsTree
  <2>2. CASE d \in Doms[a]
    <3>1. Doms[d] \subseteq Doms[a] /\ a \in Doms[a]
      BY <1>1, <1>2, <2>2 DEF IsTree
    <3>2. QED
      BY <1>3, <3>1
  <2>3. QED
    BY <2>1, <2>2
<1>5. QED
  BY <1>1, <1>2, <1>3, <1>4 DEF ChildrenOf, IsTree

\* On an edge to a block without a phi for v, the block's parent has left what
\* comes: in between nothing has defined v, or the block would have a phi.
LEMMA EdgeKeeps ==
    ASSUME Sound(func), PhisClosed, NEW h, NEW rep, NEW prs, History(h, Live, rep, prs),
           NEW b \in Live, NEW t \in Succ(func, b), NEW v \in Allocas, v \notin ToSet(phis[t]),
           NEW d \in Live, t \in ChildrenOf(Doms, d)
    PROVE  Left(h, b, v) = Left(h, d, v)
<1>1. /\ IsTree(Live, Doms) /\ Live \subseteq Blocks(func) /\ HasEntry(func) /\ Consistent(func)
  BY SoundFacts DEF Live, Doms, HasEntry
<1>2. /\ t \in Live /\ d \in Doms[t] /\ d # t /\ Doms[t] = Doms[d] \cup {t} /\ t \notin Doms[d]
  BY <1>1, ChildFacts
<1>3. Doms[t] \ {t} \subseteq Doms[b]
  BY <1>1, DominatorsThroughEdge DEF Live, Doms
<1>4. b \in Pre(func, t)
  BY <1>1, <1>2, PredecessorsAre
<1> DEFINE S == {c \in Doms[b] : d \in Doms[c] /\ Left(h, c, v) = Left(h, d, v)}
<1>5. d \in S /\ S \in SUBSET Live
  BY <1>1, <1>2, <1>3 DEF IsTree
<1>6. ASSUME NEW c \in S, NEW x \in ChildrenOf(Doms, c), x \in Doms[b]
      PROVE  x \in S
  <2>1. /\ c \in Live /\ x \in Live /\ x # c /\ c \in Doms[x] /\ x \notin Doms[c]
        /\ Doms[x] = Doms[c] \cup {x} /\ d \in Doms[c]
    BY <1>1, <1>5, ChildFacts
  <2>2. x \notin Doms[d]
    <3>1. Doms[d] \subseteq Doms[c]
      BY <1>1, <2>1 DEF IsTree
    <3>2. QED
      BY <2>1, <3>1
  <2>3. ~Defines(x, v)
    <3>1. t \in FrontierOf(func, Doms, x)
      <4>1. x \notin Doms[t] \ {t} /\ DOMAIN Doms = Live
        BY <1>1, <1>2, <2>2 DEF IsTree
      <4>2. QED
        BY <1>2, <1>4, <1>6, <4>1 DEF FrontierOf
    <3>2. QED
      BY <2>1, <3>1 DEF PhisClosed
  <2>4. Recalls(h[x], x, rep, Len(func.code[x])) /\ ComesIn(h, x)
    BY <2>1 DEF History
  <2>5. Left(h, x, v) = h[x][0][v]
    BY <1>1, <2>1, <2>3, <2>4, PassesOn DEF Defines
  <2>6. h[x][0][v] = Left(h, c, v)
    BY <2>1, <2>3, <2>4 DEF ComesIn, Defines, Left
  <2>7. QED
    BY <1>6, <2>1, <2>5, <2>6
<1>7. b \in S
  <2> HIDE DEF S
  <2>1. PICK c \in S : \A e \in S : Doms[c] \subseteq Doms[e] => Doms[e] = Doms[c]
    BY <1>5, LowestIn
  <2>2. ASSUME c # b
        PROVE  FALSE
    <3>1. c \in Live /\ c \in Doms[b] \ {b}
      BY <1>5, <2>2 DEF S
    <3>2. PICK x \in ChildrenOf(Doms, c) : x \in Doms[b]
      BY <1>1, <3>1 DEF IsTree
    <3>3. Doms[x] = Doms[c] \cup {x} /\ x \notin Doms[c]
      BY <1>1, <3>1, ChildFacts
    <3>4. x \in S
      BY <1>6, <3>2
    <3>5. QED
      BY <2>1, <3>3, <3>4
  <2>3. QED
    BY <2>1, <2>2
<1>8. QED
  BY <1>7

-----------------------------------------------------------------------------
(* An execution of the function before the pass, through one block.         *)

\* What memory holds, and the states of an execution in b.
Data == PlacesOf(func) \cup {Undefined}
Memories == [Allocas -> Data]
BlockStates(b) == [mem : Memories, read : [DOMAIN func.code[b] -> Data]]

\* What the store at k of b writes.
Written(s, b, k) ==
    LET val == func.code[b][k].args[1]
    IN  IF ~IsInstruction(val) THEN <<b, k>>
        ELSE IF IsLocalAccess(InstrAt(val), "load") THEN s.read[val[2]] ELSE val

\* q is the state behind instruction k of b, executed in s.
Executes(s, b, k, i, q) ==
    /\ IsLocalAccess(i, "load") =>
          /\ q.mem = s.mem /\ q.read[k] = s.mem[i.var]
          /\ \A m \in DOMAIN func.code[b] : m # k => q.read[m] = s.read[m]
    /\ IsLocalAccess(i, "store") =>
          /\ q.read = s.read /\ q.mem[i.var] = Written(s, b, k)
          /\ \A u \in Allocas : u # i.var => q.mem[u] = s.mem[u]
    /\ ~IsLocalAccess(i, "load") /\ ~IsLocalAccess(i, "store") => q = s

\* Execute does that.
LEMMA ExecuteIs ==
    ASSUME Sound(func), NEW b \in Blocks(func), NEW k \in DOMAIN func.code[b],
           NEW s \in BlockStates(b), NEW i, i = func.code[b][k], NEW q, q = Execute(s, b, k)
    PROVE  q \in BlockStates(b) /\ Executes(s, b, k, i, q)
<1> DEFINE D == DOMAIN func.code[b]
<1>1. /\ s.mem \in [Allocas -> Data] /\ s.read \in [D -> Data]
      /\ s = [mem |-> s.mem, read |-> s.read]
  BY DEF BlockStates, Memories
<1>2. Written(s, b, k) \in Data \/ i.op # "store"
  <2> SUFFICES ASSUME i.op = "store"
               PROVE  Written(s, b, k) \in Data
    OBVIOUS
  <2>1. <<b, k>> \in Data
    BY PlaceIs DEF Data
  <2>2. CASE IsInstruction(i.args[1])
    <3>1. PICK m \in 1..(k - 1) : i.args[1] = <<b, m>> /\ <<b, m>> \in PlacesOf(func)
      BY <2>2, StoredIs
    <3>2. m \in D
      <4>1. D = 1..Len(func.code[b]) /\ Len(func.code[b]) \in Nat
        BY SoundFacts
      <4>2. QED
        BY <4>1
    <3>3. s.read[m] \in Data
      BY <1>1, <3>2
    <3>4. QED
      BY <2>1, <3>1, <3>3 DEF Written, Data
  <2>3. QED
    BY <2>1, <2>2 DEF Written
<1>3. CASE IsLocalAccess(i, "load")
  <2>1. i.var \in Allocas /\ ~IsLocalAccess(i, "store")
    BY <1>3, LocalAccess DEF IsLocalAccess
  <2>2. q = [s EXCEPT !.read[k] = s.mem[i.var]]
    BY <1>3 DEF Execute
  <2>3. q = [mem |-> s.mem, read |-> [s.read EXCEPT ![k] = s.mem[i.var]]]
    BY <1>1, <2>2
  <2>4. s.mem[i.var] \in Data
    BY <1>1, <2>1
  <2>5. [s.read EXCEPT ![k] = s.mem[i.var]] \in [D -> Data]
    BY <1>1, <2>4
  <2>6. q \in BlockStates(b)
    BY <1>1, <2>3, <2>5 DEF BlockStates, Memories
  <2>7. QED
    BY <1>1, <1>3, <2>1, <2>3, <2>6 DEF Executes
<1>4. CASE IsLocalAccess(i, "store")
  <2>1. i.var \in Allocas /\ ~IsLocalAccess(i, "load") /\ i.op = "store"
    BY <1>4, LocalAccess DEF IsLocalAccess
  <2>2. q = [s EXCEPT !.mem[i.var] = Written(s, b, k)]
    BY <1>4, <2>1 DEF Execute, Written
  <2>3. q = [mem |-> [s.mem EXCEPT ![i.var] = Written(s, b, k)], read |-> s.read]
    BY <1>1, <2>2
  <2>4. [s.mem EXCEPT ![i.var] = Written(s, b, k)] \in [Allocas -> Data]
    BY <1>1, <1>2, <2>1
  <2>5. q \in BlockStates(b)
    BY <1>1, <2>3, <2>4 DEF BlockStates, Memories
  <2>6. QED
    BY <1>1, <1>4, <2>1, <2>3, <2>5 DEF Executes
<1>5. CASE ~IsLocalAccess(i, "load") /\ ~IsLocalAccess(i, "store")
  <2>1. q = s
    BY <1>5 DEF Execute
  <2>2. QED
    BY <1>5, <2>1 DEF Executes
<1>6. QED
  BY <1>3, <1>4, <1>5

\* The states of the execution of b that enters with mem.
Executing(S, b, mem) ==
    /\ S[0] = [mem |-> mem, read |-> [j \in DOMAIN func.code[b] |-> Undefined]]
    /\ \A k \in 1..Len(func.code[b]) : S[k] = Execute(S[k - 1], b, k)
    /\ \A k \in 1..Len(func.code[b]) : MemAt(mem, b, k) = S[k - 1].mem
    /\ \A k \in 0..Len(func.code[b]) : S[k] \in BlockStates(b)

\* There are such states.
LEMMA BlockGoes ==
    ASSUME Sound(func), NEW b \in Blocks(func), NEW mem \in Memories
    PROVE  \E S : Executing(S, b, mem)
<1> DEFINE N == Len(func.code[b])
           first == [mem |-> mem, read |-> [j \in DOMAIN func.code[b] |-> Undefined]]
           States_b == BlockStates(b)
           step == [x \in (1..N) \X States_b |-> Execute(x[2], b, x[1])]
           S == CHOOSE F : F = [k \in 0..N |->
                    IF k = 0 THEN first ELSE Execute(F[k - 1], b, k)]
<1>1. \A k : MemAt(mem, b, k) = S[k - 1].mem
  BY Zenon DEF MemAt
<1>2. DOMAIN func.code[b] = 1..N /\ N \in Nat
  BY SoundFacts
<1>3. first \in States_b
  BY DEF BlockStates, Data
<1>4. \A k \in 1..N, s \in States_b : Execute(s, b, k) \in States_b
  BY <1>2, ExecuteIs, Zenon
<1> HIDE DEF States_b, first
<1>5. step \in [(1..N) \X States_b -> States_b]
  <2> HIDE DEF N
  <2>1. QED
    BY <1>4
<1> HIDE DEF N
<1>6. PICK F : Runs(F, N, first, step) /\ \A k \in 0..N : F[k] \in States_b
  <2> HIDE DEF step
  <2>1. QED
    BY <1>2, <1>3, <1>5, RunExists
<1>7. F = [k \in 0..N |-> IF k = 0 THEN first ELSE Execute(F[k - 1], b, k)]
  <2>1. \A k \in 1..N : step[<<k, F[k - 1]>>] = Execute(F[k - 1], b, k)
    <3> SUFFICES ASSUME NEW k \in 1..N
                 PROVE  step[<<k, F[k - 1]>>] = Execute(F[k - 1], b, k)
      OBVIOUS
    <3>1. F[k - 1] \in States_b
      BY <1>2, <1>6
    <3>2. <<k, F[k - 1]>> \in (1..N) \X States_b
      BY <3>1
    <3>3. step[<<k, F[k - 1]>>] = Execute(<<k, F[k - 1]>>[2], b, <<k, F[k - 1]>>[1])
      BY <3>2, Zenon
    <3>4. <<k, F[k - 1]>>[2] = F[k - 1] /\ <<k, F[k - 1]>>[1] = k
      OBVIOUS
    <3> HIDE DEF step
    <3>5. QED
      BY <3>3, <3>4, Zenon
  <2>2. F = [k \in 0..N |-> IF k = 0 THEN first ELSE step[<<k, F[k - 1]>>]]
    BY <1>6 DEF Runs
  <2> HIDE DEF step
  <2>3. DOMAIN F = 0..N /\ F = [k \in 0..N |-> F[k]]
    BY <2>2, Zenon
  <2>4. \A k \in 0..N : F[k] = IF k = 0 THEN first ELSE Execute(F[k - 1], b, k)
    <3> SUFFICES ASSUME NEW k \in 0..N
                 PROVE  F[k] = IF k = 0 THEN first ELSE Execute(F[k - 1], b, k)
      OBVIOUS
    <3>1. F[k] = IF k = 0 THEN first ELSE step[<<k, F[k - 1]>>]
      BY <2>2, Zenon
    <3>2. k = 0 \/ k \in 1..N
      BY <1>2
    <3>3. QED
      BY <2>1, <3>1, <3>2, Zenon
  <2>5. QED
    BY <2>3, <2>4, Zenon
<1>8. S = [k \in 0..N |-> IF k = 0 THEN first ELSE Execute(S[k - 1], b, k)]
  BY <1>7, Zenon
<1> HIDE DEF S
<1>9. \A k \in 0..N : S[k] = IF k = 0 THEN first ELSE Execute(S[k - 1], b, k)
  BY <1>8, Zenon
<1>10. 0 \in 0..N /\ \A k \in 1..N : k \in 0..N /\ k # 0 /\ k - 1 \in 0..N
  BY <1>2
<1>11. S[0] = first /\ \A k \in 1..N : S[k] = Execute(S[k - 1], b, k)
  BY <1>9, <1>10, Zenon
<1>12. \A k \in 0..N : S[k] \in States_b
  <2> DEFINE Good == {k \in 0..N : S[k] \in States_b}
  <2>1. 0 \in Good
    BY <1>3, <1>10, <1>11
  <2>2. \A k \in 1..N : k - 1 \in Good => k \in Good
    BY <1>4, <1>10, <1>11
  <2> HIDE DEF Good
  <2>3. 0..N \subseteq Good
    BY <1>2, <2>1, <2>2, UpTo
  <2>4. QED
    BY <2>3 DEF Good
<1>13. QED
  BY <1>1, <1>11, <1>12, Zenon DEF Executing, first, N, States_b

-----------------------------------------------------------------------------
(* The walk's history agrees with every execution.                          *)

\* What holds of the result, with the history h of the walk.
Renaming(h) ==
    /\ Sound(func) /\ PhisFit /\ PhisClosed /\ BranchesLast(func)
    /\ replacement \in Replacements
    /\ pairs \in Operandss /\ OperandsFit(Live, pairs)
    /\ History(h, Live, replacement, pairs)

\* Whatever memory holds, env has as the value of the top of the stack.
Matches(env, tops, mem) ==
    \A v \in Allocas : mem[v] # Undefined =>
        tops[v] # Undefined /\ ValueIn(env, tops[v]) = mem[v]

\* And whatever the first n instructions of b have read has been put in place.
ReadsMatch(env, b, n, read) ==
    \A m \in 1..n : IsLocalAccess(func.code[b][m], "load") /\ read[m] # Undefined =>
        /\ <<b, m>> \in DOMAIN replacement
        /\ ValueIn(env, replacement[<<b, m>>]) = read[m]

\* The value of what is no phi.
LEMMA PlaceValue ==
    ASSUME NEW env, DOMAIN env = PhiPlaces, NEW b \in Blocks(func), NEW k \in DOMAIN func.code[b],
           ~IsLocalAccess(func.code[b][k], "load")
    PROVE  <<b, k>> # Undefined /\ ValueIn(env, <<b, k>>) = <<b, k>>
<1>1. <<b, k>> \notin PhiPlaces
  BY TripleNoPair DEF PhiPlaces, PhiOf
<1>2. <<b, k>> # Undefined
  BY DEF Undefined
<1>3. InstrAt(<<b, k>>) = func.code[b][k]
  BY DEF InstrAt
<1>4. QED
  BY <1>1, <1>2, <1>3 DEF ValueIn

\* What a store writes is what it has pushed.
LEMMA StoreMatches ==
    ASSUME NEW h, Renaming(h), NEW b \in Live, NEW env, DOMAIN env = PhiPlaces,
           NEW k \in DOMAIN func.code[b], IsLocalAccess(func.code[b][k], "store"),
           NEW s \in BlockStates(b), ReadsMatch(env, b, k - 1, s.read),
           Written(s, b, k) # Undefined
    PROVE  LET p == StoredIn(replacement, <<b, k>>)
           IN  p # Undefined /\ ValueIn(env, p) = Written(s, b, k)
<1> DEFINE i == func.code[b][k]
<1>1. /\ Sound(func) /\ b \in Blocks(func) /\ replacement \in Replacements
      /\ DOMAIN func.code[b] = 1..Len(func.code[b]) /\ Len(func.code[b]) \in Nat
  BY SoundFacts DEF Renaming, Live
<1>2. i.op = "store" /\ InstrAt(<<b, k>>) = i /\ ~IsLocalAccess(i, "load")
  BY <1>1, LocalAccess DEF IsLocalAccess
<1>3. CASE ~IsInstruction(i.args[1])
  <2>1. StoredIn(replacement, <<b, k>>) = <<b, k>> /\ Written(s, b, k) = <<b, k>>
    BY <1>2, <1>3 DEF StoredIn, Written
  <2>2. QED
    BY <1>1, <1>2, <2>1, PlaceValue
<1>4. CASE IsInstruction(i.args[1])
  <2>1. PICK m \in 1..(k - 1) : i.args[1] = <<b, m>> /\ <<b, m>> \in PlacesOf(func)
    BY <1>1, <1>2, <1>4, StoredIs
  <2>2. m \in DOMAIN func.code[b] /\ InstrAt(<<b, m>>) = func.code[b][m]
    BY <1>1 DEF InstrAt
  <2>3. /\ Written(s, b, k) = IF IsLocalAccess(func.code[b][m], "load") THEN s.read[m] ELSE <<b, m>>
        /\ StoredIn(replacement, <<b, k>>) =
              IF <<b, m>> \in DOMAIN replacement THEN replacement[<<b, m>>] ELSE <<b, m>>
    BY <1>2, <1>4, <2>1, <2>2 DEF StoredIn, Written
  <2>4. CASE IsLocalAccess(func.code[b][m], "load")
    <3>1. <<b, m>> \in DOMAIN replacement /\ ValueIn(env, replacement[<<b, m>>]) = s.read[m]
      BY <2>3, <2>4 DEF ReadsMatch
    <3>2. replacement[<<b, m>>] \in Values
      BY <1>1, <3>1 DEF Replacements
    <3>3. QED
      BY <2>3, <2>4, <3>1, <3>2, UndefinedNoValue
  <2>5. CASE ~IsLocalAccess(func.code[b][m], "load")
    <3>1. <<b, m>> \notin DOMAIN replacement
      BY <1>1, <2>2, <2>5 DEF Replacements, LocalLoads
    <3>2. QED
      BY <1>1, <2>2, <2>3, <2>5, <3>1, PlaceValue
  <2>6. QED
    BY <2>4, <2>5
<1>5. QED
  BY <1>3, <1>4

\* One instruction.
LEMMA InstrMatches ==
    ASSUME NEW h, Renaming(h), NEW b \in Live, NEW env, DOMAIN env = PhiPlaces,
           NEW k \in DOMAIN func.code[b], NEW s \in BlockStates(b), NEW q,
           Executes(s, b, k, func.code[b][k], q),
           Matches(env, h[b][k - 1], s.mem), ReadsMatch(env, b, k - 1, s.read)
    PROVE  Matches(env, h[b][k], q.mem) /\ ReadsMatch(env, b, k, q.read)
<1> DEFINE i == func.code[b][k]
           hb == h[b]
<1>1. /\ Sound(func) /\ b \in Blocks(func)
      /\ DOMAIN func.code[b] = 1..Len(func.code[b]) /\ Len(func.code[b]) \in Nat
      /\ \A m \in 1..k : m \in DOMAIN func.code[b] /\ (m = k \/ m \in 1..(k - 1))
  <2>1. /\ Sound(func) /\ b \in Blocks(func)
        /\ DOMAIN func.code[b] = 1..Len(func.code[b]) /\ Len(func.code[b]) \in Nat
    BY SoundFacts DEF Renaming, Live
  <2>2. QED
    BY <2>1
<1>2. \A v \in Allocas :
        /\ hb[k][v] = IF IsLocalAccess(i, "store") /\ i.var = v
                      THEN StoredIn(replacement, <<b, k>>) ELSE hb[k - 1][v]
        /\ IsLocalAccess(i, "load") /\ i.var = v /\ hb[k - 1][v] # Undefined
               => <<b, k>> \in DOMAIN replacement /\ replacement[<<b, k>>] = hb[k - 1][v]
  <2>1. Recalls(hb, b, replacement, Len(func.code[b]))
    BY DEF Renaming, History
  <2>2. k \in 1..Len(func.code[b])
    BY <1>1
  <2> HIDE DEF hb
  <2>3. QED
    BY <2>1, <2>2 DEF Recalls
<1>3. \A op \in {"load", "store"} : IsLocalAccess(i, op) => i.op = op /\ i.var \in Allocas
  BY <1>1, LocalAccess
<1> HIDE DEF hb
<1>4. \A v \in Allocas : s.mem[v] # Undefined =>
        hb[k - 1][v] # Undefined /\ ValueIn(env, hb[k - 1][v]) = s.mem[v]
  BY DEF Matches, hb
<1>5. CASE IsLocalAccess(i, "load")
  <2>1. /\ q.mem = s.mem /\ q.read[k] = s.mem[i.var] /\ i.var \in Allocas
        /\ \A m \in DOMAIN func.code[b] : m # k => q.read[m] = s.read[m]
    BY <1>3, <1>5 DEF Executes
  <2>2. ~IsLocalAccess(i, "store")
    BY <1>5 DEF IsLocalAccess
  <2>3. Matches(env, hb[k], q.mem)
    BY <1>2, <1>4, <2>1, <2>2 DEF Matches
  <2>4. ASSUME q.read[k] # Undefined
        PROVE  <<b, k>> \in DOMAIN replacement /\ ValueIn(env, replacement[<<b, k>>]) = q.read[k]
    BY <1>2, <1>4, <1>5, <2>1, <2>4
  <2>5. ReadsMatch(env, b, k, q.read)
    BY <1>1, <2>1, <2>4 DEF ReadsMatch
  <2>6. QED
    BY <2>3, <2>5 DEF hb
<1>6. CASE IsLocalAccess(i, "store")
  <2>1. /\ q.read = s.read /\ q.mem[i.var] = Written(s, b, k) /\ i.var \in Allocas
        /\ \A u \in Allocas : u # i.var => q.mem[u] = s.mem[u]
    BY <1>3, <1>6 DEF Executes
  <2>2. ~IsLocalAccess(i, "load")
    BY <1>6 DEF IsLocalAccess
  <2>3. ASSUME Written(s, b, k) # Undefined
        PROVE  hb[k][i.var] # Undefined /\ ValueIn(env, hb[k][i.var]) = Written(s, b, k)
    <3>1. hb[k][i.var] = StoredIn(replacement, <<b, k>>)
      BY <1>2, <1>6, <2>1
    <3>2. QED
      BY <1>6, <2>3, <3>1, StoreMatches
  <2>4. ASSUME NEW v \in Allocas, q.mem[v] # Undefined
        PROVE  hb[k][v] # Undefined /\ ValueIn(env, hb[k][v]) = q.mem[v]
    <3>1. CASE v = i.var
      BY <2>1, <2>3, <2>4, <3>1
    <3>2. CASE v # i.var
      BY <1>2, <1>4, <2>1, <2>4, <3>2
    <3>3. QED
      BY <3>1, <3>2
  <2>5. ReadsMatch(env, b, k, q.read)
    BY <1>1, <2>1, <2>2 DEF ReadsMatch
  <2>6. QED
    BY <2>4, <2>5 DEF Matches, hb
<1>7. CASE ~IsLocalAccess(i, "load") /\ ~IsLocalAccess(i, "store")
  <2>1. q = s
    BY <1>7 DEF Executes
  <2>2. Matches(env, hb[k], q.mem)
    BY <1>2, <1>4, <1>7, <2>1 DEF Matches
  <2>3. ReadsMatch(env, b, k, q.read)
    BY <1>1, <1>7, <2>1 DEF ReadsMatch
  <2>4. QED
    BY <2>2, <2>3 DEF hb
<1>8. QED
  BY <1>5, <1>6, <1>7

\* Up to instruction k of the block.
LEMMA BlockMatches ==
    ASSUME NEW h, Renaming(h), NEW b \in Live, NEW env, DOMAIN env = PhiPlaces,
           NEW mem \in Memories, Matches(env, h[b][0], mem), NEW k \in DOMAIN func.code[b]
    PROVE  Matches(env, h[b][k - 1], MemAt(mem, b, k)) /\ MemAt(mem, b, k) \in Memories
<1> DEFINE N == Len(func.code[b])
<1>1. Sound(func) /\ b \in Blocks(func) /\ DOMAIN func.code[b] = 1..N /\ N \in Nat
  BY SoundFacts DEF Renaming, Live
<1>2. PICK S : Executing(S, b, mem)
  BY <1>1, BlockGoes
<1> DEFINE Good == {n \in 0..N : Matches(env, h[b][n], S[n].mem) /\ ReadsMatch(env, b, n, S[n].read)}
<1>3. 0 \in Good
  <2>1. S[0].mem = mem /\ 0 \in 0..N
    BY <1>1, <1>2 DEF Executing
  <2>2. ReadsMatch(env, b, 0, S[0].read)
    BY DEF ReadsMatch
  <2>3. QED
    BY <2>1, <2>2
<1>4. ASSUME NEW n \in 1..N, n - 1 \in Good
      PROVE  n \in Good
  <2>1. n \in DOMAIN func.code[b] /\ n - 1 \in 0..N /\ n \in 0..N
    BY <1>1
  <2>2. S[n - 1] \in BlockStates(b) /\ S[n] = Execute(S[n - 1], b, n)
    BY <1>2, <2>1 DEF Executing
  <2>3. Executes(S[n - 1], b, n, func.code[b][n], S[n])
    BY <1>1, <2>1, <2>2, ExecuteIs
  <2>4. Matches(env, h[b][n - 1], S[n - 1].mem) /\ ReadsMatch(env, b, n - 1, S[n - 1].read)
    BY <1>4
  <2>5. Matches(env, h[b][n], S[n].mem) /\ ReadsMatch(env, b, n, S[n].read)
    BY <2>1, <2>2, <2>3, <2>4, InstrMatches
  <2>6. QED
    BY <2>1, <2>5
<1>5. k - 1 \in Good
  <2> HIDE DEF Good
  <2>1. 0..N \subseteq Good /\ k - 1 \in 0..N
    BY <1>1, <1>3, <1>4, UpTo
  <2>2. QED
    BY <2>1
<1>6. MemAt(mem, b, k) = S[k - 1].mem /\ S[k - 1].mem \in Memories
  <2>1. k \in 1..N /\ k - 1 \in 0..N
    BY <1>1
  <2>2. S[k - 1] \in BlockStates(b) /\ MemAt(mem, b, k) = S[k - 1].mem
    BY <1>2, <2>1 DEF Executing
  <2>3. QED
    BY <2>2 DEF BlockStates
<1>7. QED
  BY <1>5, <1>6

-----------------------------------------------------------------------------
(* Over the edges.                                                          *)

\* A value that is no phi of t is the same behind the phis of t.
LEMMA ValueOverEdge ==
    ASSUME NEW env, NEW t, NEW b, NEW val, HomeOf(val) # t
    PROVE  ValueIn(EnterBlock(env, t, b), val) = ValueIn(env, val)
<1> DEFINE new == EnterBlock(env, t, b)
<1>1. DOMAIN new = DOMAIN env
  BY DEF EnterBlock
<1>2. val \in DOMAIN env => new[val] = env[val]
  BY DEF EnterBlock, HomeOf
<1> HIDE DEF new
<1>3. ValueIn(new, val) = ValueIn(env, val)
  BY <1>1, <1>2 DEF ValueIn
<1>4. QED
  BY <1>3 DEF new

\* A phi takes the value of its operand for the edge.
LEMMA PhiOverEdge ==
    ASSUME NEW E, OperandsFit(E, pairs), NEW env, DOMAIN env = PhiPlaces, NEW q \in PhiPlaces,
           NEW b, NEW val, NEW k \in DOMAIN pairs[q], pairs[q][k] = <<val, b>>
    PROVE  EnterBlock(env, q[1], b)[q] = ValueIn(env, val)
<1> DEFINE from == {j \in DOMAIN pairs[q] : pairs[q][j][2] = b}
<1>1. from = {k}
  <2>1. pairs[q][k][2] = b
    OBVIOUS
  <2>2. \A i, j \in DOMAIN pairs[q] : pairs[q][i][2] = pairs[q][j][2] => i = j
    BY DEF OperandsFit
  <2>3. QED
    BY <2>1, <2>2
<1>2. EnterBlock(env, q[1], b)[q] =
        IF from = {} THEN Undefined ELSE ValueIn(env, pairs[q][CHOOSE j \in from : TRUE][1])
  BY DEF EnterBlock
<1> HIDE DEF from
<1>3. (CHOOSE j \in from : TRUE) = k /\ from # {}
  BY <1>1
<1>4. pairs[q][k][1] = val
  OBVIOUS
<1>5. QED
  BY <1>2, <1>3, <1>4

\* What b leaves is what t begins with.
LEMMA EdgeMatches ==
    ASSUME NEW h, Renaming(h), NEW b \in Live, NEW env, DOMAIN env = PhiPlaces,
           NEW t \in Succ(func, b), NEW mem, Matches(env, h[b][Len(func.code[b])], mem)
    PROVE  t \in Live /\ Matches(EnterBlock(env, t, b), h[t][0], mem)
<1> DEFINE new == EnterBlock(env, t, b)
           out == h[b][Len(func.code[b])]
<1>1. /\ Sound(func) /\ PhisClosed /\ PhisFit /\ OperandsFit(Live, pairs)
      /\ History(h, Live, replacement, pairs)
  BY DEF Renaming
<1>2. /\ WellFormed(func) /\ Consistent(func) /\ Entry \in Blocks(func)
      /\ IsTree(Live, Doms) /\ Live \subseteq Blocks(func)
  BY <1>1, SoundFacts DEF Live, Doms
<1>3. t \in Live
  BY <1>2, ReachableFacts DEF Live
<1>4. t # Entry
  <2>1. b \in Pre(func, t)
    BY <1>2, <1>3, PredecessorsAre
  <2>2. Pre(func, Entry) = {}
    BY <1>2 DEF Consistent, NoWayBack, Pre, ToSet
  <2>3. QED
    BY <2>1, <2>2
<1>5. PICK d \in Live : t \in ChildrenOf(Doms, d)
  BY <1>1, <1>3, <1>4, ParentExists
<1>6. ComesIn(h, t) /\ GoesOut(out, b, pairs) /\ GoesOut(h[d][Len(func.code[d])], d, pairs)
  BY <1>1, <1>3, <1>5 DEF History
<1>7. \A v \in Allocas : mem[v] # Undefined => out[v] # Undefined /\ ValueIn(env, out[v]) = mem[v]
  BY DEF Matches
<1> HIDE DEF out
<1>8. ASSUME NEW v \in Allocas, mem[v] # Undefined
      PROVE  h[t][0][v] # Undefined /\ ValueIn(new, h[t][0][v]) = mem[v]
  <2>1. out[v] # Undefined /\ ValueIn(env, out[v]) = mem[v]
    BY <1>7, <1>8
  <2>2. CASE v \in ToSet(phis[t])
    <3> DEFINE q == PhiOf(t, v)
    <3>1. h[t][0][v] = q
      BY <1>6, <2>2 DEF ComesIn
    <3>2. q \in PhiPlaces /\ q[1] = t
      BY <1>2, <1>3, <2>2 DEF PhiPlaces, PhiOf
    <3>3. PICK k \in DOMAIN pairs[q] : pairs[q][k] = <<out[v], b>>
      BY <1>6, <2>1, <2>2 DEF GoesOut
    <3>4. new[q] = ValueIn(env, out[v])
      <4> HIDE DEF q
      <4>1. EnterBlock(env, q[1], b)[q] = ValueIn(env, out[v])
        BY <1>1, <3>2, <3>3, PhiOverEdge
      <4>2. QED
        BY <3>2, <4>1
    <3>5. DOMAIN new = PhiPlaces
      BY DEF EnterBlock
    <3> HIDE DEF q, new
    <3>6. ValueIn(new, q) = new[q]
      BY <3>2, <3>5 DEF ValueIn
    <3>7. q # Undefined
      BY <3>2, UndefinedNoValue DEF Values
    <3>8. QED
      BY <2>1, <3>1, <3>4, <3>6, <3>7
  <2>3. CASE v \notin ToSet(phis[t])
    <3>1. h[t][0][v] = h[d][Len(func.code[d])][v]
      BY <1>5, <1>6, <2>3 DEF ComesIn
    <3>2. Left(h, b, v) = Left(h, d, v)
      BY <1>1, <1>5, <2>3, EdgeKeeps
    <3>3. h[d][Len(func.code[d])][v] = out[v]
      BY <3>2 DEF Left, out
    <3>4. HomeOf(out[v]) \in Doms[d]
      BY <1>6, <2>1, <3>3 DEF GoesOut
    <3>5. t \notin Doms[d]
      BY <1>2, <1>5, ChildFacts
    <3>6. ValueIn(new, out[v]) = ValueIn(env, out[v])
      BY <3>4, <3>5, ValueOverEdge
    <3>7. QED
      BY <2>1, <3>1, <3>3, <3>6
  <2>4. QED
    BY <2>2, <2>3
<1>9. QED
  BY <1>3, <1>8 DEF Matches

-----------------------------------------------------------------------------
(* The executions of the function before the pass.                          *)

\* The entries of blocks that executions may come to.
Entrances == [block : Blocks(func), mem : Memories, env : [DOMAIN pairs -> Data]]

\* A branch goes to a successor.
LEMMA TargetFollows ==
    ASSUME Sound(func), NEW b \in Blocks(func), NEW k \in DOMAIN func.code[b],
           NEW t \in ToSet(func.code[b][k].to)
    PROVE  t \in Succ(func, b) /\ t \in Blocks(func) /\ func.code[b][k].to # << >>
<1>1. /\ Consistent(func) /\ WellFormed(func)
      /\ DOMAIN func.code[b] = 1..Len(func.code[b]) /\ Len(func.code[b]) \in Nat
  BY SoundFacts
<1>2. t \in Blocks(func)
  BY <1>1 DEF WellFormed, Refers
<1>3. Cardinality(BranchesTo(func, b, t)) # 0
  <2>1. k \in BranchesTo(func, b, t)
    BY DEF BranchesTo
  <2>2. BranchesTo(func, b, t) \subseteq 1..Len(func.code[b]) /\ 1 \in Int /\ Len(func.code[b]) \in Int
    BY <1>1 DEF BranchesTo
  <2>3. IsFiniteSet(1..Len(func.code[b]))
    BY <2>2, FS_Interval, Zenon
  <2>4. IsFiniteSet(BranchesTo(func, b, t))
    BY <2>2, <2>3, FS_Subset
  <2>5. QED
    BY <2>1, <2>4, FS_EmptySet
<1>4. Cardinality(Occurrences(func.succ[b], t)) # 0
  BY <1>1, <1>2, <1>3 DEF Consistent, Agree
<1>5. func.succ[b] \in Seq(Nat)
  <2>1. func.succ \in Seq(Seq(Nat)) /\ b \in 1..Len(func.succ)
    BY <1>1, BlocksFacts
  <2>2. QED
    BY <2>1, ElementOfSeq
<1>6. t \in ToSet(func.succ[b])
  BY <1>4, <1>5, OccurrencesCount
<1>7. func.code[b][k].to # << >>
  BY DEF ToSet
<1>8. QED
  BY <1>2, <1>6, <1>7 DEF Succ

\* What there is behind a branch of x.
IsBehind(x, y, k) ==
    /\ k \in Executed(x.block) /\ IsTerminator(func.code[x.block][k])
    /\ y.block \in ToSet(func.code[x.block][k].to)
    /\ y = [block |-> y.block, mem |-> MemAt(x.mem, x.block, k),
            env |-> EnterBlock(x.env, y.block, x.block)]

\* Onward is that.
LEMMA OnwardIs ==
    ASSUME NEW x, NEW y \in Onward(x)
    PROVE  \E k : IsBehind(x, y, k)
<1> DEFINE b == x.block
           ends == {k \in Executed(b) : IsTerminator(func.code[b][k])}
<1>1. Onward(x) = UNION {{[block |-> t, mem |-> MemAt(x.mem, b, k),
                           env |-> EnterBlock(x.env, t, b)] :
                              t \in ToSet(func.code[b][k].to)} : k \in ends}
  BY DEF Onward
<1>2. PICK k \in ends : y \in {[block |-> t, mem |-> MemAt(x.mem, b, k),
                                env |-> EnterBlock(x.env, t, b)] :
                                   t \in ToSet(func.code[b][k].to)}
  BY <1>1
<1>3. PICK t \in ToSet(func.code[b][k].to) :
          y = [block |-> t, mem |-> MemAt(x.mem, b, k), env |-> EnterBlock(x.env, t, b)]
  BY <1>2
<1>4. y.block = t /\ k \in Executed(b) /\ IsTerminator(func.code[b][k])
  BY <1>2, <1>3
<1>5. IsBehind(x, y, k)
  BY <1>3, <1>4 DEF IsBehind
<1>6. QED
  BY <1>5

\* The phis take values.
LEMMA EnvIs ==
    ASSUME pairs \in Operandss, NEW env \in [DOMAIN pairs -> Data], NEW t, NEW b
    PROVE  EnterBlock(env, t, b) \in [DOMAIN pairs -> Data]
<1>1. DOMAIN pairs = PhiPlaces /\ DOMAIN env = PhiPlaces
  BY DEF Operandss
<1>2. ASSUME NEW q \in PhiPlaces
      PROVE  EnterBlock(env, t, b)[q] \in Data
  <2> DEFINE from == {j \in DOMAIN pairs[q] : pairs[q][j][2] = b}
             j == CHOOSE i \in from : TRUE
  <2>1. EnterBlock(env, t, b)[q] =
          IF q[1] # t THEN env[q]
          ELSE IF from = {} THEN Undefined ELSE ValueIn(env, pairs[q][j][1])
    BY <1>1 DEF EnterBlock
  <2>2. from # {} => j \in from
    OBVIOUS
  <2>3. from # {} => pairs[q][j][1] \in Values
    <3>1. from # {} => j \in DOMAIN pairs[q]
      BY <2>2
    <3>2. pairs[q] \in Seq(Values \X Blocks(func))
      BY DEF Operandss
    <3> HIDE DEF j, from
    <3>3. QED
      BY <3>1, <3>2
  <2> HIDE DEF j, from
  <2>4. \A val \in Values : ValueIn(env, val) \in Data
    BY <1>1 DEF ValueIn, Values, Data
  <2>5. env[q] \in Data /\ Undefined \in Data
    BY <1>1 DEF Data
  <2>6. QED
    BY <2>1, <2>3, <2>4, <2>5
<1>3. DOMAIN EnterBlock(env, t, b) = PhiPlaces
  BY <1>1 DEF EnterBlock
<1>4. EnterBlock(env, t, b) = [q \in PhiPlaces |-> EnterBlock(env, t, b)[q]]
  BY <1>1 DEF EnterBlock
<1>5. QED
  BY <1>1, <1>2, <1>4

\* Execution goes from one such entry to another.
LEMMA OnwardStays ==
    ASSUME Sound(func), pairs \in Operandss, NEW x \in Entrances
    PROVE  Onward(x) \in SUBSET Entrances
<1> SUFFICES ASSUME NEW y \in Onward(x)
             PROVE  y \in Entrances
  OBVIOUS
<1>1. x.block \in Blocks(func) /\ x.mem \in Memories /\ x.env \in [DOMAIN pairs -> Data]
  BY DEF Entrances
<1>2. PICK k : IsBehind(x, y, k)
  BY OnwardIs
<1>3. k \in DOMAIN func.code[x.block] /\ k \in 1..Len(func.code[x.block])
      /\ k - 1 \in 0..Len(func.code[x.block])
  BY <1>1, <1>2, SoundFacts DEF IsBehind, Executed
<1>4. y.block \in Blocks(func)
  BY <1>1, <1>2, <1>3, TargetFollows DEF IsBehind
<1>5. MemAt(x.mem, x.block, k) \in Memories
  <2>1. PICK S : Executing(S, x.block, x.mem)
    BY <1>1, BlockGoes
  <2>2. MemAt(x.mem, x.block, k) = S[k - 1].mem /\ S[k - 1] \in BlockStates(x.block)
    BY <1>3, <2>1 DEF Executing
  <2>3. QED
    BY <2>2 DEF BlockStates
<1>6. EnterBlock(x.env, y.block, x.block) \in [DOMAIN pairs -> Data]
  BY <1>1, EnvIs
<1>7. QED
  BY <1>2, <1>4, <1>5, <1>6 DEF IsBehind, Entrances

\* The entries of live blocks at which h agrees with memory.
Agreed(h) ==
    {x \in Entrances : x.block \in Live /\ Matches(x.env, h[x.block][0], x.mem)}

\* Memory, where the first terminator of a block stands.
LEMMA AgreedInside ==
    ASSUME NEW h, Renaming(h), NEW x \in Agreed(h), NEW k \in DOMAIN func.code[x.block]
    PROVE  Matches(x.env, h[x.block][k - 1], MemAt(x.mem, x.block, k))
<1>1. /\ x.block \in Live /\ Matches(x.env, h[x.block][0], x.mem)
      /\ x.mem \in Memories /\ DOMAIN x.env = PhiPlaces
  BY DEF Agreed, Entrances, Renaming, Operandss
<1>2. QED
  BY <1>1, BlockMatches

\* Execution stays among them.
LEMMA OnwardAgrees ==
    ASSUME NEW h, Renaming(h), NEW x \in Agreed(h), NEW y \in Onward(x)
    PROVE  y \in Agreed(h)
<1> DEFINE b == x.block
           t == y.block
           N == Len(func.code[b])
<1>1. /\ Sound(func) /\ pairs \in Operandss /\ BranchesLast(func)
      /\ History(h, Live, replacement, pairs)
  BY DEF Renaming
<1>2. x \in Entrances /\ b \in Live /\ DOMAIN x.env = PhiPlaces
  BY <1>1 DEF Agreed, Entrances, Operandss
<1>3. b \in Blocks(func) /\ DOMAIN func.code[b] = 1..N /\ N \in Nat
  BY <1>2, SoundFacts, <1>1 DEF Live
<1>4. y \in Entrances
  BY <1>1, <1>2, OnwardStays
<1>5. PICK k : IsBehind(x, y, k)
  BY OnwardIs
<1>6. /\ k \in DOMAIN func.code[b] /\ IsTerminator(func.code[b][k])
      /\ t \in ToSet(func.code[b][k].to)
      /\ y.mem = MemAt(x.mem, b, k) /\ y.env = EnterBlock(x.env, t, b)
  <2>1. y = [block |-> t, mem |-> MemAt(x.mem, b, k), env |-> EnterBlock(x.env, t, b)]
    BY <1>5 DEF IsBehind
  <2>2. QED
    BY <1>5, <2>1 DEF IsBehind, Executed
<1>7. t \in Succ(func, b) /\ k = N
  BY <1>1, <1>3, <1>6, TargetFollows DEF BranchesLast
<1>8. Matches(x.env, h[b][k - 1], y.mem)
  BY <1>6, AgreedInside
<1>9. \A v \in Allocas : h[b][k][v] = h[b][k - 1][v]
  <2>1. Recalls(h[b], b, replacement, N)
    BY <1>1, <1>2 DEF History
  <2>2. ~IsLocalAccess(func.code[b][k], "store")
    BY <1>6 DEF IsTerminator, IsLocalAccess
  <2>3. k \in 1..N
    BY <1>3, <1>6
  <2>4. QED
    BY <2>1, <2>2, <2>3 DEF Recalls
<1>10. Matches(x.env, h[b][N], y.mem)
  BY <1>7, <1>8, <1>9 DEF Matches
<1>11. t \in Live /\ Matches(y.env, h[t][0], y.mem)
  <2> HIDE DEF t
  <2>1. t \in Live /\ Matches(EnterBlock(x.env, t, b), h[t][0], y.mem)
    BY <1>2, <1>7, <1>10, EdgeMatches
  <2>2. QED
    BY <1>6, <2>1
<1>12. QED
  BY <1>4, <1>11 DEF Agreed

-----------------------------------------------------------------------------
(* They are finitely many.                                                  *)

\* Functions between finite sets.
LEMMA FunctionsFinite ==
    ASSUME NEW A, IsFiniteSet(A), NEW B, IsFiniteSet(B)
    PROVE  IsFiniteSet([A -> B])
<1> DEFINE S == [A -> B]
           T == SUBSET (A \X B)
           G == [F \in S |-> {<<a, F[a]>> : a \in A}]
<1>1. IsFiniteSet(A \X B)
  BY FS_Product
<1>2. IsFiniteSet(T)
  BY <1>1, FS_SUBSET
<1>3. G \in [S -> T]
  OBVIOUS
<1>4. ASSUME NEW E \in S, NEW F \in S, G[E] = G[F]
      PROVE  E = F
  <2>1. \A a \in A : E[a] = F[a]
    <3> SUFFICES ASSUME NEW a \in A
                 PROVE  E[a] = F[a]
      OBVIOUS
    <3>1. <<a, E[a]>> \in {<<c, F[c]>> : c \in A}
      BY <1>4
    <3>2. QED
      BY <3>1
  <2>2. QED
    BY <2>1
<1>5. G \in Injection(S, T)
  <2> HIDE DEF G, S, T
  <2>1. QED
    BY <1>3, <1>4 DEF Injection, IsInjective
<1> HIDE DEF G, S, T
<1>6. IsFiniteSet(S)
  BY <1>2, <1>5, FS_Injection
<1>7. QED
  BY <1>6 DEF S

\* The places of the function.
LEMMA PlacesFinite ==
    ASSUME Sound(func)
    PROVE  IsFiniteSet(Blocks(func)) /\ IsFiniteSet(PlacesOf(func))
<1> DEFINE F == [b \in Blocks(func) |-> {<<b, k>> : k \in DOMAIN func.code[b]}]
<1>1. Blocks(func) = 1..Len(func.code) /\ 1 \in Int /\ Len(func.code) \in Int
  BY SoundFacts
<1>2. IsFiniteSet(Blocks(func))
  BY <1>1, FS_Interval, Zenon
<1>3. ASSUME NEW b \in Blocks(func)
      PROVE  IsFiniteSet(F[b])
  <2> DEFINE N == Len(func.code[b])
             G == [k \in 1..N |-> <<b, k>>]
  <2>1. DOMAIN func.code[b] = 1..N /\ 1 \in Int /\ N \in Int
    BY SoundFacts
  <2>2. IsFiniteSet(1..N)
    BY <2>1, FS_Interval, Zenon
  <2>3. IsFiniteSet({G[k] : k \in 1..N})
    <3> DOMAIN G = 1..N
      OBVIOUS
    <3> HIDE DEF G, N
    <3>1. QED
      BY <2>2, ValuesFinite
  <2>4. F[b] = {G[k] : k \in 1..N}
    BY <2>1
  <2>5. QED
    BY <2>3, <2>4
<1>4. PlacesOf(func) = UNION {F[b] : b \in Blocks(func)}
  BY DEF PlacesOf
<1>5. DOMAIN F = Blocks(func)
  OBVIOUS
<1> HIDE DEF F
<1>6. IsFiniteSet({F[b] : b \in Blocks(func)})
  BY <1>2, <1>5, ValuesFinite
<1>7. \A T \in {F[b] : b \in Blocks(func)} : IsFiniteSet(T)
  BY <1>3
<1>8. IsFiniteSet(UNION {F[b] : b \in Blocks(func)})
  BY <1>6, <1>7, FS_UNION
<1>9. QED
  BY <1>2, <1>4, <1>8

\* The places of phis.
LEMMA PhiPlacesFinite ==
    ASSUME Sound(func), PhisFit
    PROVE  IsFiniteSet(Allocas) /\ IsFiniteSet(PhiPlaces)
<1> DEFINE S == Blocks(func) \X Allocas
           F == [p \in S |-> PhiOf(p[1], p[2])]
<1>1. IsFiniteSet(Blocks(func)) /\ IsFiniteSet(PlacesOf(func))
  BY PlacesFinite
<1>2. Allocas \in SUBSET PlacesOf(func)
  BY DEF Allocas
<1>3. IsFiniteSet(Allocas)
  BY <1>1, <1>2, FS_Subset
<1>4. IsFiniteSet(S)
  BY <1>1, <1>3, FS_Product
<1>5. PhiPlaces \in SUBSET {F[p] : p \in S}
  <2> SUFFICES ASSUME NEW q \in PhiPlaces
               PROVE  \E p \in S : q = F[p]
    OBVIOUS
  <2>1. q[1] \in Blocks(func) /\ PhiVar(q) \in Allocas /\ q = PhiOf(q[1], PhiVar(q))
    BY PhiPlaceIs
  <2>2. <<q[1], PhiVar(q)>> \in S
    BY <2>1
  <2>3. F[<<q[1], PhiVar(q)>>] = PhiOf(q[1], PhiVar(q))
    BY <2>2
  <2> HIDE DEF F, S
  <2>4. QED
    BY <2>1, <2>2, <2>3
<1>6. DOMAIN F = S
  OBVIOUS
<1> HIDE DEF F, S
<1>7. IsFiniteSet({F[p] : p \in S})
  BY <1>4, <1>6, ValuesFinite
<1>8. QED
  BY <1>3, <1>5, <1>7, FS_Subset

\* The entries of blocks.
LEMMA EntrancesFinite ==
    ASSUME Sound(func), PhisFit, pairs \in Operandss
    PROVE  IsFiniteSet(Entrances)
<1> DEFINE Envs == [DOMAIN pairs -> Data]
           S == (Blocks(func) \X Memories) \X Envs
           F == [p \in S |-> [block |-> p[1][1], mem |-> p[1][2], env |-> p[2]]]
<1>1. DOMAIN pairs = PhiPlaces
  BY DEF Operandss
<1>2. IsFiniteSet(Data)
  <2>1. IsFiniteSet({Undefined})
    BY FS_Singleton
  <2>2. IsFiniteSet(PlacesOf(func))
    BY PlacesFinite
  <2>3. QED
    BY <2>1, <2>2, FS_Union DEF Data
<1>3. IsFiniteSet(Memories)
  BY <1>2, PhiPlacesFinite, FunctionsFinite DEF Memories
<1>4. IsFiniteSet(Envs)
  BY <1>1, <1>2, PhiPlacesFinite, FunctionsFinite
<1>5. Entrances \in SUBSET {F[p] : p \in S}
  <2> SUFFICES ASSUME NEW x \in Entrances
               PROVE  \E p \in S : x = F[p]
    OBVIOUS
  <2>1. /\ x.block \in Blocks(func) /\ x.mem \in Memories /\ x.env \in Envs
        /\ x = [block |-> x.block, mem |-> x.mem, env |-> x.env]
    BY DEF Entrances
  <2>2. <<<<x.block, x.mem>>, x.env>> \in S
    BY <2>1
  <2>3. F[<<<<x.block, x.mem>>, x.env>>] = [block |-> x.block, mem |-> x.mem, env |-> x.env]
    BY <2>2
  <2> HIDE DEF F, S
  <2>4. QED
    BY <2>1, <2>2, <2>3
<1>6. DOMAIN F = S
  OBVIOUS
<1>7. IsFiniteSet(S)
  <2> HIDE DEF Envs
  <2>1. IsFiniteSet(Blocks(func))
    BY PlacesFinite
  <2>2. IsFiniteSet(Blocks(func) \X Memories)
    BY <1>3, <2>1, FS_Product
  <2>3. QED
    BY <1>4, <2>2, FS_Product
<1> HIDE DEF F, S
<1>8. IsFiniteSet({F[p] : p \in S})
  BY <1>6, <1>7, ValuesFinite
<1>9. QED
  BY <1>5, <1>8, FS_Subset

-----------------------------------------------------------------------------
(* Mem2Reg preserves the meaning.                                           *)

\* Where executions begin.
Outset == [block |-> Entry, mem |-> [v \in Allocas |-> Undefined],
           env |-> [q \in DOMAIN pairs |-> Undefined]]

\* Executions is the least set with the outset that they do not leave.
LEMMA ExecutionsAre ==
    ASSUME Sound(func), PhisFit, pairs \in Operandss,
           NEW Good \in SUBSET Entrances, Outset \in Good,
           \A x \in Good : Onward(x) \subseteq Good
    PROVE  Executions \subseteq Good
<1> DEFINE X == Entrances
           next == [x \in X |-> Onward(x)]
           Reach == CHOOSE R : R = [S \in SUBSET X |->
                        LET T == S \cup UNION {Onward(x) : x \in S}
                        IN  IF T = S THEN S ELSE R[T]]
<1>1. Executions = Reach[{Outset}]
  BY DEF Executions, Entrances, Memories, Data, Outset
<1>2. IsFiniteSet(X)
  BY EntrancesFinite
<1>3. next \in [X -> SUBSET X]
  <2>1. \A x \in X : Onward(x) \in SUBSET X
    BY OnwardStays
  <2> HIDE DEF X
  <2>2. QED
    BY <2>1
<1>4. \A Q : Searches(Q, X, next, {}) <=>
          Q = [S \in SUBSET X |->
                   LET T == S \cup UNION {Onward(x) : x \in S}
                   IN  IF T = S THEN S ELSE Q[T]]
  <2> HIDE DEF X
  <2>1. \A S \in SUBSET X : Grown(S, next, {}) = S \cup UNION {Onward(x) : x \in S}
    <3> SUFFICES ASSUME NEW S \in SUBSET X
                 PROVE  Grown(S, next, {}) = S \cup UNION {Onward(x) : x \in S}
      OBVIOUS
    <3>1. \A x \in S : next[x] = Onward(x)
      OBVIOUS
    <3> HIDE DEF next
    <3>2. {next[x] : x \in S} = {Onward(x) : x \in S}
      BY <3>1
    <3>3. QED
      BY <3>2 DEF Grown
  <2> HIDE DEF next
  <2>2. QED
    BY <2>1 DEF Searches
<1>5. Searches(Reach, X, next, {})
  <2> HIDE DEF X, next
  <2>1. \E Q : Searches(Q, X, next, {})
    BY <1>3, SearchExists
  <2>2. QED
    BY <1>4, <2>1
<1>6. {Outset} \in SUBSET (X \ {})
  OBVIOUS
<1>7. Closed(Good, next, {})
  <2>1. \A x \in Good : next[x] = Onward(x)
    OBVIOUS
  <2> HIDE DEF next, X
  <2>2. QED
    BY <2>1 DEF Closed
<1> HIDE DEF Reach, next, X
<1>8. Reach[{Outset}] = Least({Outset}, X, next, {})
  BY <1>2, <1>3, <1>5, <1>6, SearchFindsLeast
<1>9. Good \in SUBSET X /\ {Outset} \subseteq Good
  BY DEF X
<1>10. Least({Outset}, X, next, {}) \subseteq Good
  BY <1>7, <1>9 DEF Least
<1>11. QED
  BY <1>1, <1>8, <1>10

\* All executions agree with the history of the walk.
LEMMA ExecutionsAgree ==
    ASSUME NEW h, Renaming(h)
    PROVE  Executions \subseteq Agreed(h)
<1>1. Sound(func) /\ PhisFit /\ pairs \in Operandss
  BY DEF Renaming
<1>2. Outset \in Entrances
  BY <1>1, SoundFacts DEF Entrances, Outset, Memories, Data
<1>3. Outset \in Agreed(h)
  <2>1. Outset.block = Entry /\ \A v \in Allocas : Outset.mem[v] = Undefined
    BY DEF Outset
  <2>2. Entry \in Live
    BY <1>1, SoundFacts DEF Live
  <2>3. QED
    BY <1>2, <2>1, <2>2 DEF Agreed, Matches
<1>4. Agreed(h) \in SUBSET Entrances
  BY DEF Agreed
<1>5. \A x \in Agreed(h) : Onward(x) \subseteq Agreed(h)
  BY OnwardAgrees
<1>6. QED
  BY <1>1, <1>3, <1>4, <1>5, ExecutionsAre

\* So every load that is executed has been replaced by what it would read.
LEMMA LoadsAgree ==
    ASSUME NEW h, Renaming(h)
    PROVE  LoadsPreserved
<1> SUFFICES ASSUME NEW x \in Executions, NEW k \in Executed(x.block),
                    IsLocalAccess(func.code[x.block][k], "load"),
                    MemAt(x.mem, x.block, k)[func.code[x.block][k].var] # Undefined
             PROVE  /\ <<x.block, k>> \in DOMAIN replacement
                    /\ ValueIn(x.env, replacement[<<x.block, k>>]) =
                          MemAt(x.mem, x.block, k)[func.code[x.block][k].var]
  BY DEF LoadsPreserved
<1> DEFINE b == x.block
           i == func.code[b][k]
           v == i.var
<1>1. x \in Agreed(h) /\ b \in Live
  BY ExecutionsAgree DEF Agreed
<1>2. Sound(func) /\ b \in Blocks(func) /\ DOMAIN func.code[b] = 1..Len(func.code[b])
  BY <1>1, SoundFacts DEF Live, Renaming
<1>3. k \in DOMAIN func.code[b] /\ k \in 1..Len(func.code[b])
  BY <1>2 DEF Executed
<1>4. v \in Allocas
  BY <1>2, <1>3, LocalAccess
<1>5. Matches(x.env, h[b][k - 1], MemAt(x.mem, b, k))
  BY <1>1, <1>3, AgreedInside
<1>6. Recalls(h[b], b, replacement, Len(func.code[b]))
  BY <1>1 DEF Renaming, History
<1>7. /\ h[b][k - 1][v] # Undefined
      /\ ValueIn(x.env, h[b][k - 1][v]) = MemAt(x.mem, b, k)[v]
  BY <1>4, <1>5 DEF Matches
<1>8. <<b, k>> \in DOMAIN replacement /\ replacement[<<b, k>>] = h[b][k - 1][v]
  BY <1>3, <1>4, <1>6, <1>7, Zenon DEF Recalls
<1>9. QED
  BY <1>7, <1>8, Zenon

\* The invariant of the whole: the visitor's and the pass's, where branches
\* stand, where phis stand, and that the walk's history can be told.
MeaningInv == BuiltInv /\ BranchInv /\ JInv /\ HInv

\* At the end of the pass it says enough.
LEMMA MeaningIsPreserved == MeaningInv => LoadsPreserved
<1> SUFFICES ASSUME MeaningInv, phase = "done"
             PROVE  LoadsPreserved
  BY DEF LoadsPreserved
<1>1. Prepared /\ Typed /\ calls = << >> /\ Walked
  BY DEF MeaningInv, BuiltInv, MInv, InitPass
<1>2. Entered(Live, Doms, calls) = Live
  BY <1>1, AllEntered
<1>3. PICK h : History(h, Entered(Live, Doms, calls), replacement, pairs)
  BY DEF MeaningInv, HInv
<1>4. PhisClosed
  BY <1>1, JoinedIsClosed DEF MeaningInv, JInv, Prepared
<1>5. OperandsFit(Live, pairs)
  BY <1>1, <1>2 DEF Walked
<1>6. BranchesLast(func)
  BY DEF MeaningInv, BranchInv
<1>7. Renaming(h)
  BY <1>1, <1>2, <1>3, <1>4, <1>5, <1>6 DEF Renaming, Prepared, Typed
<1>8. QED
  BY <1>7, LoadsAgree

\* Where branches stand, with the pass.
LEMMA BuiltBranches ==
    ASSUME BuiltInv, BranchInv, [BuiltNext]_builtvars
    PROVE  BranchInv'
<1>1. CASE Build
  BY <1>1, NextBranchInv DEF Build, BuiltInv
<1>2. CASE UNCHANGED <<func, buildvars>>
  BY <1>2 DEF BranchInv, buildvars
<1>3. QED
  BY <1>1, <1>2, Zenon DEF BuiltNext, Transform, TransformStep, Run, Step, TakeVariable, PlacePhis,
                    StartRename, EnterChild, Leave, builtvars

\* Mem2Reg preserves the meaning of every program that the visitor accepts: in
\* no execution of the function, and there are executions of any length, does a
\* load read a value that has been written and is not the value that the pass
\* has put in the load's place.
THEOREM MeaningPreserved == BuiltSpec => []LoadsPreserved
<1>1. BuiltInit => MeaningInv
  <2>1. BuiltInit => BranchInv
    BY InitBranchInv DEF BuiltInit
  <2>2. BuiltInit => phase = "idle"
    BY DEF BuiltInit, InitPass
  <2>3. QED
    BY <2>1, <2>2, InitBuiltInv DEF MeaningInv, JInv, HInv
<1>2. MeaningInv /\ [BuiltNext]_builtvars => MeaningInv'
  <2> SUFFICES ASSUME BuiltInv, BranchInv, JInv, HInv, [BuiltNext]_builtvars
               PROVE  BuiltInv' /\ BranchInv' /\ JInv' /\ HInv'
    BY DEF MeaningInv
  <2>1. BuiltInv'
    BY NextBuiltInv
  <2>2. BranchInv'
    BY BuiltBranches
  <2>3. JInv'
    BY BuiltJoins
  <2>4. HInv'
    BY BuiltHistory
  <2>5. QED
    BY <2>1, <2>2, <2>3, <2>4
<1>3. QED
  BY <1>1, <1>2, MeaningIsPreserved, PTL DEF BuiltSpec
=============================================================================
