------------------------ MODULE BuiltMem2Reg_proofs -------------------------
(***************************************************************************)
(* The visitor and Mem2Reg, for every program: the assertion of re_name    *)
(* and its calls of back() are safe where all variables are set, the       *)
(* stacks are balanced, the result is in SSA form and refers to no alloca. *)
(*                                                                         *)
(* BuiltInv is the invariant.  Its part about the pass, MInv, says of the  *)
(* walk over the dominator tree which blocks it has entered (CallsFit),    *)
(* how many values each stack holds and from which blocks (StacksFit),     *)
(* that what replaced a load is at home in a dominator of it (ValuesFit),  *)
(* which operands the phis have (OperandsFit), that a variable which is    *)
(* set at once has a value (TopsFit), and what is deleted (Cleaned).       *)
(***************************************************************************)
EXTENDS BuiltMem2Reg, CminusfBuilder_flow_proofs

-----------------------------------------------------------------------------
(* The calls of re_name on the way down the tree.                          *)

\* The first elements of a sequence.
LEMMA PrefixIs ==
    ASSUME NEW S, NEW s \in Seq(S), NEW m \in 0..Len(s)
    PROVE  /\ SubSeq(s, 1, m) \in Seq(S) /\ Len(SubSeq(s, 1, m)) = m
           /\ DOMAIN SubSeq(s, 1, m) = 1..m
           /\ \A k \in 1..m : SubSeq(s, 1, m)[k] = s[k]
<1>1. Len(s) \in Nat /\ m \in Nat /\ m <= Len(s) /\ \A k \in 1..Len(s) : s[k] \in S
  BY LenProperties, ElementOfSeq
<1>2. \A k \in 1..m : s[k] \in S
  BY <1>1
<1>3. 1 \in Int /\ m \in Int
  BY <1>1
<1>4. /\ SubSeq(s, 1, m) \in Seq(S)
      /\ Len(SubSeq(s, 1, m)) = IF 1 <= m THEN m - 1 + 1 ELSE 0
      /\ \A k \in 1..(m - 1 + 1) : SubSeq(s, 1, m)[k] = s[1 + k - 1]
  BY <1>2, <1>3, SubSeqProperties
<1>5. Len(SubSeq(s, 1, m)) = m
  BY <1>1, <1>4
<1>6. DOMAIN SubSeq(s, 1, m) = 1..m
  BY <1>4, <1>5, LenProperties
<1>7. \A k \in 1..m : k \in 1..(m - 1 + 1) /\ 1 + k - 1 = k
  BY <1>1
<1>8. QED
  BY <1>4, <1>5, <1>6, <1>7

\* A sequence without its last element.
LEMMA FrontIs ==
    ASSUME NEW S, NEW s \in Seq(S), s # << >>
    PROVE  /\ Len(s) \in Nat \ {0} /\ DOMAIN s = 1..Len(s)
           /\ Front(s) \in Seq(S) /\ Len(Front(s)) = Len(s) - 1
           /\ DOMAIN Front(s) = 1..(Len(s) - 1)
           /\ \A k \in 1..(Len(s) - 1) : Front(s)[k] = s[k]
           /\ Last(s) = s[Len(s)] /\ s[Len(s)] \in S
<1>1. /\ Len(s) \in Nat /\ DOMAIN s = 1..Len(s) /\ Len(s) # 0
      /\ \A k \in 1..Len(s) : s[k] \in S
  BY LenProperties, ElementOfSeq, EmptySeq
<1>2. Len(s) - 1 \in 0..Len(s) /\ Len(s) \in 1..Len(s)
  BY <1>1
<1>3. QED
  BY <1>1, <1>2, PrefixIs DEF Front, Last

\* The blocks of the open calls, and the children still to come.
Called(cs) == {cs[n][1] : n \in DOMAIN cs}
\* The children that are to be visited.
ToCome(cs) == UNION {cs[n][2] : n \in DOMAIN cs}

\* The blocks the walk has entered: no dominator of theirs is still to come.
Entered(live, doms, cs) == {b \in live : ToCome(cs) \cap doms[b] = {}}

\* The open calls are those of the dominators of the innermost one's block.
CallsFit(live, doms, cs) ==
    /\ cs \in Seq(live \X SUBSET live)
    /\ cs # << >> => cs[1][1] = Entry
    /\ \A n \in DOMAIN cs : cs[n][2] \subseteq ChildrenOf(doms, cs[n][1])
    /\ \A m, n \in DOMAIN cs : cs[m][1] = cs[n][1] => m = n
    /\ Called(cs) \cap ToCome(cs) = {}
    /\ \A n \in DOMAIN cs : doms[cs[n][1]] = {cs[m][1] : m \in 1..n}

\* A block has one parent.
LEMMA OneParent ==
    ASSUME NEW live, NEW doms, IsTree(live, doms), NEW a \in live, NEW b \in live,
           NEW c \in ChildrenOf(doms, a), c \in ChildrenOf(doms, b)
    PROVE  a = b
<1>1. a \in doms[c] \ {c} /\ b \in doms[c] \ {c} /\ doms[c] \ {c} \subseteq doms[a]
      /\ doms[c] \ {c} \subseteq doms[b]
  BY DEF ChildrenOf
<1>2. a \in doms[b] /\ b \in doms[a]
  BY <1>1
<1>3. QED
  BY <1>2 DEF IsTree

\* A child's dominators are its parent's and itself.
LEMMA ChildFacts ==
    ASSUME NEW live, NEW doms, IsTree(live, doms), NEW b \in live, NEW c \in ChildrenOf(doms, b)
    PROVE  /\ c \in live /\ c # b /\ c # Entry /\ b \in doms[c]
           /\ doms[c] = doms[b] \cup {c} /\ c \notin doms[b]
<1>1. c \in live /\ b \in doms[c] /\ b # c /\ doms[c] \ {c} \subseteq doms[b]
  BY DEF ChildrenOf, IsTree
<1>2. doms[b] \subseteq doms[c] /\ c \in doms[c]
  BY <1>1 DEF IsTree
<1>3. c # Entry
  BY <1>1 DEF IsTree
<1>4. c \notin doms[b]
  BY <1>1 DEF IsTree
<1>5. QED
  BY <1>1, <1>2, <1>3, <1>4

\* What has been entered is closed under dominators and holds the open calls.
LEMMA EnteredFacts ==
    ASSUME NEW live, NEW doms, IsTree(live, doms), NEW cs, CallsFit(live, doms, cs)
    PROVE  /\ Entered(live, doms, cs) \subseteq live
           /\ \A b \in Entered(live, doms, cs) : doms[b] \subseteq Entered(live, doms, cs)
           /\ Called(cs) \subseteq Entered(live, doms, cs)
<1>1. ASSUME NEW b \in Entered(live, doms, cs), NEW d \in doms[b]
      PROVE  d \in Entered(live, doms, cs)
  <2>1. b \in live /\ ToCome(cs) \cap doms[b] = {}
    BY DEF Entered
  <2>2. d \in live /\ doms[d] \subseteq doms[b]
    BY <2>1 DEF IsTree
  <2>3. QED
    BY <2>1, <2>2 DEF Entered
<1>2. ASSUME NEW n \in DOMAIN cs
      PROVE  cs[n][1] \in Entered(live, doms, cs)
  <2>1. DOMAIN cs = 1..Len(cs) /\ Len(cs) \in Nat /\ cs[n] \in live \X SUBSET live
    BY DEF CallsFit
  <2>2. cs[n][1] \in live
    BY <2>1
  <2>3. doms[cs[n][1]] = {cs[m][1] : m \in 1..n}
    BY DEF CallsFit
  <2>4. doms[cs[n][1]] \subseteq Called(cs)
    BY <2>1, <2>3 DEF Called
  <2>5. QED
    BY <2>2, <2>4 DEF Entered, CallsFit
<1>3. QED
  BY <1>1, <1>2 DEF Entered, Called

\* The first call.
LEMMA CallsStart ==
    ASSUME NEW live, NEW doms, IsTree(live, doms), NEW cs,
           cs = <<<<Entry, ChildrenOf(doms, Entry)>>>>
    PROVE  /\ CallsFit(live, doms, cs)
           /\ Entered(live, doms, cs) = {Entry}
           /\ Called(cs) = {Entry}
           /\ Len(cs) = 1 /\ cs[1][1] = Entry
<1> DEFINE below == ChildrenOf(doms, Entry)
<1>1. Entry \in live /\ below \subseteq live /\ doms[Entry] = {Entry}
  BY DEF IsTree, ChildrenOf
<1>2. Entry \notin below
  BY <1>1, ChildFacts
<1> HIDE DEF below
<1>3. cs = <<<<Entry, below>>>>
  BY DEF below
<1>4. /\ cs \in Seq(live \X SUBSET live) /\ Len(cs) = 1 /\ DOMAIN cs = {1}
      /\ cs[1][1] = Entry /\ cs[1][2] = below
  BY <1>1, <1>3
<1>5. Called(cs) = {Entry} /\ ToCome(cs) = below
  BY <1>4 DEF Called, ToCome
<1>6. CallsFit(live, doms, cs)
  <2>1. \A n \in DOMAIN cs : doms[cs[n][1]] = {cs[m][1] : m \in 1..n}
    BY <1>1, <1>4
  <2>2. \A n \in DOMAIN cs : cs[n][2] \subseteq ChildrenOf(doms, cs[n][1])
    BY <1>4 DEF below
  <2>3. \A m, n \in DOMAIN cs : cs[m][1] = cs[n][1] => m = n
    BY <1>4
  <2>4. QED
    BY <1>2, <1>4, <1>5, <2>1, <2>2, <2>3 DEF CallsFit
<1>7. Entered(live, doms, cs) = {Entry}
  <2>1. Entry \in Entered(live, doms, cs)
    BY <1>1, <1>2, <1>5 DEF Entered
  <2>2. ASSUME NEW b \in live, b # Entry
        PROVE  ToCome(cs) \cap doms[b] # {}
    <3>1. Entry \in doms[b] \ {b}
      BY <2>2 DEF IsTree
    <3>2. PICK x \in ChildrenOf(doms, Entry) : x \in doms[b]
      BY <3>1 DEF IsTree
    <3>3. QED
      BY <1>5, <3>2 DEF below
  <2>3. QED
    BY <2>1, <2>2 DEF Entered
<1>8. QED
  BY <1>4, <1>5, <1>6, <1>7

\* A call has ended.
LEMMA CallsReturn ==
    ASSUME NEW live, NEW doms, IsTree(live, doms), NEW cs, CallsFit(live, doms, cs),
           cs # << >>, Last(cs)[2] = {}
    PROVE  /\ CallsFit(live, doms, Front(cs))
           /\ Entered(live, doms, Front(cs)) = Entered(live, doms, cs)
           /\ Called(cs) \subseteq Called(Front(cs)) \cup {Last(cs)[1]}
           /\ Last(cs)[1] \in live
<1> DEFINE S == live \X SUBSET live
           up == Front(cs)
           n == Len(cs)
<1>1. /\ n \in Nat \ {0} /\ DOMAIN cs = 1..n
      /\ up \in Seq(S) /\ Len(up) = n - 1 /\ DOMAIN up = 1..(n - 1)
      /\ \A k \in 1..(n - 1) : up[k] = cs[k]
      /\ Last(cs) = cs[n] /\ cs[n] \in S
  <2>1. cs \in Seq(S)
    BY DEF CallsFit
  <2> HIDE DEF S
  <2>2. QED
    BY <2>1, FrontIs
<1> HIDE DEF S, up, n
<1>2. DOMAIN up \subseteq DOMAIN cs
  BY <1>1
<1>3. Called(up) \subseteq Called(cs) /\ Called(cs) \subseteq Called(up) \cup {cs[n][1]}
  BY <1>1 DEF Called
<1>4. ToCome(up) = ToCome(cs)
  <2>1. \A k \in DOMAIN cs : k # n => k \in DOMAIN up
    BY <1>1
  <2>2. cs[n][2] = {}
    BY <1>1
  <2>3. QED
    BY <1>1, <1>2, <2>1, <2>2 DEF ToCome
<1>5. CallsFit(live, doms, up)
  <2>1. \A k \in DOMAIN up : doms[up[k][1]] = {up[m][1] : m \in 1..k}
    <3> SUFFICES ASSUME NEW k \in DOMAIN up
                 PROVE  doms[up[k][1]] = {up[m][1] : m \in 1..k}
      OBVIOUS
    <3>1. \A m \in 1..k : m \in 1..(n - 1)
      BY <1>1
    <3>2. doms[cs[k][1]] = {cs[m][1] : m \in 1..k}
      BY <1>2 DEF CallsFit
    <3>3. \A m \in 1..k : up[m] = cs[m]
      BY <1>1, <3>1
    <3>4. up[k] = cs[k]
      BY <1>1
    <3>5. QED
      BY <3>2, <3>3, <3>4
  <2>2. \A k \in DOMAIN up : up[k][2] \subseteq ChildrenOf(doms, up[k][1])
    BY <1>1, <1>2 DEF CallsFit
  <2>3. \A j, k \in DOMAIN up : up[j][1] = up[k][1] => j = k
    BY <1>1, <1>2 DEF CallsFit
  <2>4. up # << >> => up[1][1] = Entry
    <3>1. up # << >> => 1 \in 1..(n - 1)
      BY <1>1
    <3>2. cs # << >> => cs[1][1] = Entry
      BY DEF CallsFit
    <3>3. QED
      BY <1>1, <3>1, <3>2
  <2>5. Called(up) \cap ToCome(up) = {}
    BY <1>3, <1>4 DEF CallsFit
  <2>6. QED
    BY <1>1, <2>1, <2>2, <2>3, <2>4, <2>5 DEF CallsFit, S
<1>6. QED
  BY <1>1, <1>3, <1>4, <1>5 DEF Entered, up, S

\* The calls after the innermost one has gone on to its child c.
IsDeeper(cs, c, below, new) ==
    /\ Len(cs) \in Nat \ {0} /\ DOMAIN cs = 1..Len(cs)
    /\ Len(new) = Len(cs) + 1 /\ DOMAIN new = 1..(Len(cs) + 1)
    /\ \A k \in 1..Len(cs) : new[k][1] = cs[k][1]
    /\ \A k \in 1..Len(cs) : k # Len(cs) => new[k] = cs[k]
    /\ new[Len(cs)] = <<cs[Len(cs)][1], cs[Len(cs)][2] \ {c}>>
    /\ new[Len(cs) + 1] = <<c, below>>

\* What EnterChild does to the calls.
LEMMA DeeperIs ==
    ASSUME NEW live, NEW cs \in Seq(live \X SUBSET live), cs # << >>,
           NEW c \in live, NEW below \in SUBSET live
    PROVE  LET new == Append(Append(Front(cs), <<Last(cs)[1], Last(cs)[2] \ {c}>>), <<c, below>>)
           IN  IsDeeper(cs, c, below, new) /\ new \in Seq(live \X SUBSET live)
<1> DEFINE S == live \X SUBSET live
           up == Front(cs)
           top == <<Last(cs)[1], Last(cs)[2] \ {c}>>
           mid == Append(up, top)
           new == Append(mid, <<c, below>>)
           n == Len(cs)
<1>1. /\ n \in Nat \ {0} /\ DOMAIN cs = 1..n
      /\ up \in Seq(S) /\ Len(up) = n - 1
      /\ \A k \in 1..(n - 1) : up[k] = cs[k]
      /\ Last(cs) = cs[n] /\ cs[n] \in S
  BY FrontIs
<1>2. top \in S /\ <<c, below>> \in S /\ top = <<cs[n][1], cs[n][2] \ {c}>>
  BY <1>1
<1> HIDE DEF S, up, top
<1>3. /\ mid \in Seq(S) /\ Len(mid) = n
      /\ \A k \in 1..(n - 1) : mid[k] = cs[k]
      /\ mid[n] = top
  <2>1. /\ mid \in Seq(S) /\ Len(mid) = Len(up) + 1
        /\ \A k \in 1..Len(up) : mid[k] = up[k]
        /\ mid[Len(up) + 1] = top
    <3>1. up \in Seq(S) /\ top \in S
      BY <1>1, <1>2
    <3>2. QED
      BY <3>1, AppendProperties
  <2>2. Len(up) + 1 = n
    BY <1>1
  <2> HIDE DEF mid
  <2>3. QED
    BY <1>1, <2>1, <2>2
<1> HIDE DEF mid
<1>4. /\ new \in Seq(S) /\ Len(new) = n + 1
      /\ \A k \in 1..n : new[k] = mid[k]
      /\ new[n + 1] = <<c, below>>
  BY <1>2, <1>3, AppendProperties
<1>5. DOMAIN new = 1..(n + 1)
  BY <1>4, LenProperties
<1> HIDE DEF new, n
<1>6. /\ n \in 1..n /\ \A k \in 1..n : k # n => k \in 1..(n - 1)
  BY <1>1
<1>7. \A k \in 1..n : k # n => new[k] = cs[k]
  BY <1>3, <1>4, <1>6
<1>8. new[n] = top
  BY <1>3, <1>4, <1>6
<1>9. \A k \in 1..n : new[k][1] = cs[k][1]
  <2>1. top[1] = cs[n][1]
    BY <1>2
  <2>2. QED
    BY <1>7, <1>8, <2>1
<1>10. IsDeeper(cs, c, below, new)
  BY <1>1, <1>2, <1>4, <1>5, <1>7, <1>8, <1>9, Zenon DEF IsDeeper, n
<1>11. QED
  BY <1>4, <1>10 DEF new, mid, up, top, S

\* A child of the innermost call's block: all its dominators are entered.
LEMMA NextChild ==
    ASSUME NEW live, NEW doms, IsTree(live, doms), NEW cs, CallsFit(live, doms, cs),
           cs # << >>, NEW c \in Last(cs)[2]
    PROVE  /\ c \in live /\ c \notin Entered(live, doms, cs) /\ c # Entry
           /\ Last(cs) = cs[Len(cs)] /\ Len(cs) \in DOMAIN cs
           /\ c \in ChildrenOf(doms, cs[Len(cs)][1]) /\ c \in ToCome(cs)
           /\ cs[Len(cs)][1] \in live
           /\ doms[c] = Called(cs) \cup {c}
           /\ doms[c] \subseteq Entered(live, doms, cs) \cup {c}
<1> DEFINE S == live \X SUBSET live
           n == Len(cs)
<1>1. /\ n \in Nat \ {0} /\ DOMAIN cs = 1..n /\ Last(cs) = cs[n] /\ cs[n] \in S
  <2>1. cs \in Seq(S)
    BY DEF CallsFit
  <2> HIDE DEF S
  <2>2. QED
    BY <2>1, FrontIs
<1>2. cs[n][1] \in live
  BY <1>1
<1> HIDE DEF S, n
<1>3. n \in DOMAIN cs
  BY <1>1
<1>4. c \in ChildrenOf(doms, cs[n][1])
  BY <1>1, <1>3 DEF CallsFit
<1>5. c \in ToCome(cs)
  BY <1>1, <1>3 DEF ToCome
<1>6. c \in live /\ c # Entry /\ doms[c] = doms[cs[n][1]] \cup {c}
  BY <1>2, <1>4, ChildFacts
<1>7. doms[cs[n][1]] = Called(cs)
  <2>1. doms[cs[n][1]] = {cs[m][1] : m \in 1..n}
    BY <1>3 DEF CallsFit
  <2>2. QED
    BY <1>1, <2>1 DEF Called
<1>8. c \notin Entered(live, doms, cs)
  <2>1. c \in doms[c]
    BY <1>6
  <2>2. QED
    BY <1>5, <2>1 DEF Entered
<1>9. Called(cs) \subseteq Entered(live, doms, cs)
  BY EnteredFacts
<1>10. QED
  BY <1>1, <1>2, <1>3, <1>4, <1>5, <1>6, <1>7, <1>8, <1>9 DEF n

\* The innermost call has taken a child.
IsDeepened(live, doms, cs, c, new) ==
    /\ CallsFit(live, doms, new)
    /\ Entered(live, doms, new) = Entered(live, doms, cs) \cup {c}
    /\ Called(new) = Called(cs) \cup {c}

\* It keeps their invariant and enters the child, and that only.
LEMMA CallsDeepen ==
    ASSUME NEW live, NEW doms, IsTree(live, doms), NEW cs, CallsFit(live, doms, cs),
           cs # << >>, NEW c \in Last(cs)[2],
           NEW new \in Seq(live \X SUBSET live), IsDeeper(cs, c, ChildrenOf(doms, c), new)
    PROVE  IsDeepened(live, doms, cs, c, new)
<1> DEFINE n == Len(cs)
           b == cs[n][1]
           below == ChildrenOf(doms, c)
<1>1. /\ c \in live /\ c \notin Entered(live, doms, cs) /\ c # Entry
      /\ Last(cs) = cs[n] /\ n \in DOMAIN cs
      /\ c \in ChildrenOf(doms, b) /\ c \in ToCome(cs) /\ b \in live
      /\ doms[c] = Called(cs) \cup {c}
  BY NextChild
<1>2. /\ cs \in Seq(live \X SUBSET live) /\ cs[1][1] = Entry
      /\ \A k \in DOMAIN cs : cs[k][2] \subseteq ChildrenOf(doms, cs[k][1])
      /\ \A m, k \in DOMAIN cs : cs[m][1] = cs[k][1] => m = k
      /\ Called(cs) \cap ToCome(cs) = {}
      /\ \A k \in DOMAIN cs : doms[cs[k][1]] = {cs[m][1] : m \in 1..k}
      /\ \A k \in DOMAIN cs : cs[k][1] \in live
  <2>1. \A k \in DOMAIN cs : cs[k] \in live \X SUBSET live
    BY DEF CallsFit
  <2>2. QED
    BY <2>1, Zenon DEF CallsFit
<1> HIDE DEF b, below
<1>3. /\ n \in Nat \ {0} /\ DOMAIN cs = 1..n /\ DOMAIN new = 1..(n + 1) /\ Len(new) = n + 1
      /\ \A k \in 1..n : new[k][1] = cs[k][1]
      /\ \A k \in 1..n : k # n => new[k] = cs[k]
      /\ new[n][2] = cs[n][2] \ {c} /\ new[n + 1][1] = c /\ new[n + 1][2] = below
  <2>1. /\ Len(cs) \in Nat \ {0} /\ DOMAIN cs = 1..Len(cs)
        /\ Len(new) = Len(cs) + 1 /\ DOMAIN new = 1..(Len(cs) + 1)
        /\ \A k \in 1..Len(cs) : new[k][1] = cs[k][1]
        /\ \A k \in 1..Len(cs) : k # Len(cs) => new[k] = cs[k]
        /\ new[Len(cs)] = <<cs[Len(cs)][1], cs[Len(cs)][2] \ {c}>>
        /\ new[Len(cs) + 1] = <<c, below>>
    BY Zenon DEF IsDeeper, below
  <2>2. new[n][2] = cs[n][2] \ {c} /\ new[n + 1][1] = c /\ new[n + 1][2] = below
    <3>1. new[n] = <<cs[n][1], cs[n][2] \ {c}>> /\ new[n + 1] = <<c, below>>
      BY <2>1, Zenon DEF below
    <3> HIDE DEF below, n
    <3>2. new[n][2] = cs[n][2] \ {c}
      BY <3>1
    <3>3. new[n + 1][1] = c /\ new[n + 1][2] = below
      BY <3>1
    <3>4. QED
      BY <3>2, <3>3
  <2>3. QED
    BY <2>1, <2>2, Zenon
<1> HIDE DEF n
<1>4. Called(new) = Called(cs) \cup {c}
  <2>1. \A k \in DOMAIN new : k \in 1..n \/ k = n + 1
    BY <1>3
  <2>2. \A k \in 1..n : k \in DOMAIN new
    BY <1>3
  <2>3. n + 1 \in DOMAIN new
    BY <1>3
  <2>4. QED
    BY <1>3, <2>1, <2>2, <2>3, SMTT(30) DEF Called
\* No other call waits for c.
<1>5. \A k \in 1..n : k # n => c \notin cs[k][2]
  <2> SUFFICES ASSUME NEW k \in 1..n, k # n, c \in cs[k][2]
               PROVE  FALSE
    OBVIOUS
  <2>1. c \in ChildrenOf(doms, cs[k][1]) /\ cs[k][1] \in live /\ k \in DOMAIN cs
    BY <1>2, <1>3
  <2>2. cs[k][1] = b
    BY <1>1, <2>1, OneParent
  <2>3. QED
    BY <1>1, <1>2, <2>1, <2>2 DEF b
<1>6. ToCome(new) = (ToCome(cs) \ {c}) \cup below
  <2>1. \A k \in 1..n : new[k][2] = cs[k][2] \ {c}
    BY <1>3, <1>5
  <2>2. \A k \in DOMAIN new : k \in 1..n \/ k = n + 1
    BY <1>3
  <2>3. \A k \in 1..n : k \in DOMAIN new
    BY <1>3
  <2>4. n + 1 \in DOMAIN new
    BY <1>3
  <2>5. ToCome(new) \subseteq (ToCome(cs) \ {c}) \cup below
    BY <1>3, <2>1, <2>2 DEF ToCome
  <2>6. ToCome(cs) \ {c} \subseteq ToCome(new)
    BY <1>3, <2>1, <2>3 DEF ToCome
  <2>7. below \subseteq ToCome(new)
    BY <1>3, <2>4 DEF ToCome
  <2>8. QED
    BY <2>5, <2>6, <2>7
<1>7. \A x \in below : x \in live /\ c \in doms[x] /\ x # c /\ x \notin doms[c]
  BY <1>1, ChildFacts DEF below
<1>8. Called(new) \cap ToCome(new) = {}
  <2>1. c \notin ToCome(new)
    BY <1>6, <1>7
  <2>2. Called(cs) \cap below = {}
    BY <1>1, <1>7
  <2>3. QED
    BY <1>2, <1>4, <1>6, <2>1, <2>2
<1>9. Entered(live, doms, new) = Entered(live, doms, cs) \cup {c}
  <2>1. c \in Entered(live, doms, new)
    <3>1. c \in Called(new)
      BY <1>4
    <3>2. doms[c] = Called(new)
      BY <1>1, <1>4
    <3>3. QED
      BY <1>1, <1>8, <3>2 DEF Entered
  <2>2. ASSUME NEW x \in Entered(live, doms, cs)
        PROVE  x \in Entered(live, doms, new)
    <3>1. x \in live /\ ToCome(cs) \cap doms[x] = {}
      BY DEF Entered
    <3>2. ASSUME NEW y \in below, y \in doms[x]
          PROVE  FALSE
      <4>1. c \in doms[y] /\ doms[y] \subseteq doms[x]
        BY <1>7, <3>1, <3>2 DEF IsTree
      <4>2. QED
        BY <1>1, <3>1, <4>1
    <3>3. QED
      BY <1>6, <3>1, <3>2 DEF Entered
  <2>3. ASSUME NEW x \in Entered(live, doms, new), x # c
        PROVE  x \in Entered(live, doms, cs)
    <3>1. x \in live /\ ToCome(new) \cap doms[x] = {}
      BY DEF Entered
    <3>2. c \notin doms[x]
      <4> SUFFICES ASSUME c \in doms[x]
                   PROVE  FALSE
        OBVIOUS
      <4>1. PICK y \in below : y \in doms[x]
        BY <2>3, <3>1 DEF IsTree, below
      <4>2. QED
        BY <1>6, <3>1, <4>1
    <3>3. QED
      BY <1>6, <3>1, <3>2 DEF Entered
  <2>4. QED
    BY <2>1, <2>2, <2>3
<1>10. \A k \in DOMAIN new : new[k][2] \subseteq ChildrenOf(doms, new[k][1])
  <2>1. \A k \in DOMAIN new : k \in 1..n \/ k = n + 1
    BY <1>3
  <2>2. \A k \in 1..n : new[k][2] \subseteq cs[k][2] /\ new[k][1] = cs[k][1]
    BY <1>3, <1>5
  <2>3. QED
    BY <1>2, <1>3, <2>1, <2>2 DEF below
<1>11. \A m, k \in DOMAIN new : new[m][1] = new[k][1] => m = k
  <2>1. \A k \in DOMAIN new : k \in 1..n \/ k = n + 1
    BY <1>3
  <2>2. c \notin Called(cs)
    BY <1>1, <1>2
  <2>3. \A k \in 1..n : new[k][1] # c
    BY <1>3, <2>2 DEF Called
  <2>4. QED
    BY <1>2, <1>3, <2>1, <2>3
<1>12. \A k \in DOMAIN new : doms[new[k][1]] = {new[m][1] : m \in 1..k}
  <2>1. ASSUME NEW k \in 1..n
        PROVE  doms[new[k][1]] = {new[m][1] : m \in 1..k}
    <3>1. \A m \in 1..k : m \in 1..n
      BY <1>3
    <3>2. \A m \in 1..k : new[m][1] = cs[m][1]
      BY <1>3, <3>1
    <3>3. doms[cs[k][1]] = {cs[m][1] : m \in 1..k}
      BY <1>2, <1>3
    <3>4. {cs[m][1] : m \in 1..k} = {new[m][1] : m \in 1..k}
      BY <3>2
    <3>5. QED
      BY <1>3, <3>3, <3>4
  <2>2. doms[c] = {new[m][1] : m \in 1..(n + 1)}
    BY <1>1, <1>3, <1>4 DEF Called
  <2>3. \A k \in DOMAIN new : k \in 1..n \/ k = n + 1
    BY <1>3
  <2>4. QED
    BY <1>3, <2>1, <2>2, <2>3
<1>13. new[1][1] = Entry
  <2>1. 1 \in 1..n
    BY <1>3
  <2>2. QED
    BY <1>2, <1>3, <2>1
<1>14. CallsFit(live, doms, new)
  BY <1>8, <1>10, <1>11, <1>12, <1>13 DEF CallsFit
<1>15. QED
  BY <1>4, <1>9, <1>14 DEF IsDeepened

-----------------------------------------------------------------------------
(* How many values the open calls have pushed.                             *)

\* P counts, call by call, the pops that cs will make for v.
Counts(P, cs, v) ==
    /\ P[0] = 0
    /\ \A n \in 1..Len(cs) : P[n] = P[n - 1] + Pops(cs[n][1], v)
    /\ \A n \in 0..Len(cs) : P[n] \in Nat

\* Pushed, the number of values the calls have on v's stack, is a sum over the calls.
LEMMA PushedCounts ==
    ASSUME NEW cs, NEW v, Len(cs) \in Nat,
           \A n \in 1..Len(cs) : Pops(cs[n][1], v) \in Nat
    PROVE  Counts(Pushed(cs, v), cs, v)
<1> DEFINE N == Len(cs)
           P == CHOOSE Count : Count = [n \in 0..Len(cs) |->
                    IF n = 0 THEN 0 ELSE Count[n - 1] + Pops(cs[n][1], v)]
           step == [p \in (1..N) \X Nat |-> p[2] + Pops(cs[p[1]][1], v)]
<1>1. Pushed(cs, v) = P
  BY Zenon DEF Pushed
<1>2. step \in [(1..N) \X Nat -> Nat]
  OBVIOUS
<1>3. PICK F : Runs(F, N, 0, step) /\ \A k \in 0..N : F[k] \in Nat
  <2>1. N \in Nat /\ 0 \in Nat
    OBVIOUS
  <2> HIDE DEF N, step
  <2>2. QED
    BY <1>2, <2>1, RunExists
<1>4. F = [n \in 0..Len(cs) |-> IF n = 0 THEN 0 ELSE F[n - 1] + Pops(cs[n][1], v)]
  <2>1. \A n \in 1..N : step[<<n, F[n - 1]>>] = F[n - 1] + Pops(cs[n][1], v)
    <3> SUFFICES ASSUME NEW n \in 1..N
                 PROVE  step[<<n, F[n - 1]>>] = F[n - 1] + Pops(cs[n][1], v)
      BY Zenon
    <3>1. F[n - 1] \in Nat
      BY <1>3
    <3>2. QED
      BY <3>1
  <2>2. F = [n \in 0..N |-> IF n = 0 THEN 0 ELSE step[<<n, F[n - 1]>>]]
    BY <1>3, Zenon DEF Runs
  <2>3. DOMAIN F = 0..N /\ F = [n \in 0..N |-> F[n]]
    BY <2>2, Zenon
  <2>4. \A n \in 0..N : F[n] = IF n = 0 THEN 0 ELSE F[n - 1] + Pops(cs[n][1], v)
    <3> SUFFICES ASSUME NEW n \in 0..N
                 PROVE  F[n] = IF n = 0 THEN 0 ELSE F[n - 1] + Pops(cs[n][1], v)
      OBVIOUS
    <3>1. F[n] = IF n = 0 THEN 0 ELSE step[<<n, F[n - 1]>>]
      BY <2>2, Zenon
    <3>2. n = 0 \/ n \in 1..N
      OBVIOUS
    <3> HIDE DEF step, N
    <3>3. QED
      BY <2>1, <3>1, <3>2
  <2> HIDE DEF step
  <2>5. QED
    BY <2>3, <2>4
<1>5. P = [n \in 0..Len(cs) |-> IF n = 0 THEN 0 ELSE P[n - 1] + Pops(cs[n][1], v)]
  BY <1>4, Zenon
<1> HIDE DEF P
<1>6. \A n \in 0..N : P[n] = IF n = 0 THEN 0 ELSE P[n - 1] + Pops(cs[n][1], v)
  BY <1>5, Zenon
<1> DEFINE Good == {n \in 0..N : P[n] \in Nat}
<1>7. 0 \in Good
  BY <1>6
<1>8. ASSUME NEW k \in 1..N, k - 1 \in Good
      PROVE  k \in Good
  <2>1. P[k] = P[k - 1] + Pops(cs[k][1], v) /\ P[k - 1] \in Nat /\ Pops(cs[k][1], v) \in Nat
    BY <1>6, <1>8
  <2>2. QED
    BY <2>1
<1>9. 0..N \subseteq Good
  <2> HIDE DEF Good
  <2>1. QED
    BY <1>7, <1>8, UpTo
<1>10. P[0] = 0 /\ \A n \in 1..N : P[n] = P[n - 1] + Pops(cs[n][1], v)
  BY <1>6
<1>11. Counts(P, cs, v)
  BY <1>9, <1>10 DEF Counts
<1>12. QED
  BY <1>1, <1>11

\* The count up to a call depends on the calls up to there alone.
LEMMA SameCounts ==
    ASSUME NEW cs, NEW new, NEW v, NEW P, NEW Q, Counts(P, cs, v), Counts(Q, new, v),
           NEW m \in Nat, Len(cs) \in Nat, Len(new) \in Nat, m <= Len(cs), m <= Len(new),
           \A k \in 1..m : new[k][1] = cs[k][1]
    PROVE  \A k \in 0..m : Q[k] = P[k]
<1> DEFINE Good == {k \in 0..m : Q[k] = P[k]}
<1>1. 0 \in Good
  BY DEF Counts
<1>2. ASSUME NEW k \in 1..m, k - 1 \in Good
      PROVE  k \in Good
  <2>1. k \in 1..Len(cs) /\ k \in 1..Len(new)
    OBVIOUS
  <2>2. P[k] = P[k - 1] + Pops(cs[k][1], v) /\ Q[k] = Q[k - 1] + Pops(new[k][1], v)
    BY <2>1 DEF Counts
  <2>3. QED
    BY <1>2, <2>2
<1>3. 0..m \subseteq Good
  <2> HIDE DEF Good
  <2>1. QED
    BY <1>1, <1>2, UpTo
<1>4. QED
  BY <1>3

\* The first call's values stay counted.
LEMMA FirstCounts ==
    ASSUME NEW cs, NEW v, NEW P, Counts(P, cs, v), Len(cs) \in Nat,
           \A n \in 1..Len(cs) : Pops(cs[n][1], v) \in Nat
    PROVE  \A k \in 1..Len(cs) : P[k] >= Pops(cs[1][1], v)
<1> DEFINE N == Len(cs)
           Good == {k \in 0..N : k = 0 \/ P[k] >= Pops(cs[1][1], v)}
<1>1. 0 \in Good
  OBVIOUS
<1>2. ASSUME NEW k \in 1..N, k - 1 \in Good
      PROVE  k \in Good
  <2>1. P[k] = P[k - 1] + Pops(cs[k][1], v) /\ P[k - 1] \in Nat /\ P[0] = 0
    BY DEF Counts
  <2>2. Pops(cs[k][1], v) \in Nat /\ Pops(cs[1][1], v) \in Nat
    OBVIOUS
  <2>3. CASE k = 1
    BY <2>1, <2>2, <2>3
  <2>4. CASE k # 1
    <3>1. P[k - 1] >= Pops(cs[1][1], v)
      BY <1>2, <2>4
    <3>2. QED
      BY <2>1, <2>2, <3>1
  <2>5. QED
    BY <2>3, <2>4
<1>3. 0..N \subseteq Good
  <2> HIDE DEF Good
  <2>1. QED
    BY <1>1, <1>2, UpTo
<1>4. QED
  BY <1>3

-----------------------------------------------------------------------------
(* What the pass finds, and the sets its variables take their values from. *)

\* A load or store of a live block comes behind the declaration.
StorageFits(f) ==
    \A b \in Reachable(f) : \A k \in DOMAIN f.code[b] :
        LET i == f.code[b][k]
        IN  i.op \in {"load", "store"} /\ i.var # Global =>
                /\ i.var[1] \in DominatorSets(f)[b]
                /\ i.var[1] = b => i.var[2] < k

\* A function of the visitor's without dead predecessors.
Sound(f) ==
    /\ Accesses(f) /\ StorageFits(f)
    /\ \E c : Certified(f, c)
    /\ \A b \in Reachable(f) : Pre(f, b) \subseteq Reachable(f)

\* No phi is put in a block twice.
NoRepeats(s) == \A j, k \in DOMAIN s : s[j] = s[k] => j = k

\* The state the pass has found: the reachable blocks, their dominators, its phis.
Live == Reachable(func)
Doms == DominatorSets(func)
PhiPlaces == UNION {{PhiOf(b, v) : v \in ToSet(phis[b])} : b \in Blocks(func)}
\* A value on a stack: of a phi, of an instruction that has one, or what the
\* store at its place writes.
Values == {p \in PlacesOf(func) : InstrAt(p).op \notin {"br", "ret"}} \cup PhiPlaces
\* The loads the pass may replace, and what replaces them.
LocalLoads == {p \in PlacesOf(func) : IsLocalAccess(InstrAt(p), "load")}
Replacements == UNION {[L -> Values] : L \in SUBSET LocalLoads}

\* The phis of the blocks are variables, each once.
PhisFit == /\ phis \in [Blocks(func) -> Seq(Allocas)]
           /\ \A b \in Blocks(func) : NoRepeats(phis[b])

\* The states of re_name on the way through a block.
States == [stacks : [Allocas -> Seq(Values)], known : SUBSET Allocas,
           replacement : Replacements, failed : BOOLEAN]

\* A phi is not the place of an instruction.
LEMMA TripleNoPair ==
    ASSUME NEW a, NEW b, NEW c, NEW d, NEW e
    PROVE  <<a, b, c>> # <<d, e>>
<1>1. Len(<<a, b, c>>) = 3 /\ Len(<<d, e>>) = 2
  OBVIOUS
<1>2. QED
  BY <1>1

\* A place is a block and a position in it.
LEMMA PlaceIs ==
    ASSUME NEW f, NEW p
    PROVE  p \in PlacesOf(f) <=> \E b \in Blocks(f) : \E k \in DOMAIN f.code[b] : p = <<b, k>>
  BY DEF PlacesOf

\* What the proofs below take from Sound.
LEMMA SoundFacts ==
    ASSUME NEW f, Sound(f)
    PROVE  /\ WellFormed(f) /\ Entry \in Blocks(f) /\ Consistent(f)
           /\ IsTree(Reachable(f), DominatorSets(f))
           /\ Reachable(f) \subseteq Blocks(f)
           /\ \A b \in Blocks(f) : /\ f.code[b] \in Seq(Instructions)
                                   /\ Len(f.code[b]) \in Nat
                                   /\ DOMAIN f.code[b] = 1..Len(f.code[b])
           /\ Blocks(f) = 1..Len(f.code) /\ Len(f.code) \in Nat /\ Entry \in Reachable(f)
<1>1. PICK c : Certified(f, c)
  BY DEF Sound
<1>2. WellFormed(f) /\ Entry \in Blocks(f) /\ Consistent(f)
  BY <1>1 DEF Certified
<1>3. Reachable(f) \subseteq Blocks(f) /\ Entry \in Reachable(f)
  BY <1>2, ReachableFacts
<1>4. Blocks(f) = 1..Len(f.code) /\ Len(f.code) \in Nat /\ f.code \in Seq(Seq(Instructions))
  BY <1>2, BlocksFacts
<1>5. ASSUME NEW b \in Blocks(f)
      PROVE  /\ f.code[b] \in Seq(Instructions) /\ Len(f.code[b]) \in Nat
             /\ DOMAIN f.code[b] = 1..Len(f.code[b])
  <2>1. f.code[b] \in Seq(Instructions)
    BY <1>4, ElementOfSeq
  <2>2. QED
    BY <2>1, LenProperties
<1>6. IsTree(Reachable(f), DominatorSets(f))
  BY <1>1, DominanceIsTree
<1>7. QED
  BY <1>2, <1>3, <1>4, <1>5, <1>6

\* A local load or store is one of an alloca, and the other way round.
LEMMA LocalAccess ==
    ASSUME Sound(func), NEW b \in Blocks(func), NEW k \in DOMAIN func.code[b],
           NEW op \in {"load", "store"}
    PROVE  LET i == func.code[b][k]
           IN  /\ InstrAt(<<b, k>>) = i
               /\ IsLocalAccess(i, op) => i.op = op /\ i.var \in Allocas
               /\ i.op = op /\ i.var \in Allocas => IsLocalAccess(i, op)
<1> DEFINE i == func.code[b][k]
<1>1. /\ WellFormed(func) /\ func.code[b] \in Seq(Instructions)
      /\ DOMAIN func.code[b] = 1..Len(func.code[b])
      /\ Blocks(func) = 1..Len(func.code) /\ Len(func.code) \in Nat
  BY SoundFacts
<1>2. i \in Instructions
  BY <1>1, ElementOfSeq
<1>3. i.var \in Nat \X Nat
  BY <1>2 DEF Instructions, Operands
<1>4. i.var = <<i.var[1], i.var[2]>>
  BY <1>3
<1>5. AccessRight(func, b, k, i)
  BY DEF Sound, Accesses
<1>6. InstrAt(<<b, k>>) = i
  BY DEF InstrAt
<1> HIDE DEF i
<1>7. ASSUME IsLocalAccess(i, op)
      PROVE  i.op = op /\ i.var \in Allocas
  <2>1. i.op = op /\ i.var # Global /\ InstrAt(i.var).op # "gep"
    BY <1>7 DEF IsLocalAccess
  <2>2. IsAddress(func, i.var)
    BY <1>5, <2>1 DEF AccessRight
  <2>3. i.var \in PlacesOf(func) /\ InstrAt(i.var).op = "alloca"
    BY <1>4, <2>1, <2>2, PlaceIs DEF IsAddress, InstrAt
  <2>4. QED
    BY <2>1, <2>3 DEF Allocas
<1>8. ASSUME i.op = op, i.var \in Allocas
      PROVE  IsLocalAccess(i, op)
  <2>1. i.var \in PlacesOf(func) /\ InstrAt(i.var).op = "alloca"
    BY <1>8 DEF Allocas
  <2>2. PICK c \in Blocks(func) : \E j \in DOMAIN func.code[c] : i.var = <<c, j>>
    BY <2>1, PlaceIs
  <2>3. c # 0
    BY <1>1
  <2>4. i.var # Global
    BY <2>2, <2>3 DEF Global
  <2>5. QED
    BY <1>8, <2>1, <2>4 DEF IsLocalAccess
<1>9. QED
  BY <1>6, <1>7, <1>8 DEF i

\* The places in front of place k.
LEMMA EarlierPlaces ==
    ASSUME NEW n \in Nat, NEW k \in 1..n
    PROVE  /\ k \in Nat /\ k - 1 \in Nat /\ k > k - 1 /\ k \in 1..k
           /\ \A m \in Nat : m > k => m > k - 1
           /\ \A m \in 1..k : m \in 1..(k - 1) \/ m = k
           /\ \A m \in 1..(k - 1) : m \in 1..k /\ m \in 1..n
OBVIOUS

\* Counting on, or not.
LEMMA OneMore ==
    /\ \A n \in Nat : n + 0 = n
    /\ \A a, n, c \in Nat : (a + n + c) + 1 = a + (n + 1) + c
OBVIOUS

\* What a store writes: an instruction in front of it in its block, or a
\* literal or the argument, which stand for themselves at the store's place.
LEMMA StoredIs ==
    ASSUME Sound(func), NEW b \in Blocks(func), NEW k \in DOMAIN func.code[b],
           func.code[b][k].op = "store", IsInstruction(func.code[b][k].args[1])
    PROVE  \E m \in 1..(k - 1) : /\ func.code[b][k].args[1] = <<b, m>>
                                 /\ <<b, m>> \in PlacesOf(func)
                                 /\ InstrAt(<<b, m>>).op \notin {"store", "br", "ret"}
<1> DEFINE i == func.code[b][k]
           val == i.args[1]
<1>1. /\ WellFormed(func) /\ func.code[b] \in Seq(Instructions)
      /\ DOMAIN func.code[b] = 1..Len(func.code[b]) /\ Len(func.code[b]) \in Nat
  BY SoundFacts
<1>2. i \in Instructions
  BY <1>1, ElementOfSeq
<1>3. Len(i.args) = 1 /\ ComesBefore(val, b, k)
  BY DEF Sound, Accesses, AccessRight
<1>4. val \in Nat \X Nat
  <2>1. i.args \in Seq(Operands)
    BY <1>2 DEF Instructions
  <2>2. 1 \in 1..Len(i.args)
    BY <1>3
  <2>3. QED
    BY <2>1, <2>2, ElementOfSeq DEF Operands
<1>5. val = <<val[1], val[2]>> /\ val[1] = b /\ val[2] \in 1..(k - 1)
  <2>1. val = <<val[1], val[2]>>
    <3> HIDE DEF val
    <3>1. QED
      BY <1>4
  <2>2. IsInstruction(val)
    OBVIOUS
  <2>3. QED
    BY <1>3, <2>1, <2>2, Zenon DEF ComesBefore
<1>6. val[2] \in DOMAIN func.code[b]
  <2>1. k \in 1..Len(func.code[b])
    BY <1>1
  <2>2. \A m \in 1..(k - 1) : m \in 1..Len(func.code[b])
    BY <1>1, <2>1, EarlierPlaces, Zenon
  <2> HIDE DEF val
  <2>3. QED
    BY <1>1, <1>5, <2>2, Zenon
<1>7. InstrAt(val).op \notin {"store", "br", "ret"}
  <2>1. 1 \in DOMAIN i.args
    <3>1. i.args \in Seq(Operands)
      BY <1>2 DEF Instructions
    <3>2. QED
      BY <1>3, <3>1
  <2>2. val \in ToSet(i.args)
    BY <2>1 DEF ToSet
  <2>3. HasValue(func, val)
    BY <2>2 DEF Sound, Accesses, AccessRight
  <2>4. QED
    BY <2>3 DEF HasValue, InstrAt
<1>8. QED
  BY <1>5, <1>6, <1>7, PlaceIs, ZenonT(30)

-----------------------------------------------------------------------------
(* re_name on one block.                                                   *)

\* The parts of a state.
LEMMA StateIs ==
    ASSUME NEW r \in States
    PROVE  /\ r.stacks \in [Allocas -> Seq(Values)] /\ r.known \in SUBSET Allocas
           /\ r.replacement \in Replacements /\ r.failed \in BOOLEAN
           /\ DOMAIN r.replacement \subseteq LocalLoads
           /\ \A l \in DOMAIN r.replacement : r.replacement[l] \in Values
           /\ \A v \in Allocas : /\ Len(r.stacks[v]) \in Nat
                                 /\ DOMAIN r.stacks[v] = 1..Len(r.stacks[v])
                                 /\ \A j \in DOMAIN r.stacks[v] : r.stacks[v][j] \in Values
<1>1. /\ r.stacks \in [Allocas -> Seq(Values)] /\ r.known \in SUBSET Allocas
      /\ r.replacement \in Replacements /\ r.failed \in BOOLEAN
  BY DEF States
<1>2. PICK L \in SUBSET LocalLoads : r.replacement \in [L -> Values]
  BY <1>1 DEF Replacements
<1>3. \A v \in Allocas : r.stacks[v] \in Seq(Values)
  BY <1>1
<1>4. \A v \in Allocas : /\ Len(r.stacks[v]) \in Nat
                         /\ DOMAIN r.stacks[v] = 1..Len(r.stacks[v])
                         /\ \A j \in DOMAIN r.stacks[v] : r.stacks[v][j] \in Values
  BY <1>3, LenProperties, ElementOfSeq
<1>5. QED
  BY <1>1, <1>2, <1>4

\* s is front with e at its end.
EndsIn(s, front, e) ==
    /\ Len(s) = Len(front) + 1 /\ s # << >>
    /\ \A j \in DOMAIN front : j \in DOMAIN s /\ s[j] = front[j]
    /\ \A j \in DOMAIN s : j \in DOMAIN front \/ s[j] = e

\* So it is with Append.
LEMMA AppendEndsIn ==
    ASSUME NEW S, NEW front \in Seq(S), NEW e \in S
    PROVE  Append(front, e) \in Seq(S) /\ EndsIn(Append(front, e), front, e)
<1> DEFINE s == Append(front, e)
           n == Len(front)
<1>1. /\ s \in Seq(S) /\ s # << >> /\ Len(s) = n + 1
      /\ \A k \in 1..n : s[k] = front[k]
      /\ s[n + 1] = e
  BY AppendProperties
<1>2. n \in Nat /\ DOMAIN front = 1..n /\ DOMAIN s = 1..(n + 1)
  BY <1>1, LenProperties
<1> HIDE DEF s, n
<1>3. \A k \in 1..n : k \in 1..(n + 1)
  BY <1>2
<1>4. \A k \in 1..(n + 1) : k \in 1..n \/ k = n + 1
  BY <1>2
<1>5. QED
  BY <1>1, <1>2, <1>3, <1>4 DEF EndsIn, s, n

\* val has been pushed for v.
IsPushed(q, r, v, val) ==
    /\ q.known = r.known \cup {v}
    /\ q.replacement = r.replacement /\ q.failed = r.failed
    /\ EndsIn(q.stacks[v], r.stacks[v], val)
    /\ \A u \in Allocas : u # v => q.stacks[u] = r.stacks[u]

\* So it is with PushValue.
LEMMA PushIs ==
    ASSUME NEW r \in States, NEW v \in Allocas, NEW val \in Values
    PROVE  PushValue(r, v, val) \in States /\ IsPushed(PushValue(r, v, val), r, v, val)
<1> DEFINE q == PushValue(r, v, val)
           new == Append(r.stacks[v], val)
<1>1. r.stacks[v] \in Seq(Values) /\ r.stacks \in [Allocas -> Seq(Values)]
  BY StateIs
<1>2. new \in Seq(Values) /\ EndsIn(new, r.stacks[v], val)
  BY <1>1, AppendEndsIn
<1> HIDE DEF new
<1>3. r = [stacks |-> r.stacks, known |-> r.known, replacement |-> r.replacement,
           failed |-> r.failed]
  BY DEF States
<1>4. q = [stacks |-> [r.stacks EXCEPT ![v] = new], known |-> r.known \cup {v},
           replacement |-> r.replacement, failed |-> r.failed]
  <2>1. q = [r EXCEPT !.stacks = [r.stacks EXCEPT ![v] = new], !.known = r.known \cup {v}]
    BY DEF PushValue, new
  <2> HIDE DEF q
  <2>2. QED
    BY <1>3, <2>1
<1>5. [r.stacks EXCEPT ![v] = new] \in [Allocas -> Seq(Values)]
  BY <1>1, <1>2
<1> HIDE DEF q
<1>6. /\ q.stacks = [r.stacks EXCEPT ![v] = new] /\ q.known = r.known \cup {v}
      /\ q.replacement = r.replacement /\ q.failed = r.failed
  BY <1>4
<1>7. q \in States
  BY <1>4, <1>5, StateIs DEF States
<1>8. q.stacks[v] = new /\ \A u \in Allocas : u # v => q.stacks[u] = r.stacks[u]
  BY <1>1, <1>6
<1>9. QED
  BY <1>2, <1>6, <1>7, <1>8 DEF q, IsPushed

\* The load at p has been replaced by val.
IsReplaced(q, r, p, val) ==
    /\ q.known = r.known /\ q.stacks = r.stacks /\ q.failed = r.failed
    /\ DOMAIN q.replacement = DOMAIN r.replacement \cup {p}
    /\ q.replacement[p] = val
    /\ \A l \in DOMAIN r.replacement : l # p => q.replacement[l] = r.replacement[l]

\* So it is with Replace.
LEMMA ReplaceIs ==
    ASSUME NEW r \in States, NEW p \in LocalLoads, NEW val \in Values
    PROVE  Replace(r, p, val) \in States /\ IsReplaced(Replace(r, p, val), r, p, val)
<1> DEFINE q == Replace(r, p, val)
           D == DOMAIN r.replacement \cup {p}
           new == [l \in D |-> IF l = p THEN val ELSE r.replacement[l]]
<1>1. /\ DOMAIN r.replacement \subseteq LocalLoads
      /\ \A l \in DOMAIN r.replacement : r.replacement[l] \in Values
  BY StateIs
<1>2. new \in [D -> Values] /\ D \in SUBSET LocalLoads
  BY <1>1
<1>3. new \in Replacements
  BY <1>2 DEF Replacements
<1>4. DOMAIN new = D /\ new[p] = val /\ \A l \in DOMAIN r.replacement : l # p => new[l] = r.replacement[l]
  OBVIOUS
<1>5. r = [stacks |-> r.stacks, known |-> r.known, replacement |-> r.replacement,
           failed |-> r.failed]
  BY DEF States
<1>6. q = [r EXCEPT !.replacement = new]
  BY DEF Replace
<1> HIDE DEF new, q
<1>7. q = [stacks |-> r.stacks, known |-> r.known, replacement |-> new, failed |-> r.failed]
  BY <1>5, <1>6
<1>8. q \in States
  BY <1>3, <1>7, StateIs DEF States
<1>9. q.known = r.known /\ q.stacks = r.stacks /\ q.failed = r.failed /\ q.replacement = new
  BY <1>7
<1>10. QED
  BY <1>4, <1>8, <1>9 DEF q, IsReplaced

\* The stores to v among the first k instructions of b.
StoresTo(b, v, k) ==
    Cardinality({j \in 1..k : func.code[b][j].op = "store" /\ func.code[b][j].var = v})
\* The phis of v in b: one at most.
PhisOf(b, v) == Cardinality({k \in DOMAIN phis[b] : phis[b][k] = v})

\* It grows by one with each store, and comes to what Pops counts.
LEMMA StoresCount ==
    ASSUME Sound(func), NEW b \in Blocks(func), NEW v
    PROVE  /\ StoresTo(b, v, 0) = 0
           /\ \A k \in Nat : StoresTo(b, v, k) \in Nat
           /\ \A k \in DOMAIN func.code[b] :
                 StoresTo(b, v, k) = StoresTo(b, v, k - 1)
                     + (IF func.code[b][k].op = "store" /\ func.code[b][k].var = v THEN 1 ELSE 0)
           /\ Pops(b, v) = StoresTo(b, v, Len(func.code[b])) + PhisOf(b, v)
           /\ v \in Allocas /\ b \in StoringBlocks(v) => StoresTo(b, v, Len(func.code[b])) >= 1
<1> DEFINE In(k) == {j \in 1..k : func.code[b][j].op = "store" /\ func.code[b][j].var = v}
<1>1. DOMAIN func.code[b] = 1..Len(func.code[b]) /\ Len(func.code[b]) \in Nat
  BY SoundFacts
<1>2. \A k : StoresTo(b, v, k) = Cardinality(In(k))
  BY DEF StoresTo
<1>3. \A k \in Nat : IsFiniteSet(In(k)) /\ Cardinality(In(k)) \in Nat
  <2> SUFFICES ASSUME NEW k \in Nat
               PROVE  IsFiniteSet(In(k)) /\ Cardinality(In(k)) \in Nat
    OBVIOUS
  <2>1. 1 \in Int /\ k \in Int
    OBVIOUS
  <2>2. IsFiniteSet(1..k)
    BY <2>1, FS_Interval, Zenon
  <2>3. In(k) \subseteq 1..k
    OBVIOUS
  <2> HIDE DEF In
  <2>4. IsFiniteSet(In(k))
    BY <2>2, <2>3, FS_Subset
  <2>5. QED
    BY <2>4, FS_CardinalityType
<1>4. Cardinality(In(0)) = 0
  <2>1. In(0) = {}
    OBVIOUS
  <2> HIDE DEF In
  <2>2. QED
    BY <2>1, FS_EmptySet
<1>5. ASSUME NEW k \in DOMAIN func.code[b]
      PROVE  Cardinality(In(k)) = Cardinality(In(k - 1))
                + (IF func.code[b][k].op = "store" /\ func.code[b][k].var = v THEN 1 ELSE 0)
  <2>1. k \in Nat /\ k - 1 \in Nat /\ k \in 1..k /\ k \notin 1..(k - 1)
    BY <1>1
  <2>2. \A j : j \in 1..k <=> j \in 1..(k - 1) \/ j = k
    BY <1>1
  <2>3. CASE func.code[b][k].op = "store" /\ func.code[b][k].var = v
    <3>1. In(k) = In(k - 1) \cup {k} /\ k \notin In(k - 1)
      BY <2>1, <2>2, <2>3
    <3> HIDE DEF In
    <3>2. Cardinality(In(k)) = Cardinality(In(k - 1)) + 1
      BY <1>3, <2>1, <3>1, FS_AddElement
    <3>3. QED
      BY <2>3, <3>2
  <2>4. CASE ~(func.code[b][k].op = "store" /\ func.code[b][k].var = v)
    <3>1. In(k) = In(k - 1)
      BY <2>1, <2>2, <2>4
    <3> HIDE DEF In
    <3>2. QED
      BY <1>3, <2>1, <2>4, <3>1
  <2>5. QED
    BY <2>3, <2>4
<1>6. Pops(b, v) = Cardinality(In(Len(func.code[b]))) + PhisOf(b, v)
  BY <1>1 DEF Pops, PhisOf
<1>7. ASSUME b \in StoringBlocks(v)
      PROVE  Cardinality(In(Len(func.code[b]))) >= 1
  <2>1. In(Len(func.code[b])) # {}
    BY <1>1, <1>7 DEF StoringBlocks
  <2> HIDE DEF In
  <2>2. Cardinality(In(Len(func.code[b]))) # 0
    BY <1>1, <1>3, <2>1, FS_EmptySet
  <2>3. QED
    BY <1>1, <1>3, <2>2, SMTT(30)
<1> HIDE DEF In
<1>8. QED
  BY <1>2, <1>3, <1>4, <1>5, <1>6, <1>7

\* A block has one phi for v, or none.
LEMMA PhisCount ==
    ASSUME Sound(func), PhisFit, NEW b \in Blocks(func), NEW v
    PROVE  PhisOf(b, v) = IF v \in ToSet(phis[b]) THEN 1 ELSE 0
<1> DEFINE In == {k \in DOMAIN phis[b] : phis[b][k] = v}
<1>1. NoRepeats(phis[b])
  BY DEF PhisFit
<1>2. v \in ToSet(phis[b]) <=> \E k \in DOMAIN phis[b] : phis[b][k] = v
  BY DEF ToSet
<1>3. CASE v \in ToSet(phis[b])
  <2>1. PICK k \in DOMAIN phis[b] : phis[b][k] = v
    BY <1>2, <1>3
  <2>2. In = {k}
    BY <1>1, <2>1 DEF NoRepeats
  <2> HIDE DEF In
  <2>3. Cardinality(In) = 1
    BY <2>2, FS_Singleton
  <2>4. QED
    BY <1>3, <2>3 DEF PhisOf, In
<1>4. CASE v \notin ToSet(phis[b])
  <2>1. In = {}
    BY <1>2, <1>4
  <2> HIDE DEF In
  <2>2. Cardinality(In) = 0
    BY <2>1, FS_EmptySet
  <2>3. QED
    BY <1>4, <2>2 DEF PhisOf, In
<1>5. QED
  BY <1>3, <1>4

\* What a store at p pushes.
StoredAt(r, p) ==
    LET val == InstrAt(p).args[1] IN IF IsInstruction(val) THEN Resolve(r, val) ELSE p

\* RenameInstr, case by case.
GoesTo(r, b, k, i, q) ==
    /\ r.failed => q = r
    /\ ~r.failed /\ IsLocalAccess(i, "load") =>
          \/ i.var \notin r.known /\ q = r
          \/ i.var \in r.known /\ r.stacks[i.var] = << >> /\ q.failed = TRUE
          \/ /\ i.var \in r.known /\ Len(r.stacks[i.var]) \in DOMAIN r.stacks[i.var]
             /\ IsReplaced(q, r, <<b, k>>, r.stacks[i.var][Len(r.stacks[i.var])])
    /\ ~r.failed /\ IsLocalAccess(i, "store") =>
          IsPushed(q, r, i.var, StoredAt(r, <<b, k>>))
    /\ ~r.failed /\ ~IsLocalAccess(i, "load") /\ ~IsLocalAccess(i, "store") => q = r

\* RenameInstr does that, if the instruction is well placed.
LEMMA RenameInstrCases ==
    ASSUME Sound(func), NEW r \in States, NEW b \in Blocks(func), NEW k \in DOMAIN func.code[b],
           NEW i, i = func.code[b][k], NEW q, q = RenameInstr(r, <<b, k>>)
    PROVE  /\ q \in States
           /\ GoesTo(r, b, k, i, q)
<1> DEFINE p == <<b, k>>
<1>1. InstrAt(p) = i /\ p \in PlacesOf(func)
  BY PlaceIs DEF InstrAt
<1>2. q = IF r.failed THEN r
          ELSE IF IsLocalAccess(i, "load") THEN ReplaceLoad(r, p, i.var)
          ELSE IF IsLocalAccess(i, "store") THEN PushStore(r, p, i)
          ELSE r
  BY <1>1 DEF RenameInstr
<1> HIDE DEF p
<1>3. CASE r.failed
  BY <1>2, <1>3 DEF GoesTo
<1>4. CASE ~r.failed /\ IsLocalAccess(i, "load")
  <2> DEFINE v == i.var
  <2>1. v \in Allocas /\ p \in LocalLoads /\ i.op = "load"
    BY <1>1, <1>4, LocalAccess DEF LocalLoads
  <2>2. ~IsLocalAccess(i, "store")
    BY <2>1 DEF IsLocalAccess
  <2>3. q = ReplaceLoad(r, p, v)
    BY <1>2, <1>4
  <2> HIDE DEF v, GoesTo
  <2>4. CASE v \notin r.known
    <3>1. q = r
      BY <2>3, <2>4 DEF ReplaceLoad
    <3>2. QED
      BY <1>4, <2>2, <2>4, <3>1 DEF v, GoesTo
  <2>5. CASE v \in r.known /\ r.stacks[v] = << >>
    <3>1. q = [r EXCEPT !.failed = TRUE]
      BY <2>3, <2>5 DEF ReplaceLoad
    <3>2. q \in States /\ q.failed = TRUE
      BY <3>1, Zenon DEF States
    <3>3. QED
      BY <1>4, <2>2, <2>5, <3>2 DEF v, GoesTo
  <2>6. CASE v \in r.known /\ r.stacks[v] # << >>
    <3>1. r.stacks[v] \in Seq(Values)
      BY <2>1, StateIs
    <3>2. /\ Last(r.stacks[v]) = r.stacks[v][Len(r.stacks[v])]
          /\ r.stacks[v][Len(r.stacks[v])] \in Values
          /\ Len(r.stacks[v]) \in DOMAIN r.stacks[v]
      BY <2>6, <3>1, FrontIs
    <3>3. q = Replace(r, p, r.stacks[v][Len(r.stacks[v])])
      BY <2>3, <2>6, <3>2 DEF ReplaceLoad
    <3>4. q \in States /\ IsReplaced(q, r, p, r.stacks[v][Len(r.stacks[v])])
      BY <2>1, <3>2, <3>3, ReplaceIs
    <3>5. QED
      BY <1>4, <2>2, <2>6, <3>2, <3>4, Zenon DEF v, p, GoesTo
  <2>7. QED
    BY <2>4, <2>5, <2>6
<1>5. CASE ~r.failed /\ IsLocalAccess(i, "store")
  <2> DEFINE v == i.var
             val == StoredAt(r, p)
  <2>1. v \in Allocas /\ i.op = "store"
    BY <1>1, <1>5, LocalAccess
  <2>2. ~IsLocalAccess(i, "load")
    BY <2>1 DEF IsLocalAccess
  <2>3. q = PushValue(r, v, val)
    BY <1>1, <1>2, <1>5, <2>2 DEF PushStore, StoredAt
  <2>4. val \in Values
    <3>1. CASE IsInstruction(i.args[1])
      <4>1. i.args[1] \in PlacesOf(func) /\ InstrAt(i.args[1]).op \notin {"br", "ret"}
        BY <2>1, <3>1, StoredIs
      <4>2. val = Resolve(r, i.args[1])
        BY <1>1, <3>1 DEF StoredAt
      <4>3. Resolve(r, i.args[1]) \in Values
        BY <4>1, StateIs DEF Resolve, Values
      <4>4. QED
        BY <4>2, <4>3
    <3>2. CASE ~IsInstruction(i.args[1])
      <4>1. val = p
        BY <1>1, <3>2 DEF StoredAt
      <4>2. p \in PlacesOf(func) /\ InstrAt(p).op = "store"
        BY <1>1, <1>5, LocalAccess DEF IsLocalAccess
      <4>3. QED
        BY <4>1, <4>2 DEF Values
    <3>3. QED
      BY <3>1, <3>2
  <2> HIDE DEF val
  <2>5. q \in States /\ IsPushed(q, r, v, val)
    BY <2>1, <2>3, <2>4, PushIs
  <2>6. QED
    BY <1>5, <2>2, <2>5 DEF val, p, GoesTo
<1>6. CASE ~r.failed /\ ~IsLocalAccess(i, "load") /\ ~IsLocalAccess(i, "store")
  BY <1>2, <1>6 DEF GoesTo
<1>7. QED
  BY <1>3, <1>4, <1>5, <1>6

-----------------------------------------------------------------------------
(* What holds of the values the walk has found when it has entered the     *)
(* blocks E.                                                               *)

\* A value of a block of E that no load has replaced.
Final(E, rep, val) == val \notin DOMAIN rep /\ HomeOf(val) \in E

\* When the blocks of E have been entered: a variable stored to is known, a value
\* on a stack is final, and so is what replaced a load, whose block it dominates.
ValuesFit(E, sts, kn, rep) ==
    /\ \A v \in Allocas : StoringBlocks(v) \cap E # {} => v \in kn
    /\ \A v \in Allocas : \A j \in DOMAIN sts[v] : Final(E, rep, sts[v][j])
    /\ \A l \in DOMAIN rep : /\ l[1] \in E
                             /\ HomeOf(rep[l]) \in Doms[l[1]]
                             /\ Final(E, rep, rep[l])
    /\ Initialised => \A l \in LocalLoads : l[1] \in E => l \in DOMAIN rep

\* A variable the entry block stores to has a value while the walk is on.
TopsFit(sts, kn) ==
    \A v \in kn : Entry \in StoringBlocks(v) => sts[v] # << >>

\* Some variable has no value from the entry block.
SomeUnset == \E v \in Allocas : Entry \notin StoringBlocks(v)

\* The walk can enter b: b's strict dominators are entered, and the values on
\* the stacks dominate b.
Ready(E, b) ==
    /\ Sound(func) /\ PhisFit
    /\ stacks \in [Allocas -> Seq(Values)] /\ known \in SUBSET Allocas
    /\ replacement \in Replacements
    /\ b \in Live /\ b \notin E /\ Doms[b] \subseteq E \cup {b}
    /\ ValuesFit(E, stacks, known, replacement)
    /\ TopsFit(stacks, known)
    /\ \A v \in Allocas : \A j \in DOMAIN stacks[v] : HomeOf(stacks[v][j]) \in Doms[b]

\* Instruction k of b is past the places at which val could still be replaced.
Settled(b, k, r, val) ==
    /\ val \notin DOMAIN r.replacement
    /\ \A m \in Nat : m > k => val # <<b, m>>

\* The stacks after k instructions: what was there, the phi and the stores.
StacksRenamed(b, k, r) ==
    \A v \in Allocas :
        /\ Len(r.stacks[v]) = Len(stacks[v]) + StoresTo(b, v, k) + PhisOf(b, v)
        /\ \A j \in DOMAIN stacks[v] : j \in DOMAIN r.stacks[v] /\ r.stacks[v][j] = stacks[v][j]
        /\ \A j \in DOMAIN r.stacks[v] : /\ HomeOf(r.stacks[v][j]) \in Doms[b]
                                         /\ Settled(b, k, r, r.stacks[v][j])

\* The loads after k instructions: the replaced ones are read from dominators.
LoadsRenamed(b, k, r) ==
    /\ \A l \in DOMAIN replacement : l \in DOMAIN r.replacement /\ r.replacement[l] = replacement[l]
    /\ \A l \in DOMAIN r.replacement :
          /\ l \in DOMAIN replacement \/ \E m \in 1..k : l = <<b, m>>
          /\ HomeOf(r.replacement[l]) \in Doms[l[1]]
          /\ Settled(b, k, r, r.replacement[l])
    /\ Initialised => \A m \in 1..k : IsLocalAccess(func.code[b][m], "load") =>
                          <<b, m>> \in DOMAIN r.replacement

\* The map after k instructions: the variables stored to are known, and the top
\* of one the entry block stores to is there.
KnownRenamed(b, k, r) ==
    /\ known \cup ToSet(phis[b]) \subseteq r.known
    /\ \A m \in 1..k : IsLocalAccess(func.code[b][m], "store") => func.code[b][m].var \in r.known
    /\ TopsFit(r.stacks, r.known)

\* The state after k instructions of b.
Renamed(b, k, r) ==
    /\ r \in States
    /\ r.failed => SomeUnset
    /\ ~r.failed => StacksRenamed(b, k, r) /\ LoadsRenamed(b, k, r) /\ KnownRenamed(b, k, r)

\* What the proofs below take from Ready.
LEMMA ReadyFacts ==
    ASSUME NEW E, NEW b, Ready(E, b)
    PROVE  /\ Sound(func) /\ b \in Blocks(func) /\ b \in Doms[b] /\ b \notin E
           /\ DOMAIN func.code[b] = 1..Len(func.code[b]) /\ Len(func.code[b]) \in Nat
           /\ DOMAIN replacement \subseteq LocalLoads
           /\ \A l \in DOMAIN replacement : l[1] # b
           /\ \A v \in Allocas : /\ Len(stacks[v]) \in Nat
                                 /\ DOMAIN stacks[v] = 1..Len(stacks[v])
                                 /\ \A j \in DOMAIN stacks[v] : stacks[v][j] \in Values
<1>1. Sound(func) /\ b \in Live /\ b \notin E
  BY DEF Ready
<1>2. b \in Blocks(func) /\ IsTree(Live, Doms)
  BY <1>1, SoundFacts DEF Live, Doms
<1>3. b \in Doms[b]
  BY <1>1, <1>2 DEF IsTree
<1>4. DOMAIN func.code[b] = 1..Len(func.code[b]) /\ Len(func.code[b]) \in Nat
  BY <1>1, <1>2, SoundFacts
<1>5. DOMAIN replacement \subseteq LocalLoads
  BY DEF Ready, Replacements
<1>6. \A l \in DOMAIN replacement : l[1] # b
  BY <1>1 DEF Ready, ValuesFit
<1>7. \A v \in Allocas : stacks[v] \in Seq(Values)
  BY DEF Ready
<1>8. \A v \in Allocas : /\ Len(stacks[v]) \in Nat
                         /\ DOMAIN stacks[v] = 1..Len(stacks[v])
                         /\ \A j \in DOMAIN stacks[v] : stacks[v][j] \in Values
  BY <1>7, LenProperties, ElementOfSeq
<1>9. QED
  BY <1>1, <1>2, <1>3, <1>4, <1>5, <1>6, <1>8

\* What a variable's declaration promises to a load of it: it has been stored
\* to, if declarations initialise.
LEMMA LoadIsKnown ==
    ASSUME NEW E, NEW b, Ready(E, b), Initialised, NEW k \in DOMAIN func.code[b],
           IsLocalAccess(func.code[b][k], "load"), NEW r, KnownRenamed(b, k - 1, r)
    PROVE  func.code[b][k].var \in r.known
<1> DEFINE i == func.code[b][k]
           v == i.var
<1>1. /\ Sound(func) /\ b \in Blocks(func) /\ b \in Live
      /\ DOMAIN func.code[b] = 1..Len(func.code[b]) /\ Len(func.code[b]) \in Nat
  BY ReadyFacts DEF Ready
<1>2. v \in Allocas /\ i.op = "load"
  BY <1>1, LocalAccess
<1>3. v # Global
  BY DEF IsLocalAccess
<1>4. v[1] \in Doms[b] /\ (v[1] = b => v[2] < k)
  BY <1>1, <1>2, <1>3 DEF Sound, StorageFits, Live, Doms
<1>5. /\ v[2] < Len(func.code[v[1]]) /\ func.code[v[1]][v[2] + 1].op = "store"
      /\ func.code[v[1]][v[2] + 1].var = v
  BY <1>2, Zenon DEF Initialised
<1>6. v[1] \in Blocks(func) /\ v[2] \in DOMAIN func.code[v[1]]
  <2>1. PICK c \in Blocks(func) : \E j \in DOMAIN func.code[c] : v = <<c, j>>
    BY <1>2, PlaceIs DEF Allocas
  <2>2. QED
    BY <2>1
<1>7. DOMAIN func.code[v[1]] = 1..Len(func.code[v[1]]) /\ Len(func.code[v[1]]) \in Nat
  BY <1>1, <1>6, SoundFacts
<1>8. v[2] \in Nat /\ v[2] + 1 \in DOMAIN func.code[v[1]] /\ v[2] + 1 \in Nat \ {0}
  <2>1. /\ v[2] \in 1..Len(func.code[v[1]]) /\ v[2] < Len(func.code[v[1]])
        /\ Len(func.code[v[1]]) \in Nat
    BY <1>5, <1>6, <1>7, Zenon
  <2> HIDE DEF v
  <2>2. v[2] \in Nat /\ v[2] + 1 \in 1..Len(func.code[v[1]]) /\ v[2] + 1 \in Nat \ {0}
    BY <2>1
  <2>3. QED
    BY <1>7, <2>2
<1>9. CASE v[1] = b
  <2>1. v[2] + 1 # k
    BY <1>2, <1>5, <1>9
  <2>2. v[2] + 1 \in 1..(k - 1)
    BY <1>1, <1>4, <1>8, <1>9, <2>1, SMTT(30)
  <2>3. IsLocalAccess(func.code[b][v[2] + 1], "store")
    BY <1>1, <1>2, <1>5, <1>8, <1>9, LocalAccess, Zenon
  <2>4. func.code[b][v[2] + 1].var \in r.known
    BY <2>2, <2>3 DEF KnownRenamed
  <2>5. QED
    BY <1>5, <1>9, <2>4
<1>10. CASE v[1] # b
  <2>1. v[1] \in E
    BY <1>4, <1>10 DEF Ready
  <2>2. v[1] \in StoringBlocks(v)
    BY <1>5, <1>6, <1>8, Zenon DEF StoringBlocks
  <2>3. v \in known
    BY <1>2, <2>1, <2>2 DEF Ready, ValuesFit
  <2>4. QED
    BY <2>3 DEF KnownRenamed
<1>11. QED
  BY <1>9, <1>10

\* Nothing changes at instruction k, which is no store to a variable and no
\* load that has to be replaced.
LEMMA NothingRenamed ==
    ASSUME NEW E, NEW b, Ready(E, b), NEW k \in DOMAIN func.code[b], NEW r \in States,
           ~r.failed, Renamed(b, k - 1, r),
           ~IsLocalAccess(func.code[b][k], "store"),
           ~(Initialised /\ IsLocalAccess(func.code[b][k], "load"))
    PROVE  Renamed(b, k, r)
<1>1. /\ Sound(func) /\ b \in Blocks(func)
      /\ DOMAIN func.code[b] = 1..Len(func.code[b]) /\ Len(func.code[b]) \in Nat
  BY ReadyFacts
<1>2. StacksRenamed(b, k - 1, r) /\ LoadsRenamed(b, k - 1, r) /\ KnownRenamed(b, k - 1, r)
  BY DEF Renamed
<1>3. \A val : Settled(b, k - 1, r, val) => Settled(b, k, r, val)
  BY <1>1 DEF Settled
<1>4. \A m \in 1..k : m \in 1..(k - 1) \/ m = k
  BY <1>1
<1>5. \A m \in 1..(k - 1) : m \in 1..k
  BY <1>1
<1>6. \A v \in Allocas : StoresTo(b, v, k) = StoresTo(b, v, k - 1)
  <2> SUFFICES ASSUME NEW v \in Allocas
               PROVE  StoresTo(b, v, k) = StoresTo(b, v, k - 1)
    OBVIOUS
  <2>1. ~(func.code[b][k].op = "store" /\ func.code[b][k].var = v)
    BY <1>1, LocalAccess
  <2>2. StoresTo(b, v, k) = StoresTo(b, v, k - 1)
             + (IF func.code[b][k].op = "store" /\ func.code[b][k].var = v THEN 1 ELSE 0)
    BY <1>1, StoresCount
  <2>3. k - 1 \in Nat
    BY <1>1
  <2>4. StoresTo(b, v, k - 1) \in Nat
    <3>1. \A n \in Nat : StoresTo(b, v, n) \in Nat
      BY <1>1, StoresCount, Zenon
    <3>2. QED
      BY <2>3, <3>1
  <2>5. QED
    BY <2>1, <2>2, <2>4
<1>7. StacksRenamed(b, k, r)
  BY <1>2, <1>3, <1>6 DEF StacksRenamed
<1>8. LoadsRenamed(b, k, r)
  BY <1>2, <1>3, <1>4, <1>5 DEF LoadsRenamed
<1>9. KnownRenamed(b, k, r)
  BY <1>2, <1>4 DEF KnownRenamed
<1>10. QED
  BY <1>7, <1>8, <1>9 DEF Renamed

\* The load at k of b reads v, and val, on top of v's stack, replaces it.
TakesTop(q, r, b, k, v, val) ==
    /\ v = func.code[b][k].var
    /\ Len(r.stacks[v]) \in DOMAIN r.stacks[v] /\ val = r.stacks[v][Len(r.stacks[v])]
    /\ IsReplaced(q, r, <<b, k>>, val)

\* The load at k takes the value on top.
LEMMA LoadRenamed ==
    ASSUME NEW E, NEW b, Ready(E, b), NEW k \in DOMAIN func.code[b], NEW r \in States,
           ~r.failed, Renamed(b, k - 1, r), IsLocalAccess(func.code[b][k], "load"),
           NEW q \in States, NEW v, NEW val, TakesTop(q, r, b, k, v, val)
    PROVE  Renamed(b, k, q)
<1> DEFINE p == <<b, k>>
<1>1. /\ Sound(func) /\ b \in Blocks(func) /\ \A l \in DOMAIN replacement : l[1] # b
      /\ DOMAIN func.code[b] = 1..Len(func.code[b]) /\ Len(func.code[b]) \in Nat
  BY ReadyFacts
<1>2. StacksRenamed(b, k - 1, r) /\ LoadsRenamed(b, k - 1, r) /\ KnownRenamed(b, k - 1, r)
  BY DEF Renamed
<1>3. v \in Allocas /\ func.code[b][k].op = "load"
  BY <1>1, LocalAccess, Zenon DEF TakesTop
<1>4. HomeOf(val) \in Doms[b] /\ Settled(b, k - 1, r, val)
  BY <1>2, <1>3, Zenon DEF StacksRenamed, TakesTop
<1>5. p[1] = b
  OBVIOUS
<1> HIDE DEF p
<1>6. /\ q.known = r.known /\ q.stacks = r.stacks /\ q.failed = r.failed
      /\ DOMAIN q.replacement = DOMAIN r.replacement \cup {p}
      /\ q.replacement[p] = val
      /\ \A l \in DOMAIN r.replacement : l # p => q.replacement[l] = r.replacement[l]
  BY DEF TakesTop, IsReplaced, p
<1>7. /\ k \in Nat /\ k > k - 1 /\ k - 1 \in Nat
      /\ \A m \in Nat : m > k => m > k - 1
      /\ \A m \in 1..k : m \in 1..(k - 1) \/ m = k
      /\ (\A m \in 1..(k - 1) : m \in 1..k) /\ k \in 1..k
  <2>1. k \in 1..Len(func.code[b])
    BY <1>1
  <2>2. QED
    BY <1>1, <2>1, EarlierPlaces, Zenon
<1>8. ASSUME NEW u, Settled(b, k - 1, r, u)
      PROVE  Settled(b, k, q, u)
  <2>1. u # p /\ u \notin DOMAIN r.replacement /\ \A m \in Nat : m > k => u # <<b, m>>
    BY <1>7, <1>8 DEF Settled, p
  <2>2. QED
    BY <1>6, <2>1 DEF Settled
<1>9. \A m \in 1..k : m \in 1..(k - 1) \/ m = k
  BY <1>7
<1>10. (\A m \in 1..(k - 1) : m \in 1..k) /\ k \in 1..k
  BY <1>7
<1>11. \A u \in Allocas : StoresTo(b, u, k) = StoresTo(b, u, k - 1)
  <2> SUFFICES ASSUME NEW u \in Allocas
               PROVE  StoresTo(b, u, k) = StoresTo(b, u, k - 1)
    OBVIOUS
  <2>1. StoresTo(b, u, k) = StoresTo(b, u, k - 1)
             + (IF func.code[b][k].op = "store" /\ func.code[b][k].var = u THEN 1 ELSE 0)
    BY <1>1, StoresCount
  <2>2. StoresTo(b, u, k - 1) \in Nat
    BY <1>1, <1>7, StoresCount, Zenon
  <2>3. StoresTo(b, u, k) = StoresTo(b, u, k - 1) + 0
    BY <1>3, <2>1
  <2>4. QED
    BY <2>2, <2>3, OneMore, Zenon
<1>12. StacksRenamed(b, k, q)
  BY <1>2, <1>6, <1>8, <1>11 DEF StacksRenamed
<1>13. \A l \in DOMAIN replacement : l # p /\ l \in DOMAIN r.replacement
  BY <1>1, <1>2, <1>5 DEF LoadsRenamed
<1>14. \A l \in DOMAIN replacement : l \in DOMAIN q.replacement /\ q.replacement[l] = replacement[l]
  BY <1>2, <1>6, <1>13 DEF LoadsRenamed
<1>15. ASSUME NEW l \in DOMAIN q.replacement
       PROVE  /\ l \in DOMAIN replacement \/ \E m \in 1..k : l = <<b, m>>
              /\ HomeOf(q.replacement[l]) \in Doms[l[1]]
              /\ Settled(b, k, q, q.replacement[l])
  <2>1. CASE l = p
    <3>1. \E m \in 1..k : l = <<b, m>>
      BY <1>10, <2>1 DEF p
    <3>2. q.replacement[l] = val /\ l[1] = b
      BY <1>5, <1>6, <2>1
    <3>3. QED
      BY <1>4, <1>8, <3>1, <3>2
  <2>2. CASE l # p
    <3>1. l \in DOMAIN r.replacement /\ q.replacement[l] = r.replacement[l]
      BY <1>6, <2>2
    <3>2. /\ l \in DOMAIN replacement \/ \E m \in 1..(k - 1) : l = <<b, m>>
          /\ HomeOf(r.replacement[l]) \in Doms[l[1]]
          /\ Settled(b, k - 1, r, r.replacement[l])
      BY <1>2, <3>1 DEF LoadsRenamed
    <3>3. QED
      BY <1>8, <1>10, <3>1, <3>2
  <2>3. QED
    BY <2>1, <2>2
<1>16. ASSUME Initialised, NEW m \in 1..k, IsLocalAccess(func.code[b][m], "load")
       PROVE  <<b, m>> \in DOMAIN q.replacement
  <2>1. CASE m = k
    BY <1>6, <2>1 DEF p
  <2>2. CASE m # k
    <3>1. <<b, m>> \in DOMAIN r.replacement
      BY <1>2, <1>9, <1>16, <2>2 DEF LoadsRenamed
    <3>2. QED
      BY <1>6, <3>1
  <2>3. QED
    BY <2>1, <2>2
<1>17. LoadsRenamed(b, k, q)
  BY <1>14, <1>15, <1>16 DEF LoadsRenamed
<1>18. ~IsLocalAccess(func.code[b][k], "store")
  BY <1>3 DEF IsLocalAccess
<1>19. KnownRenamed(b, k, q)
  BY <1>2, <1>6, <1>9, <1>18 DEF KnownRenamed
<1>20. QED
  BY <1>6, <1>12, <1>17, <1>19 DEF Renamed

\* The store at k pushes what it stores.
LEMMA StoreRenamed ==
    ASSUME NEW E, NEW b, Ready(E, b), NEW k \in DOMAIN func.code[b], NEW r \in States,
           ~r.failed, Renamed(b, k - 1, r), IsLocalAccess(func.code[b][k], "store"),
           NEW q \in States, NEW v, v = func.code[b][k].var,
           IsPushed(q, r, v, StoredAt(r, <<b, k>>))
    PROVE  Renamed(b, k, q)
<1> DEFINE p == <<b, k>>
           val == StoredAt(r, p)
<1>1. /\ Sound(func) /\ b \in Blocks(func) /\ \A l \in DOMAIN replacement : l[1] # b
      /\ DOMAIN func.code[b] = 1..Len(func.code[b]) /\ Len(func.code[b]) \in Nat
      /\ b \in Doms[b]
  BY ReadyFacts
<1>2. StacksRenamed(b, k - 1, r) /\ LoadsRenamed(b, k - 1, r) /\ KnownRenamed(b, k - 1, r)
  BY DEF Renamed
<1>3. v \in Allocas /\ func.code[b][k].op = "store" /\ InstrAt(p) = func.code[b][k]
  BY <1>1, LocalAccess
<1>4. /\ k \in Nat /\ k > k - 1 /\ \A m \in Nat : m > k => m > k - 1
      /\ \A m \in Nat : m > k => m # k
      /\ \A m \in 1..(k - 1) : m # k /\ m \in Nat /\ \A j \in Nat : j > k => j # m
      /\ \A m \in 1..k : m \in 1..(k - 1) \/ m = k
      /\ (\A m \in 1..(k - 1) : m \in 1..k) /\ k \in 1..k
  BY <1>1
\* The value is of a dominator of b, and nothing replaces it any more.
<1>5. HomeOf(val) \in Doms[b] /\ Settled(b, k, r, val)
  <2>1. CASE IsInstruction(func.code[b][k].args[1])
    <3>1. PICK m \in 1..(k - 1) : func.code[b][k].args[1] = <<b, m>>
      BY <1>1, <1>3, <2>1, StoredIs
    <3>2. val = Resolve(r, <<b, m>>)
      BY <1>3, <2>1, <3>1 DEF StoredAt
    <3>3. CASE <<b, m>> \in DOMAIN r.replacement
      <4>1. val = r.replacement[<<b, m>>]
        BY <3>2, <3>3 DEF Resolve
      <4>2. HomeOf(val) \in Doms[<<b, m>>[1]] /\ Settled(b, k - 1, r, val)
        BY <1>2, <3>3, <4>1 DEF LoadsRenamed
      <4>3. QED
        BY <1>4, <4>2 DEF Settled
    <3>4. CASE <<b, m>> \notin DOMAIN r.replacement
      <4>1. val = <<b, m>>
        BY <3>2, <3>4 DEF Resolve
      <4>2. \A j \in Nat : j > k => val # <<b, j>>
        BY <1>4, <3>1, <4>1
      <4>3. HomeOf(val) = b
        BY <4>1 DEF HomeOf
      <4>4. QED
        BY <1>1, <3>4, <4>1, <4>2, <4>3 DEF Settled
    <3>5. QED
      BY <3>3, <3>4
  <2>2. CASE ~IsInstruction(func.code[b][k].args[1])
    <3>1. val = <<b, k>>
      BY <1>3, <2>2 DEF StoredAt
    <3>2. <<b, k>> \notin DOMAIN r.replacement
      <4> SUFFICES ASSUME <<b, k>> \in DOMAIN r.replacement
                   PROVE  FALSE
        OBVIOUS
      <4>1. <<b, k>> \in DOMAIN replacement \/ \E m \in 1..(k - 1) : <<b, k>> = <<b, m>>
        BY <1>2 DEF LoadsRenamed
      <4>2. <<b, k>>[1] = b
        OBVIOUS
      <4>3. QED
        BY <1>1, <1>4, <4>1, <4>2
    <3>3. \A j \in Nat : j > k => val # <<b, j>>
      BY <1>4, <3>1
    <3>4. HomeOf(val) = b
      BY <3>1 DEF HomeOf
    <3>5. QED
      BY <1>1, <3>1, <3>2, <3>3, <3>4 DEF Settled
  <2>3. QED
    BY <2>1, <2>2
<1> HIDE DEF val
<1>6. /\ q.known = r.known \cup {v}
      /\ q.replacement = r.replacement /\ q.failed = r.failed
      /\ EndsIn(q.stacks[v], r.stacks[v], val)
      /\ \A u \in Allocas : u # v => q.stacks[u] = r.stacks[u]
  BY DEF IsPushed, val, p
<1>7. ASSUME NEW u, Settled(b, k - 1, r, u)
      PROVE  Settled(b, k, q, u)
  BY <1>4, <1>6, <1>7 DEF Settled
<1>8. Settled(b, k, q, val)
  BY <1>5, <1>6 DEF Settled
<1>9. \A u \in Allocas : /\ StoresTo(b, u, k) = StoresTo(b, u, k - 1) + (IF u = v THEN 1 ELSE 0)
                         /\ StoresTo(b, u, k - 1) \in Nat
                         /\ Len(stacks[u]) \in Nat
                         /\ PhisOf(b, u) \in Nat
  <2> SUFFICES ASSUME NEW u \in Allocas
               PROVE  /\ StoresTo(b, u, k) = StoresTo(b, u, k - 1) + (IF u = v THEN 1 ELSE 0)
                      /\ StoresTo(b, u, k - 1) \in Nat
                      /\ Len(stacks[u]) \in Nat
                      /\ PhisOf(b, u) \in Nat
    OBVIOUS
  <2>1. StoresTo(b, u, k) = StoresTo(b, u, k - 1)
             + (IF func.code[b][k].op = "store" /\ func.code[b][k].var = u THEN 1 ELSE 0)
    BY <1>1, StoresCount
  <2>2. k - 1 \in Nat
    BY <1>1
  <2>3. StoresTo(b, u, k - 1) \in Nat
    <3>1. \A n \in Nat : StoresTo(b, u, n) \in Nat
      BY <1>1, StoresCount, Zenon
    <3>2. QED
      BY <2>2, <3>1
  <2>4. Len(stacks[u]) \in Nat
    BY ReadyFacts
  <2>5. PhisOf(b, u) \in Nat
    BY <1>1, PhisCount DEF Ready
  <2>6. QED
    BY <1>3, <2>1, <2>3, <2>4, <2>5
<1>10. ASSUME NEW u \in Allocas
       PROVE  /\ Len(q.stacks[u]) = Len(stacks[u]) + StoresTo(b, u, k) + PhisOf(b, u)
              /\ \A j \in DOMAIN stacks[u] :
                    j \in DOMAIN q.stacks[u] /\ q.stacks[u][j] = stacks[u][j]
              /\ \A j \in DOMAIN q.stacks[u] : /\ HomeOf(q.stacks[u][j]) \in Doms[b]
                                               /\ Settled(b, k, q, q.stacks[u][j])
  <2>1. /\ Len(r.stacks[u]) = Len(stacks[u]) + StoresTo(b, u, k - 1) + PhisOf(b, u)
        /\ \A j \in DOMAIN stacks[u] :
              j \in DOMAIN r.stacks[u] /\ r.stacks[u][j] = stacks[u][j]
        /\ \A j \in DOMAIN r.stacks[u] : /\ HomeOf(r.stacks[u][j]) \in Doms[b]
                                         /\ Settled(b, k - 1, r, r.stacks[u][j])
    BY <1>2 DEF StacksRenamed
  <2>2. CASE u = v
    <3>1. Len(q.stacks[u]) = Len(r.stacks[u]) + 1
      BY <1>6, <2>2, Zenon DEF EndsIn
    <3>2. Len(q.stacks[u]) = Len(stacks[u]) + StoresTo(b, u, k) + PhisOf(b, u)
      <4>1. /\ StoresTo(b, u, k) = StoresTo(b, u, k - 1) + 1
            /\ StoresTo(b, u, k - 1) \in Nat /\ Len(stacks[u]) \in Nat /\ PhisOf(b, u) \in Nat
        BY <1>9, <2>2
      <4>2. Len(r.stacks[u]) = Len(stacks[u]) + StoresTo(b, u, k - 1) + PhisOf(b, u)
        BY <2>1
      <4>3. \A a, n, c \in Nat : (a + n + c) + 1 = a + (n + 1) + c
        BY OneMore
      <4>4. (Len(stacks[u]) + StoresTo(b, u, k - 1) + PhisOf(b, u)) + 1
               = Len(stacks[u]) + (StoresTo(b, u, k - 1) + 1) + PhisOf(b, u)
        BY <4>1, <4>3, Zenon
      <4>5. QED
        BY <3>1, <4>1, <4>2, <4>4, Zenon
    <3>3. \A j \in DOMAIN r.stacks[u] : j \in DOMAIN q.stacks[u] /\ q.stacks[u][j] = r.stacks[u][j]
      BY <1>6, <2>2, Zenon DEF EndsIn
    <3>4. \A j \in DOMAIN q.stacks[u] : j \in DOMAIN r.stacks[u] \/ q.stacks[u][j] = val
      BY <1>6, <2>2, Zenon DEF EndsIn
    <3>5. QED
      BY <1>5, <1>7, <1>8, <2>1, <3>2, <3>3, <3>4
  <2>3. CASE u # v
    <3>1. q.stacks[u] = r.stacks[u] /\ StoresTo(b, u, k) = StoresTo(b, u, k - 1)
      <4>1. StoresTo(b, u, k) = StoresTo(b, u, k - 1) + 0 /\ StoresTo(b, u, k - 1) \in Nat
        BY <1>9, <2>3
      <4>2. QED
        BY <1>6, <2>3, <4>1, OneMore, Zenon
    <3>2. QED
      BY <1>7, <2>1, <3>1
  <2>4. QED
    BY <2>2, <2>3
<1>11. StacksRenamed(b, k, q)
  BY <1>10 DEF StacksRenamed
<1>12. ~IsLocalAccess(func.code[b][k], "load")
  BY <1>3 DEF IsLocalAccess
<1>13. LoadsRenamed(b, k, q)
  <2>1. \A l \in DOMAIN q.replacement : l \in DOMAIN replacement \/ \E m \in 1..k : l = <<b, m>>
    BY <1>2, <1>4, <1>6 DEF LoadsRenamed
  <2>2. \A l \in DOMAIN q.replacement : /\ HomeOf(q.replacement[l]) \in Doms[l[1]]
                                        /\ Settled(b, k, q, q.replacement[l])
    BY <1>2, <1>6, <1>7 DEF LoadsRenamed
  <2>3. QED
    BY <1>2, <1>4, <1>6, <1>12, <2>1, <2>2 DEF LoadsRenamed
<1>14. KnownRenamed(b, k, q)
  <2>1. q.stacks[v] # << >>
    BY <1>6, Zenon DEF EndsIn
  <2>2. TopsFit(q.stacks, q.known)
    <3>1. r.known \subseteq Allocas
      BY StateIs
    <3>2. QED
      BY <1>2, <1>6, <2>1, <3>1 DEF KnownRenamed, TopsFit
  <2>3. QED
    BY <1>2, <1>4, <1>6, <2>2, Zenon DEF KnownRenamed
<1>15. QED
  BY <1>6, <1>11, <1>13, <1>14 DEF Renamed

\* One instruction.
LEMMA InstrRenamed ==
    ASSUME NEW E, NEW b, Ready(E, b), NEW k \in DOMAIN func.code[b], NEW r,
           Renamed(b, k - 1, r)
    PROVE  Renamed(b, k, RenameInstr(r, <<b, k>>))
<1> DEFINE i == func.code[b][k]
           q == RenameInstr(r, <<b, k>>)
<1>1. Sound(func) /\ b \in Blocks(func) /\ r \in States
  BY ReadyFacts DEF Renamed
<1>2. q \in States /\ GoesTo(r, b, k, i, q)
  <2> HIDE DEF i, q
  <2>1. i = func.code[b][k] /\ q = RenameInstr(r, <<b, k>>)
    BY DEF i, q
  <2>2. QED
    BY <1>1, <2>1, RenameInstrCases
<1> HIDE DEF q
<1>3. CASE r.failed
  <2>1. q = r /\ SomeUnset
    BY <1>2, <1>3 DEF Renamed, GoesTo
  <2>2. Renamed(b, k, q)
    BY <1>1, <1>3, <2>1 DEF Renamed
  <2>3. QED
    BY <2>2 DEF q
<1>4. CASE ~r.failed /\ IsLocalAccess(i, "load")
  <2>1. KnownRenamed(b, k - 1, r)
    BY <1>4 DEF Renamed
  <2>2. CASE i.var \notin r.known /\ q = r
    <3>1. ~Initialised
      BY <1>4, <2>1, <2>2, LoadIsKnown
    <3>2. ~IsLocalAccess(i, "store")
      BY <1>4 DEF IsLocalAccess
    <3>3. Renamed(b, k, r)
      BY <1>1, <1>4, <3>1, <3>2, NothingRenamed
    <3>4. QED
      BY <2>2, <3>3 DEF q
  <2>3. CASE i.var \in r.known /\ r.stacks[i.var] = << >> /\ q.failed = TRUE
    <3>1. Entry \notin StoringBlocks(i.var) /\ i.var \in Allocas
      BY <1>1, <2>1, <2>3, StateIs DEF KnownRenamed, TopsFit
    <3>2. SomeUnset
      BY <3>1 DEF SomeUnset
    <3>3. Renamed(b, k, q)
      BY <1>2, <2>3, <3>2 DEF Renamed
    <3>4. QED
      BY <3>3 DEF q
  <2>4. CASE /\ i.var \in r.known /\ Len(r.stacks[i.var]) \in DOMAIN r.stacks[i.var]
             /\ IsReplaced(q, r, <<b, k>>, r.stacks[i.var][Len(r.stacks[i.var])])
    <3>1. TakesTop(q, r, b, k, i.var, r.stacks[i.var][Len(r.stacks[i.var])])
      BY <2>4, Zenon DEF TakesTop
    <3>2. Renamed(b, k, q)
      BY <1>1, <1>2, <1>4, <3>1, LoadRenamed, Zenon
    <3>3. QED
      BY <3>2 DEF q
  <2>5. QED
    BY <1>2, <1>4, <2>2, <2>3, <2>4 DEF GoesTo
<1>5. CASE ~r.failed /\ IsLocalAccess(i, "store")
  <2>1. Renamed(b, k, q)
    <3>1. IsPushed(q, r, i.var, StoredAt(r, <<b, k>>))
      BY <1>2, <1>5 DEF GoesTo
    <3>2. QED
      BY <1>1, <1>2, <1>5, <3>1, StoreRenamed
  <2>2. QED
    BY <2>1 DEF q
<1>6. CASE ~r.failed /\ ~IsLocalAccess(i, "load") /\ ~IsLocalAccess(i, "store")
  <2>1. Renamed(b, k, r) /\ q = r
    BY <1>1, <1>2, <1>6, NothingRenamed DEF GoesTo
  <2>2. QED
    BY <2>1 DEF q
<1>7. QED
  BY <1>3, <1>4, <1>5, <1>6

\* The phis of the block have been pushed.
LEMMA PhisRenamed ==
    ASSUME NEW E, NEW b, Ready(E, b)
    PROVE  Renamed(b, 0, PushPhis(b))
<1> DEFINE own == ToSet(phis[b])
           r == PushPhis(b)
<1>1. /\ Sound(func) /\ b \in Blocks(func) /\ b \in Doms[b] /\ b \notin E
      /\ DOMAIN replacement \subseteq LocalLoads
      /\ \A l \in DOMAIN replacement : l[1] # b
      /\ \A v \in Allocas : /\ Len(stacks[v]) \in Nat
                            /\ DOMAIN stacks[v] = 1..Len(stacks[v])
                            /\ \A j \in DOMAIN stacks[v] : stacks[v][j] \in Values
  BY ReadyFacts
<1>2. /\ PhisFit /\ stacks \in [Allocas -> Seq(Values)] /\ known \in SUBSET Allocas
      /\ replacement \in Replacements
      /\ ValuesFit(E, stacks, known, replacement) /\ TopsFit(stacks, known)
      /\ \A v \in Allocas : \A j \in DOMAIN stacks[v] : HomeOf(stacks[v][j]) \in Doms[b]
  BY DEF Ready
<1>3. own \subseteq Allocas
  <2>1. phis[b] \in Seq(Allocas)
    BY <1>1, <1>2 DEF PhisFit
  <2>2. QED
    BY <2>1, ElementOfSeq DEF ToSet
<1>4. \A v \in own : PhiOf(b, v) \in Values
  BY <1>1 DEF PhiPlaces, Values
<1>5. /\ r.stacks = [v \in Allocas |->
                        IF v \in own THEN Append(stacks[v], PhiOf(b, v)) ELSE stacks[v]]
      /\ r.known = known \cup own /\ r.replacement = replacement /\ r.failed = FALSE
      /\ r = [stacks |-> r.stacks, known |-> r.known, replacement |-> r.replacement,
              failed |-> r.failed]
  <2>1. DOMAIN stacks = Allocas
    BY <1>2
  <2>2. QED
    BY <2>1 DEF PushPhis
<1> HIDE DEF r, own
<1>6. \A v \in Allocas : v \notin own => r.stacks[v] = stacks[v]
  BY <1>5
<1>7. \A v \in own : r.stacks[v] \in Seq(Values) /\ EndsIn(r.stacks[v], stacks[v], PhiOf(b, v))
  <2> SUFFICES ASSUME NEW v \in own
               PROVE  r.stacks[v] \in Seq(Values) /\ EndsIn(r.stacks[v], stacks[v], PhiOf(b, v))
    OBVIOUS
  <2>1. r.stacks[v] = Append(stacks[v], PhiOf(b, v)) /\ v \in Allocas
    BY <1>3, <1>5
  <2>2. stacks[v] \in Seq(Values) /\ PhiOf(b, v) \in Values
    BY <1>2, <1>4, <2>1
  <2>3. Append(stacks[v], PhiOf(b, v)) \in Seq(Values)
        /\ EndsIn(Append(stacks[v], PhiOf(b, v)), stacks[v], PhiOf(b, v))
    BY <2>2, AppendEndsIn
  <2>4. QED
    BY <2>1, <2>3
<1>8. r \in States
  <2>1. \A v \in Allocas : r.stacks[v] \in Seq(Values)
    BY <1>2, <1>6, <1>7
  <2>2. r.stacks \in [Allocas -> Seq(Values)]
    BY <1>5, <2>1
  <2>3. r.known \in SUBSET Allocas /\ r.replacement \in Replacements /\ r.failed \in BOOLEAN
    BY <1>2, <1>3, <1>5
  <2>4. QED
    BY <1>5, <2>2, <2>3 DEF States
<1>9. \A val : Final(E, replacement, val) => Settled(b, 0, r, val)
  <2> SUFFICES ASSUME NEW val, Final(E, replacement, val)
               PROVE  Settled(b, 0, r, val)
    OBVIOUS
  <2>1. val \notin DOMAIN replacement /\ val[1] \in E
    BY DEF Final, HomeOf
  <2>2. \A m \in Nat : val # <<b, m>>
    <3> SUFFICES ASSUME NEW m \in Nat, val = <<b, m>>
                 PROVE  FALSE
      OBVIOUS
    <3>1. val[1] = b
      OBVIOUS
    <3>2. QED
      BY <1>1, <2>1, <3>1
  <2>3. QED
    BY <1>5, <2>1, <2>2 DEF Settled
<1>10. \A v \in own : Settled(b, 0, r, PhiOf(b, v)) /\ HomeOf(PhiOf(b, v)) = b
  <2> SUFFICES ASSUME NEW v \in own
               PROVE  Settled(b, 0, r, PhiOf(b, v)) /\ HomeOf(PhiOf(b, v)) = b
    OBVIOUS
  <2>1. PhiOf(b, v) \notin DOMAIN replacement
    <3> SUFFICES ASSUME PhiOf(b, v) \in DOMAIN replacement
                 PROVE  FALSE
      OBVIOUS
    <3>1. PhiOf(b, v) \in PlacesOf(func)
      BY <1>1 DEF LocalLoads
    <3>2. \E c \in Blocks(func) : \E k \in DOMAIN func.code[c] : PhiOf(b, v) = <<c, k>>
      BY <3>1, PlaceIs
    <3>3. QED
      BY <3>2, TripleNoPair DEF PhiOf
  <2>2. \A m : PhiOf(b, v) # <<b, m>>
    BY TripleNoPair DEF PhiOf
  <2>3. HomeOf(PhiOf(b, v)) = b
    BY DEF PhiOf, HomeOf
  <2>4. QED
    BY <1>5, <2>1, <2>2, <2>3 DEF Settled
<1>11. StacksRenamed(b, 0, r)
  <2> SUFFICES ASSUME NEW v \in Allocas
               PROVE  /\ Len(r.stacks[v]) = Len(stacks[v]) + StoresTo(b, v, 0) + PhisOf(b, v)
                      /\ \A j \in DOMAIN stacks[v] :
                            j \in DOMAIN r.stacks[v] /\ r.stacks[v][j] = stacks[v][j]
                      /\ \A j \in DOMAIN r.stacks[v] : /\ HomeOf(r.stacks[v][j]) \in Doms[b]
                                                       /\ Settled(b, 0, r, r.stacks[v][j])
    BY DEF StacksRenamed
  <2>1. StoresTo(b, v, 0) = 0
    BY <1>1, StoresCount
  <2>2. PhisOf(b, v) = IF v \in own THEN 1 ELSE 0
    BY <1>1, <1>2, PhisCount DEF own
  <2>3. \A j \in DOMAIN stacks[v] : /\ HomeOf(stacks[v][j]) \in Doms[b]
                                    /\ Settled(b, 0, r, stacks[v][j])
    BY <1>2, <1>9 DEF ValuesFit
  <2>4. CASE v \in own
    <3>1. EndsIn(r.stacks[v], stacks[v], PhiOf(b, v))
      BY <1>7, <2>4
    <3>2. Len(r.stacks[v]) = Len(stacks[v]) + 1 /\ Len(stacks[v]) \in Nat
      BY <1>1, <3>1 DEF EndsIn
    <3>3. Len(r.stacks[v]) = Len(stacks[v]) + StoresTo(b, v, 0) + PhisOf(b, v)
      BY <2>1, <2>2, <2>4, <3>2
    <3>4. \A j \in DOMAIN stacks[v] : j \in DOMAIN r.stacks[v] /\ r.stacks[v][j] = stacks[v][j]
      BY <3>1 DEF EndsIn
    <3>5. \A j \in DOMAIN r.stacks[v] : j \in DOMAIN stacks[v] \/ r.stacks[v][j] = PhiOf(b, v)
      BY <3>1 DEF EndsIn
    <3>6. QED
      BY <1>1, <1>10, <2>3, <2>4, <3>3, <3>4, <3>5
  <2>5. CASE v \notin own
    <3>1. r.stacks[v] = stacks[v] /\ Len(stacks[v]) \in Nat
      BY <1>1, <1>6, <2>5
    <3>2. Len(r.stacks[v]) = Len(stacks[v]) + StoresTo(b, v, 0) + PhisOf(b, v)
      BY <2>1, <2>2, <2>5, <3>1
    <3>3. QED
      BY <2>3, <3>1, <3>2
  <2>6. QED
    BY <2>4, <2>5
<1>12. LoadsRenamed(b, 0, r)
  BY <1>2, <1>5, <1>9 DEF LoadsRenamed, ValuesFit
<1>13. KnownRenamed(b, 0, r)
  <2>1. TopsFit(r.stacks, r.known)
    <3> SUFFICES ASSUME NEW v \in r.known, Entry \in StoringBlocks(v)
                 PROVE  r.stacks[v] # << >>
      BY DEF TopsFit
    <3>1. CASE v \in own
      BY <1>7, <3>1 DEF EndsIn
    <3>2. CASE v \notin own
      BY <1>2, <1>5, <1>6, <3>2 DEF TopsFit
    <3>3. QED
      BY <3>1, <3>2
  <2>2. QED
    BY <1>5, <2>1 DEF KnownRenamed, own
<1>14. QED
  BY <1>5, <1>8, <1>11, <1>12, <1>13 DEF Renamed, r

\* The states of re_name on b.
Renames(R, b) ==
    /\ R[0] = PushPhis(b)
    /\ \A k \in 1..Len(func.code[b]) : R[k] = RenameInstr(R[k - 1], <<b, k>>)
    /\ R[Len(func.code[b])] = RenameBlock(b)

\* RenameBlock goes through such states.
LEMMA RenameRuns ==
    ASSUME NEW E, NEW b, Ready(E, b)
    PROVE  \E R : Renames(R, b)
<1> DEFINE N == Len(func.code[b])
           first == PushPhis(b)
           step == [x \in (1..N) \X States |-> RenameInstr(x[2], <<b, x[1]>>)]
           R == CHOOSE F : F = [k \in 0..N |->
                    IF k = 0 THEN PushPhis(b) ELSE RenameInstr(F[k - 1], <<b, k>>)]
<1>1. RenameBlock(b) = R[N]
  BY Zenon DEF RenameBlock
<1>2. Sound(func) /\ b \in Blocks(func) /\ DOMAIN func.code[b] = 1..N /\ N \in Nat
  BY ReadyFacts
<1>3. Renamed(b, 0, first)
  BY PhisRenamed
<1>4. \A k \in 1..N, r \in States : RenameInstr(r, <<b, k>>) \in States
  BY <1>2, RenameInstrCases, Zenon
<1>5. step \in [(1..N) \X States -> States]
  <2> HIDE DEF N
  <2>1. QED
    BY <1>4
<1> HIDE DEF N
<1>6. PICK F : Runs(F, N, first, step) /\ \A k \in 0..N : F[k] \in States
  <2>1. first \in States
    BY <1>3 DEF Renamed
  <2> HIDE DEF first, step
  <2>2. QED
    BY <1>2, <1>5, <2>1, RunExists
<1>7. F = [k \in 0..N |-> IF k = 0 THEN first ELSE RenameInstr(F[k - 1], <<b, k>>)]
  <2>1. \A k \in 1..N : step[<<k, F[k - 1]>>] = RenameInstr(F[k - 1], <<b, k>>)
    <3> SUFFICES ASSUME NEW k \in 1..N
                 PROVE  step[<<k, F[k - 1]>>] = RenameInstr(F[k - 1], <<b, k>>)
      OBVIOUS
    <3>1. F[k - 1] \in States
      BY <1>2, <1>6
    <3>2. <<k, F[k - 1]>> \in (1..N) \X States
      BY <3>1
    <3>3. step[<<k, F[k - 1]>>] = RenameInstr(<<k, F[k - 1]>>[2], <<b, <<k, F[k - 1]>>[1]>>)
      BY <3>2, Zenon
    <3>4. <<k, F[k - 1]>>[2] = F[k - 1] /\ <<k, F[k - 1]>>[1] = k
      OBVIOUS
    <3> HIDE DEF step
    <3>5. QED
      BY <3>3, <3>4, Zenon
  <2>2. F = [k \in 0..N |-> IF k = 0 THEN first ELSE step[<<k, F[k - 1]>>]]
    BY <1>6 DEF Runs
  <2> HIDE DEF step, first
  <2>3. DOMAIN F = 0..N /\ F = [k \in 0..N |-> F[k]]
    BY <2>2, Zenon
  <2>4. \A k \in 0..N : F[k] = IF k = 0 THEN first ELSE RenameInstr(F[k - 1], <<b, k>>)
    <3> SUFFICES ASSUME NEW k \in 0..N
                 PROVE  F[k] = IF k = 0 THEN first ELSE RenameInstr(F[k - 1], <<b, k>>)
      OBVIOUS
    <3>1. F[k] = IF k = 0 THEN first ELSE step[<<k, F[k - 1]>>]
      BY <2>2, Zenon
    <3>2. k = 0 \/ k \in 1..N
      BY <1>2
    <3>3. QED
      BY <2>1, <3>1, <3>2, Zenon
  <2>5. QED
    BY <2>3, <2>4, Zenon
<1>8. R = [k \in 0..N |-> IF k = 0 THEN first ELSE RenameInstr(R[k - 1], <<b, k>>)]
  BY <1>7, Zenon
<1> HIDE DEF R, first
<1>9. \A k \in 0..N : R[k] = IF k = 0 THEN first ELSE RenameInstr(R[k - 1], <<b, k>>)
  BY <1>8, Zenon
<1>10. 0 \in 0..N /\ \A k \in 1..N : k \in 0..N /\ k # 0
  BY <1>2
<1>11. R[0] = first /\ \A k \in 1..N : R[k] = RenameInstr(R[k - 1], <<b, k>>)
  BY <1>9, <1>10, Zenon
<1>12. QED
  BY <1>1, <1>11, Zenon DEF Renames, first, N

\* The whole block.
LEMMA BlockRenamed ==
    ASSUME NEW E, NEW b, Ready(E, b)
    PROVE  Renamed(b, Len(func.code[b]), RenameBlock(b))
<1> DEFINE N == Len(func.code[b])
<1>1. Sound(func) /\ b \in Blocks(func) /\ DOMAIN func.code[b] = 1..N /\ N \in Nat
  BY ReadyFacts
<1>2. PICK R : Renames(R, b)
  BY RenameRuns
<1>3. /\ R[0] = PushPhis(b) /\ R[N] = RenameBlock(b)
      /\ \A k \in 1..N : R[k] = RenameInstr(R[k - 1], <<b, k>>)
  BY <1>2 DEF Renames
<1> DEFINE Good == {k \in 0..N : Renamed(b, k, R[k])}
<1> HIDE DEF N
<1>4. 0 \in Good
  <2>1. Renamed(b, 0, R[0])
    BY <1>3, PhisRenamed
  <2>2. 0 \in 0..N
    BY <1>1
  <2>3. QED
    BY <2>1, <2>2
<1>5. ASSUME NEW k \in 1..N, k - 1 \in Good
      PROVE  k \in Good
  <2>1. k \in DOMAIN func.code[b] /\ k \in 0..N
    BY <1>1
  <2>2. Renamed(b, k - 1, R[k - 1])
    BY <1>5
  <2>3. Renamed(b, k, RenameInstr(R[k - 1], <<b, k>>))
    BY <2>1, <2>2, InstrRenamed
  <2>4. QED
    BY <1>3, <2>1, <2>3
<1>6. 0..N \subseteq Good
  <2> HIDE DEF Good
  <2>1. QED
    BY <1>1, <1>4, <1>5, UpTo
<1>7. Renamed(b, N, R[N])
  BY <1>1, <1>6
<1>8. QED
  BY <1>3, <1>7 DEF N

-----------------------------------------------------------------------------
(* The call on a block, up to the visits of its children.                  *)

\* A phi is the phi of a variable in a block.
LEMMA PhiPlaceIs ==
    ASSUME Sound(func), PhisFit, NEW q \in PhiPlaces
    PROVE  /\ q[1] \in Blocks(func) /\ PhiVar(q) \in ToSet(phis[q[1]])
           /\ PhiVar(q) \in Allocas /\ q[2] = PhiVar(q)[1]
           /\ q = PhiOf(q[1], PhiVar(q))
<1>1. PICK b \in Blocks(func) : \E v \in ToSet(phis[b]) : q = PhiOf(b, v)
  BY DEF PhiPlaces
<1>2. PICK v \in ToSet(phis[b]) : q = PhiOf(b, v)
  BY <1>1
<1>3. v \in Allocas
  <2>1. phis[b] \in Seq(Allocas)
    BY <1>1 DEF PhisFit
  <2>2. QED
    BY <1>2, <2>1, ElementOfSeq DEF ToSet
<1>4. v = <<v[1], v[2]>>
  <2>1. v \in PlacesOf(func)
    BY <1>3 DEF Allocas
  <2>2. QED
    BY <2>1, PlaceIs
<1>5. q[1] = b /\ q[2] = v[1] /\ q[3] = v[2]
  BY <1>2 DEF PhiOf
<1>6. PhiVar(q) = v
  BY <1>4, <1>5 DEF PhiVar
<1>7. QED
  BY <1>1, <1>2, <1>3, <1>5, <1>6

\* What the renaming of block b leaves, when it comes to its end.
BlockLeft(E, b, r) ==
    /\ r \in States
    /\ ValuesFit(E \cup {b}, r.stacks, r.known, r.replacement)
    /\ TopsFit(r.stacks, r.known)
    /\ \A v \in Allocas :
          /\ Len(r.stacks[v]) = Len(stacks[v]) + Pops(b, v)
          /\ \A j \in DOMAIN stacks[v] : j \in DOMAIN r.stacks[v] /\ r.stacks[v][j] = stacks[v][j]
          /\ \A j \in DOMAIN r.stacks[v] : HomeOf(r.stacks[v][j]) \in Doms[b]
    /\ \A l \in DOMAIN replacement : l \in DOMAIN r.replacement
    /\ \A l \in DOMAIN r.replacement : l \in DOMAIN replacement \/ l[1] = b

\* RenameBlock leaves that, unless it fails.
LEMMA BlockLeaves ==
    ASSUME NEW E, NEW b, Ready(E, b), NEW r, r = RenameBlock(b), ~r.failed
    PROVE  BlockLeft(E, b, r)
<1> DEFINE N == Len(func.code[b])
           F == E \cup {b}
<1>1. /\ Sound(func) /\ b \in Blocks(func) /\ b \in Doms[b] /\ b \notin E
      /\ DOMAIN func.code[b] = 1..N /\ N \in Nat
      /\ \A v \in Allocas : Len(stacks[v]) \in Nat
  BY ReadyFacts
<1>2. Renamed(b, N, r)
  BY BlockRenamed
<1> HIDE DEF N
<1>3. StacksRenamed(b, N, r) /\ LoadsRenamed(b, N, r) /\ KnownRenamed(b, N, r) /\ r \in States
  BY <1>2 DEF Renamed
<1>4. ValuesFit(E, stacks, known, replacement) /\ Doms[b] \subseteq F /\ PhisFit
  BY DEF Ready
<1>5. \A v \in Allocas : Len(r.stacks[v]) = Len(stacks[v]) + Pops(b, v)
  <2> SUFFICES ASSUME NEW v \in Allocas
               PROVE  Len(r.stacks[v]) = Len(stacks[v]) + Pops(b, v)
    OBVIOUS
  <2>1. Len(r.stacks[v]) = Len(stacks[v]) + StoresTo(b, v, N) + PhisOf(b, v)
    BY <1>3 DEF StacksRenamed
  <2>2. Pops(b, v) = StoresTo(b, v, N) + PhisOf(b, v)
    BY <1>1, StoresCount DEF N
  <2>3. StoresTo(b, v, N) \in Nat
    <3>1. \A n \in Nat : StoresTo(b, v, n) \in Nat
      BY <1>1, StoresCount, Zenon
    <3>2. QED
      BY <1>1, <3>1
  <2>4. PhisOf(b, v) \in Nat /\ Len(stacks[v]) \in Nat
    BY <1>1, <1>4, PhisCount
  <2>5. \A x, y, z \in Nat : x + y + z = x + (y + z)
    OBVIOUS
  <2>6. Len(stacks[v]) + StoresTo(b, v, N) + PhisOf(b, v)
           = Len(stacks[v]) + (StoresTo(b, v, N) + PhisOf(b, v))
    BY <2>3, <2>4, <2>5, Zenon
  <2>7. QED
    BY <2>1, <2>2, <2>6, Zenon
<1>6. \A v \in Allocas : StoringBlocks(v) \cap F # {} => v \in r.known
  <2> SUFFICES ASSUME NEW v \in Allocas, NEW c \in StoringBlocks(v), c \in F
               PROVE  v \in r.known
    OBVIOUS
  <2>1. CASE c \in E
    BY <1>3, <1>4, <2>1 DEF ValuesFit, KnownRenamed
  <2>2. CASE c = b
    <3>1. PICK k \in DOMAIN func.code[b] : func.code[b][k].op = "store" /\ func.code[b][k].var = v
      BY <2>2 DEF StoringBlocks
    <3>2. IsLocalAccess(func.code[b][k], "store")
      BY <1>1, <3>1, LocalAccess
    <3>3. QED
      BY <1>1, <1>3, <3>1, <3>2 DEF KnownRenamed
  <2>3. QED
    BY <2>1, <2>2
<1>7. \A l \in DOMAIN r.replacement : l \in DOMAIN replacement \/ l[1] = b
  <2>1. \A l \in DOMAIN r.replacement : l \in DOMAIN replacement \/ \E m \in 1..N : l = <<b, m>>
    BY <1>3 DEF LoadsRenamed
  <2>2. QED
    BY <2>1
<1>8. ASSUME NEW v \in Allocas, NEW j \in DOMAIN r.stacks[v]
      PROVE  /\ Final(F, r.replacement, r.stacks[v][j])
             /\ HomeOf(r.stacks[v][j]) \in Doms[b]
  <2>1. HomeOf(r.stacks[v][j]) \in Doms[b] /\ Settled(b, N, r, r.stacks[v][j])
    BY <1>3 DEF StacksRenamed
  <2>2. QED
    BY <1>4, <2>1 DEF Final, Settled
<1>9. ASSUME NEW l \in DOMAIN r.replacement
      PROVE  /\ l[1] \in F
             /\ HomeOf(r.replacement[l]) \in Doms[l[1]]
             /\ Final(F, r.replacement, r.replacement[l])
  <2>1. HomeOf(r.replacement[l]) \in Doms[l[1]] /\ r.replacement[l] \notin DOMAIN r.replacement
    BY <1>3 DEF LoadsRenamed, Settled
  <2>2. CASE l \in DOMAIN replacement
    <3>1. r.replacement[l] = replacement[l]
      BY <1>3, <2>2 DEF LoadsRenamed
    <3>2. l[1] \in E /\ HomeOf(replacement[l]) \in E
      BY <1>4, <2>2 DEF ValuesFit, Final
    <3>3. QED
      BY <2>1, <3>1, <3>2 DEF Final
  <2>3. CASE l[1] = b
    BY <1>4, <2>1, <2>3 DEF Final
  <2>4. QED
    BY <1>7, <2>2, <2>3
<1>10. ASSUME Initialised, NEW l \in LocalLoads, l[1] \in F
       PROVE  l \in DOMAIN r.replacement
  <2>1. CASE l[1] \in E
    BY <1>3, <1>4, <1>10, <2>1 DEF ValuesFit, LoadsRenamed
  <2>2. CASE l[1] = b
    <3>1. l \in PlacesOf(func) /\ IsLocalAccess(InstrAt(l), "load")
      BY DEF LocalLoads
    <3>2. PICK c \in Blocks(func) : \E k \in DOMAIN func.code[c] : l = <<c, k>>
      BY <3>1, PlaceIs
    <3>3. PICK k \in DOMAIN func.code[b] : l = <<b, k>>
      BY <2>2, <3>2
    <3>4. IsLocalAccess(func.code[b][k], "load")
      BY <3>1, <3>3 DEF InstrAt
    <3>5. QED
      BY <1>1, <1>3, <1>10, <3>3, <3>4 DEF LoadsRenamed
  <2>3. QED
    BY <1>10, <2>1, <2>2
<1>11. ValuesFit(F, r.stacks, r.known, r.replacement)
  <2> HIDE DEF F
  <2>1. QED
    BY <1>6, <1>8, <1>9, <1>10 DEF ValuesFit
<1>12. \A v \in Allocas : \A j \in DOMAIN stacks[v] :
           j \in DOMAIN r.stacks[v] /\ r.stacks[v][j] = stacks[v][j]
  BY <1>3 DEF StacksRenamed
<1>13. \A l \in DOMAIN replacement : l \in DOMAIN r.replacement
  BY <1>3 DEF LoadsRenamed
<1>14. TopsFit(r.stacks, r.known)
  BY <1>3 DEF KnownRenamed
<1>15. QED
  BY <1>3, <1>5, <1>7, <1>8, <1>11, <1>12, <1>13, <1>14 DEF BlockLeft

\* When the blocks of E have been entered: an operand comes from one of them that
\* leads to the phi, one at most for each, and its value dominates that block.
OperandsFit(E, prs) ==
    \A q \in PhiPlaces :
        /\ \A k \in DOMAIN prs[q] : /\ prs[q][k][2] \in E
                                    /\ q[1] \in Succ(func, prs[q][k][2])
                                    /\ HomeOf(prs[q][k][1]) \in Doms[prs[q][k][2]]
        /\ \A j, k \in DOMAIN prs[q] : prs[q][j][2] = prs[q][k][2] => j = k
        /\ Initialised => \A p \in E : q[1] \in Succ(func, p) /\ q[2] \in Doms[p] =>
              \E k \in DOMAIN prs[q] : prs[q][k][2] = p

\* All maps from phis to operands.
Operandss == [PhiPlaces -> Seq(Values \X Blocks(func))]

\* A phi that gets no operand: it is not behind b, or its variable is not known.
LEMMA OldOperands ==
    ASSUME NEW E, NEW b, Ready(E, b), OperandsFit(E, pairs), NEW r, BlockLeft(E, b, r),
           NEW q \in PhiPlaces, ~(q[1] \in Succ(func, b) /\ PhiVar(q) \in r.known)
    PROVE  Initialised => \A p \in E \cup {b} : q[1] \in Succ(func, p) /\ q[2] \in Doms[p] =>
              \E k \in DOMAIN pairs[q] : pairs[q][k][2] = p
<1> SUFFICES ASSUME Initialised, NEW p \in E \cup {b}, q[1] \in Succ(func, p), q[2] \in Doms[p]
             PROVE  \E k \in DOMAIN pairs[q] : pairs[q][k][2] = p
  OBVIOUS
<1>1. CASE p \in E
  BY <1>1 DEF OperandsFit
<1>2. CASE p = b
  <2> DEFINE v == PhiVar(q)
  <2>1. v \in Allocas /\ q[2] = v[1]
    BY PhiPlaceIs DEF Ready
  <2>2. v[1] \in Blocks(func)
    <3>1. v \in PlacesOf(func)
      BY <2>1 DEF Allocas
    <3>2. QED
      BY <3>1, PlaceIs
  <2>3. v[2] + 1 \in DOMAIN func.code[v[1]]
    <3>1. v \in PlacesOf(func) /\ v[2] < Len(func.code[v[1]])
      BY <2>1 DEF Initialised, Allocas
    <3>2. v[2] \in DOMAIN func.code[v[1]]
      BY <3>1, PlaceIs
    <3>3. DOMAIN func.code[v[1]] = 1..Len(func.code[v[1]]) /\ Len(func.code[v[1]]) \in Nat
      BY <2>2, SoundFacts DEF Ready
    <3> HIDE DEF v
    <3>4. QED
      BY <3>1, <3>2, <3>3
  <2>4. /\ func.code[v[1]][v[2] + 1].op = "store"
        /\ func.code[v[1]][v[2] + 1].var = v
    BY <2>1 DEF Initialised
  <2>5. v[1] \in StoringBlocks(v)
    BY <2>2, <2>3, <2>4 DEF StoringBlocks
  <2>6. v[1] \in E \cup {b}
    BY <1>2, <2>1 DEF Ready
  <2>7. v \in r.known
    BY <2>1, <2>5, <2>6 DEF BlockLeft, ValuesFit
  <2>8. QED
    BY <1>2, <2>7
<1>3. QED
  BY <1>1, <1>2

\* Step 6 gives each phi behind b its operand for the edge from b.
LEMMA PhisFilled ==
    ASSUME NEW E, NEW b, Ready(E, b), pairs \in Operandss, OperandsFit(E, pairs),
           NEW r, BlockLeft(E, b, r),
           \A q \in PhisBehind(b, r) : r.stacks[PhiVar(q)] # << >>
    PROVE  FillPhis(b, r) \in Operandss /\ OperandsFit(E \cup {b}, FillPhis(b, r))
<1> DEFINE prs == FillPhis(b, r)
           behind == PhisBehind(b, r)
           new(q) == <<Last(r.stacks[PhiVar(q)]), b>>
<1>1. DOMAIN pairs = PhiPlaces /\ \A q \in PhiPlaces : pairs[q] \in Seq(Values \X Blocks(func))
  BY DEF Operandss
<1>2. /\ \A q \in PhiPlaces : q \notin behind => prs[q] = pairs[q]
      /\ \A q \in behind : q \in PhiPlaces /\ prs[q] = Append(pairs[q], new(q))
      /\ DOMAIN prs = PhiPlaces /\ prs = [q \in PhiPlaces |-> prs[q]]
  BY <1>1 DEF FillPhis, PhisBehind
<1>3. /\ \A q \in PhiPlaces : q \in behind <=> q[1] \in Succ(func, b) /\ PhiVar(q) \in r.known
  BY <1>1 DEF PhisBehind
<1>4. Sound(func) /\ PhisFit /\ b \in Blocks(func) /\ b \in Doms[b] /\ b \notin E
  BY ReadyFacts DEF Ready
<1>5. ASSUME NEW q \in behind
      PROVE  /\ new(q) \in Values \X Blocks(func)
             /\ HomeOf(new(q)[1]) \in Doms[b] /\ new(q)[2] = b
  <2> DEFINE s == r.stacks[PhiVar(q)]
  <2>1. q \in PhiPlaces /\ PhiVar(q) \in Allocas /\ s # << >>
    BY <1>2, <1>4, PhiPlaceIs
  <2>2. r \in States
    BY DEF BlockLeft
  <2>3. s \in Seq(Values)
    BY <2>1, <2>2, StateIs
  <2>4. HomeOf(s[Len(s)]) \in Doms[b] \/ Len(s) \notin DOMAIN s
    BY <2>1 DEF BlockLeft
  <2> HIDE DEF s
  <2>5. Last(s) = s[Len(s)] /\ Len(s) \in DOMAIN s /\ s[Len(s)] \in Values
    BY <2>1, <2>3, FrontIs
  <2>6. QED
    BY <1>4, <2>4, <2>5 DEF s
<1> HIDE DEF behind, prs, new
<1>6. ASSUME NEW q \in behind
      PROVE  /\ prs[q] \in Seq(Values \X Blocks(func))
             /\ EndsIn(prs[q], pairs[q], new(q))
  <2>1. pairs[q] \in Seq(Values \X Blocks(func)) /\ new(q) \in Values \X Blocks(func)
    BY <1>1, <1>2, <1>5
  <2>2. prs[q] = Append(pairs[q], new(q))
    BY <1>2
  <2>3. QED
    BY <2>1, <2>2, AppendEndsIn
<1>7. prs \in Operandss
  <2>1. \A q \in PhiPlaces : prs[q] \in Seq(Values \X Blocks(func))
    BY <1>1, <1>2, <1>6
  <2>2. QED
    BY <1>2, <2>1 DEF Operandss
<1>8. ASSUME NEW q \in PhiPlaces
      PROVE  /\ \A k \in DOMAIN prs[q] : /\ prs[q][k][2] \in E \cup {b}
                                         /\ q[1] \in Succ(func, prs[q][k][2])
                                         /\ HomeOf(prs[q][k][1]) \in Doms[prs[q][k][2]]
             /\ \A j, k \in DOMAIN prs[q] : prs[q][j][2] = prs[q][k][2] => j = k
             /\ Initialised => \A p \in E \cup {b} : q[1] \in Succ(func, p) /\ q[2] \in Doms[p] =>
                   \E k \in DOMAIN prs[q] : prs[q][k][2] = p
  <2>1. /\ \A k \in DOMAIN pairs[q] : /\ pairs[q][k][2] \in E
                                      /\ q[1] \in Succ(func, pairs[q][k][2])
                                      /\ HomeOf(pairs[q][k][1]) \in Doms[pairs[q][k][2]]
        /\ \A j, k \in DOMAIN pairs[q] : pairs[q][j][2] = pairs[q][k][2] => j = k
        /\ Initialised => \A p \in E : q[1] \in Succ(func, p) /\ q[2] \in Doms[p] =>
              \E k \in DOMAIN pairs[q] : pairs[q][k][2] = p
    BY DEF OperandsFit
  <2>2. CASE q \notin behind
    <3>1. prs[q] = pairs[q]
      BY <1>2, <2>2
    <3>2. Initialised => \A p \in E \cup {b} : q[1] \in Succ(func, p) /\ q[2] \in Doms[p] =>
              \E k \in DOMAIN pairs[q] : pairs[q][k][2] = p
      BY <1>3, <2>2, OldOperands
    <3>3. QED
      BY <2>1, <3>1, <3>2
  <2>3. CASE q \in behind
    <3>1. /\ \A k \in DOMAIN pairs[q] : k \in DOMAIN prs[q] /\ prs[q][k] = pairs[q][k]
          /\ \A k \in DOMAIN prs[q] : k \in DOMAIN pairs[q] \/ prs[q][k] = new(q)
      BY <1>6, <2>3 DEF EndsIn
    <3>2. /\ HomeOf(new(q)[1]) \in Doms[b] /\ new(q)[2] = b /\ q[1] \in Succ(func, b)
      BY <1>3, <1>5, <2>3
    <3>3. /\ Len(prs[q]) = Len(pairs[q]) + 1 /\ DOMAIN pairs[q] = 1..Len(pairs[q])
          /\ DOMAIN prs[q] = 1..Len(prs[q]) /\ Len(pairs[q]) \in Nat
      BY <1>1, <1>6, <2>3, LenProperties DEF EndsIn
    <3>4. \A k \in DOMAIN prs[q] : k \in DOMAIN pairs[q] \/ k = Len(prs[q])
      BY <3>3
    <3>5. Len(prs[q]) \in DOMAIN prs[q] /\ Len(prs[q]) \notin DOMAIN pairs[q]
      BY <3>3
    <3>6. prs[q][Len(prs[q])] = new(q)
      BY <3>1, <3>5
    <3>7. \A k \in DOMAIN prs[q] : /\ prs[q][k][2] \in E \cup {b}
                                   /\ q[1] \in Succ(func, prs[q][k][2])
                                   /\ HomeOf(prs[q][k][1]) \in Doms[prs[q][k][2]]
      BY <2>1, <3>1, <3>2
    <3>8. \A j, k \in DOMAIN prs[q] : prs[q][j][2] = prs[q][k][2] => j = k
      <4> SUFFICES ASSUME NEW j \in DOMAIN prs[q], NEW k \in DOMAIN prs[q],
                          prs[q][j][2] = prs[q][k][2]
                   PROVE  j = k
        OBVIOUS
      <4>1. CASE j \in DOMAIN pairs[q] /\ k \in DOMAIN pairs[q]
        BY <2>1, <3>1, <4>1
      <4>2. \A i \in DOMAIN pairs[q] : prs[q][i][2] # b
        BY <1>4, <2>1, <3>1
      <4>3. QED
        BY <3>2, <3>4, <3>6, <4>1, <4>2
    <3>9. Initialised => \A p \in E \cup {b} : q[1] \in Succ(func, p) /\ q[2] \in Doms[p] =>
                   \E k \in DOMAIN prs[q] : prs[q][k][2] = p
      BY <2>1, <3>1, <3>2, <3>5, <3>6
    <3>10. QED
      BY <3>7, <3>8, <3>9
  <2>4. QED
    BY <2>2, <2>3
<1>9. OperandsFit(E \cup {b}, prs)
  BY <1>8 DEF OperandsFit
<1>10. QED
  BY <1>7, <1>9 DEF prs

\* What the call has done to the variables of the walk.
Entering(E, b) ==
    /\ stacks' \in [Allocas -> Seq(Values)] /\ known' \in SUBSET Allocas
    /\ replacement' \in Replacements /\ pairs' \in Operandss
    /\ \/ /\ phase' = "rename"
          /\ BlockLeft(E, b, [stacks |-> stacks', known |-> known', replacement |-> replacement',
                              failed |-> FALSE])
          /\ OperandsFit(E \cup {b}, pairs')
       \/ phase' \in {"aborted", "undefined"} /\ SomeUnset

\* Enter does one or the other.
LEMMA EnterFits ==
    ASSUME NEW E, NEW b, Ready(E, b), pairs \in Operandss, OperandsFit(E, pairs), Enter(b)
    PROVE  Entering(E, b)
<1> DEFINE r == RenameBlock(b)
           empty == \E q \in PhisBehind(b, r) : r.stacks[PhiVar(q)] = << >>
<1>1. /\ stacks' = r.stacks /\ known' = r.known /\ replacement' = r.replacement
      /\ pairs' = IF r.failed \/ empty THEN pairs ELSE FillPhis(b, r)
      /\ phase' = IF r.failed THEN "undefined" ELSE IF empty THEN "aborted" ELSE "rename"
  BY DEF Enter
<1>2. r \in States /\ (r.failed => SomeUnset)
  BY BlockRenamed DEF Renamed
<1>3. ~r.failed => BlockLeft(E, b, r)
  BY BlockLeaves
<1>4. PhisBehind(b, r) \subseteq PhiPlaces
  BY DEF PhisBehind, Operandss
<1>5. \A q \in PhisBehind(b, r) : PhiVar(q) \in r.known
  BY DEF PhisBehind
<1> HIDE DEF r
<1>6. /\ stacks' \in [Allocas -> Seq(Values)] /\ known' \in SUBSET Allocas
      /\ replacement' \in Replacements
  BY <1>1, <1>2, StateIs
<1>7. CASE r.failed
  BY <1>1, <1>2, <1>6, <1>7 DEF Entering
<1>8. CASE ~r.failed /\ empty
  <2>1. PICK q \in PhisBehind(b, r) : r.stacks[PhiVar(q)] = << >>
    BY <1>8
  <2>2. PhiVar(q) \in r.known /\ TopsFit(r.stacks, r.known)
    BY <1>3, <1>5, <1>8 DEF BlockLeft
  <2>3. PhiVar(q) \in Allocas /\ Entry \notin StoringBlocks(PhiVar(q))
    BY <1>2, <2>1, <2>2, StateIs DEF TopsFit
  <2>4. SomeUnset
    BY <2>3 DEF SomeUnset
  <2>5. QED
    BY <1>1, <1>6, <1>8, <2>4 DEF Entering
<1>9. CASE ~r.failed /\ ~empty
  <2>1. BlockLeft(E, b, r)
    BY <1>3, <1>9
  <2>2. pairs' = FillPhis(b, r) /\ phase' = "rename"
    BY <1>1, <1>9
  <2>3. pairs' \in Operandss /\ OperandsFit(E \cup {b}, pairs')
    BY <1>9, <2>1, <2>2, PhisFilled
  <2>4. r = [stacks |-> stacks', known |-> known', replacement |-> replacement', failed |-> FALSE]
    BY <1>1, <1>2, <1>9 DEF States
  <2>5. QED
    BY <1>6, <2>1, <2>2, <2>3, <2>4 DEF Entering
<1>10. QED
  BY <1>7, <1>8, <1>9

-----------------------------------------------------------------------------
(* The invariant of the pass.                                              *)

\* What Run has taken from Dominators, and the phis.
Prepared ==
    /\ Sound(func)
    /\ dominators.frontier \in [Blocks(func) -> SUBSET Blocks(func)]
    /\ \A b \in Live : dominators.tree[b] = ChildrenOf(Doms, b)
    /\ PhisFit

\* The variables of the walk have their types.
Typed ==
    /\ stacks \in [Allocas -> Seq(Values)]
    /\ known \in SUBSET Allocas
    /\ replacement \in Replacements
    /\ pairs \in Operandss
    /\ deleted \in SUBSET PlacesOf(func)

\* While phis are placed the walk has not begun.
Placing ==
    /\ vars_left \in SUBSET Allocas
    /\ work_list \in Seq(Blocks(func) \X Allocas)
    /\ worked \in 0..Len(work_list)
    /\ stacks = [v \in Allocas |-> << >>]
    /\ pairs = [q \in PhiPlaces |-> << >>]
    /\ known = {} /\ replacement = << >> /\ deleted = {} /\ calls = << >>

\* The values on the stacks: as many as the open calls have pushed, and those
\* of a call and the calls around it dominate the call's block.
StacksFit(cs, sts) ==
    \A v \in Allocas :
        /\ Len(sts[v]) = Pushed(cs, v)[Len(cs)]
        /\ \A n \in DOMAIN cs : \A j \in DOMAIN sts[v] :
              j <= Pushed(cs, v)[n] => HomeOf(sts[v][j]) \in Doms[cs[n][1]]

\* A block whose call is over has lost its loads and stores.
Cleaned(cs, del) ==
    \A b \in Entered(Live, Doms, cs) \ Called(cs) : WaitDelete(b) \subseteq del

\* The walk has come to calls.
Walked ==
    /\ CallsFit(Live, Doms, calls)
    /\ StacksFit(calls, stacks)
    /\ ValuesFit(Entered(Live, Doms, calls), stacks, known, replacement)
    /\ OperandsFit(Entered(Live, Doms, calls), pairs)
    /\ calls # << >> => TopsFit(stacks, known)
    /\ Cleaned(calls, deleted)

\* The invariant of the pass, phase by phase.
MInv ==
    \/ InitPass
    \/ phase = "place" /\ Prepared /\ Placing
    \/ phase = "rename" /\ Prepared /\ Typed /\ calls # << >> /\ Walked
    \/ phase = "done" /\ Prepared /\ Typed /\ calls = << >> /\ Walked /\ Allocas \subseteq deleted
    \/ phase \in {"aborted", "undefined"} /\ Prepared /\ Typed /\ SomeUnset

\* Operators of the state that depend on the function and the phis alone.
LEMMA SameSets ==
    ASSUME func' = func, phis' = phis
    PROVE  /\ Allocas' = Allocas /\ PhiPlaces' = PhiPlaces /\ Values' = Values
           /\ LocalLoads' = LocalLoads /\ Replacements' = Replacements
           /\ Operandss' = Operandss
           /\ Live' = Live /\ Doms' = Doms /\ (Initialised' <=> Initialised)
           /\ \A v : StoringBlocks(v)' = StoringBlocks(v)
           /\ \A b, v : Pops(b, v)' = Pops(b, v)
           /\ \A cs, v : Pushed(cs, v)' = Pushed(cs, v)
           /\ (SomeUnset' <=> SomeUnset) /\ (PhisFit' <=> PhisFit)
<1>1. Allocas' = Allocas
  BY DEF Allocas, PlacesOf, InstrAt
<1>2. PhiPlaces' = PhiPlaces
  BY DEF PhiPlaces
<1>3. Values' = Values
  BY <1>2 DEF Values, PlacesOf, InstrAt
<1>4. LocalLoads' = LocalLoads
  BY DEF LocalLoads, IsLocalAccess, InstrAt
<1>5. Replacements' = Replacements
  BY <1>3, <1>4 DEF Replacements
<1>6. Operandss' = Operandss
  BY <1>2, <1>3 DEF Operandss
<1>7. Live' = Live /\ Doms' = Doms
  BY DEF Live, Doms
<1>8. Initialised' <=> Initialised
  BY <1>1 DEF Initialised
<1>9. \A v : StoringBlocks(v)' = StoringBlocks(v)
  BY DEF StoringBlocks
<1>10. \A b, v : Pops(b, v)' = Pops(b, v)
  BY DEF Pops
<1>11. \A cs, v : Pushed(cs, v)' = Pushed(cs, v)
  BY DEF Pushed, Pops
<1>12. SomeUnset' <=> SomeUnset
  BY <1>1, <1>9 DEF SomeUnset
<1>13. PhisFit' <=> PhisFit
  BY <1>1 DEF PhisFit
<1>14. QED
  BY <1>1, <1>2, <1>3, <1>4, <1>5, <1>6, <1>7, <1>8, <1>9, <1>10, <1>11, <1>12, <1>13

\* So do the parts of the invariant on given stacks, calls and replacements.
LEMMA SameParts ==
    ASSUME func' = func, phis' = phis
    PROVE  /\ \A E, sts, kn, rep : ValuesFit(E, sts, kn, rep)' <=> ValuesFit(E, sts, kn, rep)
           /\ \A E, prs : OperandsFit(E, prs)' <=> OperandsFit(E, prs)
           /\ \A sts, kn : TopsFit(sts, kn)' <=> TopsFit(sts, kn)
           /\ \A cs, sts : StacksFit(cs, sts)' <=> StacksFit(cs, sts)
<1>1. /\ Allocas' = Allocas /\ PhiPlaces' = PhiPlaces /\ LocalLoads' = LocalLoads
      /\ Live' = Live /\ Doms' = Doms /\ (Initialised' <=> Initialised)
      /\ \A v : StoringBlocks(v)' = StoringBlocks(v)
      /\ \A cs, v : Pushed(cs, v)' = Pushed(cs, v)
  BY SameSets
<1>2. \A E, sts, kn, rep : ValuesFit(E, sts, kn, rep)' <=> ValuesFit(E, sts, kn, rep)
  BY <1>1 DEF ValuesFit
<1>3. \A E, prs : OperandsFit(E, prs)' <=> OperandsFit(E, prs)
  BY <1>1 DEF OperandsFit
<1>4. \A sts, kn : TopsFit(sts, kn)' <=> TopsFit(sts, kn)
  BY <1>1 DEF TopsFit
<1>5. \A cs, sts : StacksFit(cs, sts)' <=> StacksFit(cs, sts)
  BY <1>1 DEF StacksFit
<1>6. QED
  BY <1>2, <1>3, <1>4, <1>5

\* The invariant from its parts on the next values.
LEMMA WalkedNext ==
    ASSUME func' = func, phis' = phis, NEW E, E = Entered(Live, Doms, calls'),
           CallsFit(Live, Doms, calls'), StacksFit(calls', stacks'),
           ValuesFit(E, stacks', known', replacement'), OperandsFit(E, pairs'),
           calls' # << >> => TopsFit(stacks', known'),
           \A b \in E \ Called(calls') : WaitDelete(b)' \subseteq deleted'
    PROVE  Walked'
<1>1. Live' = Live /\ Doms' = Doms
  BY SameSets
<1>2. StacksFit(calls, stacks)'
  BY SameParts
<1>3. ValuesFit(E, stacks, known, replacement)' /\ OperandsFit(E, pairs)'
  BY SameParts
<1>4. calls' # << >> => TopsFit(stacks, known)'
  BY SameParts
<1>5. E = Entered(Live, Doms, calls)' /\ CallsFit(Live, Doms, calls)'
  BY <1>1
<1>6. Cleaned(calls, deleted)'
  BY <1>5 DEF Cleaned
<1>7. ValuesFit(Entered(Live, Doms, calls), stacks, known, replacement)'
      /\ OperandsFit(Entered(Live, Doms, calls), pairs)'
  BY <1>3, <1>5
<1>8. QED
  BY <1>2, <1>4, <1>5, <1>6, <1>7 DEF Walked

\* The walk does not touch what was prepared.
LEMMA PreparedNext ==
    ASSUME Prepared, func' = func, phis' = phis, dominators' = dominators
    PROVE  Prepared'
BY SameSets DEF Prepared

\* The types, put together for the next state.
LEMMA TypedNext ==
    ASSUME func' = func, phis' = phis,
           stacks' \in [Allocas -> Seq(Values)], known' \in SUBSET Allocas,
           replacement' \in Replacements, pairs' \in Operandss,
           deleted' \in SUBSET PlacesOf(func)
    PROVE  Typed'
BY SameSets DEF Typed

\* The counts of the open calls.
LEMMA CallCounts ==
    ASSUME Sound(func), PhisFit, NEW cs, CallsFit(Live, Doms, cs), NEW v
    PROVE  /\ Len(cs) \in Nat /\ DOMAIN cs = 1..Len(cs)
           /\ \A n \in 1..Len(cs) : cs[n][1] \in Live /\ Pops(cs[n][1], v) \in Nat
           /\ Counts(Pushed(cs, v), cs, v)
<1>1. cs \in Seq(Live \X SUBSET Live)
  BY DEF CallsFit
<1>2. Len(cs) \in Nat /\ DOMAIN cs = 1..Len(cs)
  BY <1>1, LenProperties
<1>3. ASSUME NEW n \in 1..Len(cs)
      PROVE  cs[n][1] \in Live /\ Pops(cs[n][1], v) \in Nat
  <2>1. cs[n] \in Live \X SUBSET Live
    BY <1>1, ElementOfSeq
  <2>2. cs[n][1] \in Live /\ Live \subseteq Blocks(func)
    BY <2>1, SoundFacts DEF Live
  <2> DEFINE b == cs[n][1]
  <2>3. b \in Blocks(func) /\ b \in Live
    BY <2>2
  <2> HIDE DEF b
  <2>4. Pops(b, v) = StoresTo(b, v, Len(func.code[b])) + PhisOf(b, v)
    BY <2>3, StoresCount
  <2>5. StoresTo(b, v, Len(func.code[b])) \in Nat
    <3>1. \A k \in Nat : StoresTo(b, v, k) \in Nat
      BY <2>3, StoresCount, Zenon
    <3>2. Len(func.code[b]) \in Nat
      BY <2>3, SoundFacts
    <3>3. QED
      BY <3>1, <3>2
  <2>6. PhisOf(b, v) \in Nat
    BY <2>3, PhisCount
  <2>7. QED
    BY <2>3, <2>4, <2>5, <2>6 DEF b
<1>4. Counts(Pushed(cs, v), cs, v)
  BY <1>2, <1>3, PushedCounts
<1>5. QED
  BY <1>2, <1>3, <1>4

\* A call has pushed no more than the calls inside it and it together.
LEMMA CountsGrow ==
    ASSUME NEW cs, NEW v, NEW P, Counts(P, cs, v), Len(cs) \in Nat,
           \A n \in 1..Len(cs) : Pops(cs[n][1], v) \in Nat,
           NEW m \in 0..Len(cs)
    PROVE  P[m] <= P[Len(cs)]
<1> DEFINE N == Len(cs)
           Good == {k \in 0..N : k < m \/ P[m] <= P[k]}
<1>1. \A k \in 0..N : P[k] \in Nat
  BY DEF Counts
<1>2. 0 \in Good
  BY <1>1
<1>3. ASSUME NEW k \in 1..N, k - 1 \in Good
      PROVE  k \in Good
  <2>1. P[k] = P[k - 1] + Pops(cs[k][1], v) /\ P[k - 1] \in Nat /\ P[m] \in Nat /\ P[k] \in Nat
    BY <1>1 DEF Counts
  <2>2. Pops(cs[k][1], v) \in Nat
    OBVIOUS
  <2>3. CASE k <= m
    BY <1>1, <2>1, <2>3
  <2>4. CASE k > m
    <3>1. P[m] <= P[k - 1]
      BY <1>3, <2>4
    <3>2. \A a, c, d, e \in Nat : a = c + d /\ e <= c => e <= a
      OBVIOUS
    <3>3. P[m] <= P[k]
      BY <2>1, <2>2, <3>1, <3>2, Zenon
    <3>4. QED
      BY <3>3
  <2>5. QED
    BY <2>3, <2>4
<1>4. 0..N \subseteq Good
  <2> HIDE DEF Good
  <2>1. QED
    BY <1>2, <1>3, UpTo
<1>5. QED
  BY <1>4

\* The stacks fit the calls with one more call inside.
LEMMA StacksDeepen ==
    ASSUME Sound(func), PhisFit, NEW cs, CallsFit(Live, Doms, cs), StacksFit(cs, stacks),
           NEW new, CallsFit(Live, Doms, new), Len(new) = Len(cs) + 1,
           \A k \in 1..Len(cs) : new[k][1] = cs[k][1],
           stacks \in [Allocas -> Seq(Values)],
           NEW E, NEW b, new[Len(cs) + 1][1] = b, NEW r, BlockLeft(E, b, r)
    PROVE  StacksFit(new, r.stacks)
<1> SUFFICES ASSUME NEW v \in Allocas
             PROVE  /\ Len(r.stacks[v]) = Pushed(new, v)[Len(new)]
                    /\ \A n \in DOMAIN new : \A j \in DOMAIN r.stacks[v] :
                          j <= Pushed(new, v)[n] => HomeOf(r.stacks[v][j]) \in Doms[new[n][1]]
  BY DEF StacksFit
<1> DEFINE P == Pushed(cs, v)
           Q == Pushed(new, v)
           N == Len(cs)
<1>1. /\ N \in Nat /\ DOMAIN cs = 1..N /\ Counts(P, cs, v)
      /\ \A n \in 1..N : Pops(cs[n][1], v) \in Nat
  BY CallCounts
<1>2. DOMAIN new = 1..(N + 1) /\ Counts(Q, new, v)
  BY CallCounts
<1> HIDE DEF P, Q
<1>3. \A k \in 0..N : Q[k] = P[k]
  <2>1. N \in Nat /\ N <= Len(cs) /\ N <= Len(new) /\ Len(cs) \in Nat /\ Len(new) \in Nat
    BY <1>1
  <2>2. \A k \in 1..N : new[k][1] = cs[k][1]
    OBVIOUS
  <2> HIDE DEF N
  <2>3. QED
    BY <1>1, <1>2, <2>1, <2>2, SameCounts
<1>4. Q[N + 1] = P[N] + Pops(b, v) /\ P[N] \in Nat
  BY <1>1, <1>2, <1>3 DEF Counts
<1>5. /\ Len(r.stacks[v]) = Len(stacks[v]) + Pops(b, v)
      /\ \A j \in DOMAIN stacks[v] : j \in DOMAIN r.stacks[v] /\ r.stacks[v][j] = stacks[v][j]
      /\ \A j \in DOMAIN r.stacks[v] : HomeOf(r.stacks[v][j]) \in Doms[b]
      /\ r \in States
  BY DEF BlockLeft
<1>6. /\ Len(stacks[v]) = P[N]
      /\ \A n \in DOMAIN cs : \A j \in DOMAIN stacks[v] :
            j <= P[n] => HomeOf(stacks[v][j]) \in Doms[cs[n][1]]
  BY DEF StacksFit, P
<1>7. DOMAIN stacks[v] = 1..P[N]
  <2>1. stacks[v] \in Seq(Values)
    OBVIOUS
  <2>2. QED
    BY <1>6, <2>1, LenProperties
<1>8. Len(r.stacks[v]) = Q[Len(new)]
  BY <1>4, <1>5, <1>6
<1>9. DOMAIN r.stacks[v] \subseteq Nat \ {0}
  <2>1. Len(r.stacks[v]) \in Nat /\ DOMAIN r.stacks[v] = 1..Len(r.stacks[v])
    BY <1>5, StateIs
  <2>2. QED
    BY <2>1
<1>10. ASSUME NEW n \in 1..N, NEW j \in DOMAIN r.stacks[v], j <= Q[n]
       PROVE  HomeOf(r.stacks[v][j]) \in Doms[new[n][1]]
  <2>1. P[n] <= P[N]
    <3>1. n \in 0..Len(cs) /\ Len(cs) \in Nat
      BY <1>1
    <3>2. P[n] <= P[Len(cs)]
      BY <1>1, <3>1, CountsGrow, Zenon
    <3>3. QED
      BY <3>2
  <2>2. j <= P[n] /\ j \in Nat \ {0}
    BY <1>1, <1>3, <1>9, <1>10
  <2>3. j \in DOMAIN stacks[v]
    BY <1>1, <1>3, <1>4, <1>7, <2>1, <2>2 DEF Counts
  <2>4. HomeOf(stacks[v][j]) \in Doms[cs[n][1]]
    BY <1>1, <1>6, <2>2, <2>3
  <2>5. QED
    BY <1>5, <2>3, <2>4
<1>11. ASSUME NEW n \in DOMAIN new, NEW j \in DOMAIN r.stacks[v], j <= Q[n]
       PROVE  HomeOf(r.stacks[v][j]) \in Doms[new[n][1]]
  <2>1. n \in 1..N \/ n = N + 1
    BY <1>1, <1>2
  <2>2. QED
    BY <1>5, <1>10, <1>11, <2>1
<1>12. QED
  BY <1>8, <1>11 DEF Q

-----------------------------------------------------------------------------
(* The steps of the walk.                                                  *)

\* A call on one more block.
LEMMA Descends ==
    ASSUME Prepared, stacks \in [Allocas -> Seq(Values)], deleted \in SUBSET PlacesOf(func),
           NEW E, NEW b, Entering(E, b), phase' = "rename",
           func' = func, phis' = phis, deleted' = deleted,
           CallsFit(Live, Doms, calls), StacksFit(calls, stacks),
           CallsFit(Live, Doms, calls'), Len(calls') = Len(calls) + 1,
           \A k \in 1..Len(calls) : calls'[k][1] = calls[k][1],
           calls'[Len(calls) + 1][1] = b,
           Entered(Live, Doms, calls') = E \cup {b},
           Called(calls') = Called(calls) \cup {b},
           \A c \in E \ Called(calls) : WaitDelete(c) \subseteq deleted
    PROVE  Typed' /\ Walked'
<1>1. PICK r : r = [stacks |-> stacks', known |-> known', replacement |-> replacement',
                    failed |-> FALSE]
  OBVIOUS
<1>2. r.stacks = stacks' /\ r.known = known' /\ r.replacement = replacement'
  BY <1>1
<1>3. BlockLeft(E, b, r) /\ OperandsFit(E \cup {b}, pairs')
  BY <1>1 DEF Entering
<1>4. Sound(func) /\ PhisFit
  BY DEF Prepared
<1>5. StacksFit(calls', stacks')
  <2>1. StacksFit(calls', r.stacks)
    BY <1>3, <1>4, StacksDeepen
  <2>2. QED
    BY <1>2, <2>1
<1>6. ValuesFit(E \cup {b}, stacks', known', replacement') /\ TopsFit(stacks', known')
  BY <1>2, <1>3 DEF BlockLeft
<1>7. ASSUME NEW c \in (E \cup {b}) \ Called(calls')
      PROVE  WaitDelete(c)' \subseteq deleted'
  <2>1. c \in E /\ c # b /\ c \notin Called(calls)
    BY <1>7
  <2>2. WaitDelete(c) \subseteq deleted
    BY <2>1
  <2>3. \A l \in DOMAIN replacement' : l \in DOMAIN replacement \/ l[1] = b
    BY <1>2, <1>3 DEF BlockLeft
  <2>4. {p \in DOMAIN replacement' : p[1] = c} \subseteq {p \in DOMAIN replacement : p[1] = c}
    BY <2>1, <2>3
  <2>5. WaitDelete(c)' \subseteq WaitDelete(c)
    BY <2>4, Zenon DEF WaitDelete, IsLocalAccess, InstrAt
  <2>6. QED
    BY <2>2, <2>5
<1>8. Walked'
  BY <1>3, <1>5, <1>6, <1>7, WalkedNext
<1>9. Typed'
  BY TypedNext DEF Entering
<1>10. QED
  BY <1>8, <1>9

\* Before the first call nothing is entered.
LEMMA StartReady ==
    ASSUME Prepared, Placing
    PROVE  Ready({}, Entry) /\ OperandsFit({}, pairs) /\ pairs \in Operandss
<1>1. Sound(func) /\ PhisFit /\ IsTree(Live, Doms) /\ Entry \in Live
  BY SoundFacts DEF Prepared, Live, Doms
<1>2. stacks = [v \in Allocas |-> << >>] /\ known = {} /\ replacement = << >>
      /\ pairs = [q \in PhiPlaces |-> << >>]
  BY DEF Placing
<1>3. stacks \in [Allocas -> Seq(Values)] /\ pairs \in Operandss /\ replacement \in Replacements
  <2>1. \A S : << >> \in Seq(S)
    OBVIOUS
  <2>2. replacement \in [{} -> Values]
    BY <1>2
  <2>3. QED
    BY <1>2, <2>1, <2>2 DEF Operandss, Replacements
<1>4. ValuesFit({}, stacks, known, replacement) /\ TopsFit(stacks, known)
  <2>1. \A v \in Allocas : DOMAIN stacks[v] = {}
    BY <1>2
  <2>2. DOMAIN replacement = {}
    BY <1>2
  <2>3. QED
    BY <1>2, <2>1, <2>2 DEF ValuesFit, TopsFit
<1>5. Ready({}, Entry)
  <2>1. Doms[Entry] = {Entry}
    BY <1>1 DEF IsTree
  <2>2. \A v \in Allocas : \A j \in DOMAIN stacks[v] : HomeOf(stacks[v][j]) \in Doms[Entry]
    BY <1>2
  <2>3. QED
    BY <1>1, <1>2, <1>3, <1>4, <2>1, <2>2 DEF Ready
<1>6. OperandsFit({}, pairs)
  <2>1. \A q \in PhiPlaces : DOMAIN pairs[q] = {}
    BY <1>2
  <2>2. QED
    BY <2>1 DEF OperandsFit
<1>7. QED
  BY <1>3, <1>5, <1>6

\* The first call, on the entry block.
LEMMA StartKeeps ==
    ASSUME phase = "place", Prepared, Placing, StartRename
    PROVE  MInv'
<1>1. Sound(func) /\ PhisFit /\ IsTree(Live, Doms) /\ Entry \in Live
  BY SoundFacts DEF Prepared, Live, Doms
<1>2. stacks = [v \in Allocas |-> << >>] /\ known = {} /\ replacement = << >>
      /\ calls = << >> /\ deleted = {} /\ pairs = [q \in PhiPlaces |-> << >>]
  BY DEF Placing
<1>3. /\ func' = func /\ phis' = phis /\ dominators' = dominators /\ deleted' = deleted
      /\ Enter(Entry) /\ calls' = <<<<Entry, dominators.tree[Entry]>>>>
  BY DEF StartRename
<1>4. stacks \in [Allocas -> Seq(Values)] /\ Ready({}, Entry) /\ OperandsFit({}, pairs)
      /\ pairs \in Operandss
  BY StartReady DEF Ready
<1>5. Entering({}, Entry)
  BY <1>3, <1>4, EnterFits
<1>6. calls' = <<<<Entry, ChildrenOf(Doms, Entry)>>>>
  BY <1>1, <1>3 DEF Prepared
<1>7. /\ CallsFit(Live, Doms, calls') /\ Entered(Live, Doms, calls') = {Entry}
       /\ Called(calls') = {Entry} /\ Len(calls') = 1 /\ calls'[1][1] = Entry
  BY <1>1, <1>6, CallsStart
<1>8. Prepared'
  BY <1>3, PreparedNext
<1>9. CASE phase' = "rename"
  <2>1. CallsFit(Live, Doms, calls) /\ Called(calls) = {} /\ Len(calls) = 0
    BY <1>2 DEF CallsFit, Called, ToCome
  <2>2. StacksFit(calls, stacks)
    <3> SUFFICES ASSUME NEW v \in Allocas
                 PROVE  /\ Len(stacks[v]) = Pushed(calls, v)[Len(calls)]
                        /\ \A n \in DOMAIN calls : \A j \in DOMAIN stacks[v] :
                              j <= Pushed(calls, v)[n]
                                 => HomeOf(stacks[v][j]) \in Doms[calls[n][1]]
      BY DEF StacksFit
    <3>1. Counts(Pushed(calls, v), calls, v)
      BY <1>1, <2>1, CallCounts
    <3>2. Pushed(calls, v)[Len(calls)] = 0
      BY <2>1, <3>1 DEF Counts
    <3>3. stacks[v] = << >> /\ DOMAIN calls = {}
      BY <1>2
    <3>4. QED
      BY <3>2, <3>3
  <2>3. \A k \in 1..Len(calls) : calls'[k][1] = calls[k][1]
    BY <2>1
  <2>4. deleted \in SUBSET PlacesOf(func)
    BY <1>2
  <2>5. /\ Len(calls') = Len(calls) + 1 /\ calls'[Len(calls) + 1][1] = Entry
        /\ Entered(Live, Doms, calls') = {} \cup {Entry}
        /\ Called(calls') = Called(calls) \cup {Entry}
    BY <1>7, <2>1
  <2>6. Typed' /\ Walked'
    <3>1. \A c \in {} \ Called(calls) : WaitDelete(c) \subseteq deleted
      OBVIOUS
    <3>2. QED
      BY <1>3, <1>4, <1>5, <1>7, <1>9, <2>1, <2>2, <2>3, <2>4, <2>5, <3>1, Descends
  <2>7. calls' # << >>
    BY <1>7
  <2>8. QED
    BY <1>8, <1>9, <2>6, <2>7 DEF MInv
<1>10. CASE phase' # "rename"
  <2>1. phase' \in {"aborted", "undefined"} /\ SomeUnset
    BY <1>5, <1>10 DEF Entering
  <2>2. Typed'
    BY <1>2, <1>3, <1>5, TypedNext DEF Entering
  <2>3. SomeUnset'
    BY <1>3, <2>1, SameSets
  <2>4. QED
    BY <1>8, <2>1, <2>2, <2>3 DEF MInv
<1>11. QED
  BY <1>9, <1>10

\* Before the call on a child of the innermost call's block.
LEMMA ChildReady ==
    ASSUME Prepared, Typed, calls # << >>, Walked, NEW c \in Last(calls)[2],
           calls' = Append(Append(Front(calls), <<Last(calls)[1], Last(calls)[2] \ {c}>>),
                           <<c, dominators.tree[c]>>),
           NEW E, E = Entered(Live, Doms, calls), NEW N, N = Len(calls)
    PROVE  /\ Ready(E, c) /\ OperandsFit(E, pairs) /\ pairs \in Operandss
           /\ CallsFit(Live, Doms, calls') /\ Entered(Live, Doms, calls') = E \cup {c}
           /\ Called(calls') = Called(calls) \cup {c}
           /\ N \in Nat \ {0} /\ DOMAIN calls = 1..N
           /\ Len(calls') = N + 1 /\ calls'[N + 1][1] = c
           /\ \A k \in 1..N : calls'[k][1] = calls[k][1]
           /\ calls[N][1] \in Live /\ c \in ChildrenOf(Doms, calls[N][1])
<1>1. Sound(func) /\ PhisFit /\ IsTree(Live, Doms) /\ Live \subseteq Blocks(func)
  BY SoundFacts DEF Prepared, Live, Doms
<1>2. calls \in Seq(Live \X SUBSET Live)
  BY DEF Walked, CallsFit
<1>3. /\ CallsFit(Live, Doms, calls) /\ StacksFit(calls, stacks)
      /\ ValuesFit(E, stacks, known, replacement) /\ OperandsFit(E, pairs)
      /\ TopsFit(stacks, known)
      /\ \A b \in E \ Called(calls) : WaitDelete(b) \subseteq deleted
  BY DEF Walked, Cleaned
<1>4. /\ c \in Live /\ c \notin E /\ N \in DOMAIN calls
      /\ calls[N][1] \in Live /\ c \in ChildrenOf(Doms, calls[N][1])
      /\ Doms[c] \subseteq E \cup {c}
  BY <1>1, <1>3, NextChild
<1>5. dominators.tree[c] = ChildrenOf(Doms, c) /\ ChildrenOf(Doms, c) \in SUBSET Live
  <2>1. DOMAIN Doms = Live
    BY <1>1 DEF IsTree
  <2>2. ChildrenOf(Doms, c) \in SUBSET Live
    BY <2>1 DEF ChildrenOf
  <2>3. QED
    BY <1>4, <2>2 DEF Prepared
<1>6. /\ calls' \in Seq(Live \X SUBSET Live)
      /\ IsDeeper(calls, c, ChildrenOf(Doms, c), calls')
  <2>1. calls \in Seq(Live \X SUBSET Live)
    BY <1>3 DEF CallsFit
  <2>2. LET new == Append(Append(Front(calls), <<Last(calls)[1], Last(calls)[2] \ {c}>>),
                          <<c, ChildrenOf(Doms, c)>>)
        IN  IsDeeper(calls, c, ChildrenOf(Doms, c), new) /\ new \in Seq(Live \X SUBSET Live)
    BY <1>4, <1>5, <2>1, DeeperIs
  <2>3. QED
    BY <1>5, <2>2
<1>7. /\ CallsFit(Live, Doms, calls')
      /\ Entered(Live, Doms, calls') = E \cup {c}
      /\ Called(calls') = Called(calls) \cup {c}
  <2>1. IsTree(Live, Doms) /\ CallsFit(Live, Doms, calls) /\ calls # << >> /\ c \in Last(calls)[2]
    BY <1>1, <1>3
  <2>2. /\ CallsFit(Live, Doms, calls')
        /\ Entered(Live, Doms, calls') = Entered(Live, Doms, calls) \cup {c}
        /\ Called(calls') = Called(calls) \cup {c}
    <3>1. IsDeepened(Live, Doms, calls, c, calls')
      BY <1>6, <2>1, CallsDeepen
    <3>2. QED
      BY <3>1 DEF IsDeepened
  <2>3. QED
    BY <2>2
<1>8. /\ N \in Nat \ {0} /\ DOMAIN calls = 1..N
      /\ Len(calls') = N + 1 /\ calls'[N + 1][1] = c
      /\ \A k \in 1..N : calls'[k][1] = calls[k][1]
  <2>1. /\ N \in Nat \ {0} /\ DOMAIN calls = 1..N
        /\ Len(calls') = N + 1 /\ calls'[N + 1] = <<c, ChildrenOf(Doms, c)>>
        /\ \A k \in 1..N : calls'[k][1] = calls[k][1]
    BY <1>6, Zenon DEF IsDeeper
  <2>2. QED
    BY <2>1
<1>9. ASSUME NEW v \in Allocas, NEW j \in DOMAIN stacks[v]
       PROVE  HomeOf(stacks[v][j]) \in Doms[c]
  <2>1. /\ Len(stacks[v]) = Pushed(calls, v)[N]
        /\ j <= Pushed(calls, v)[N] => HomeOf(stacks[v][j]) \in Doms[calls[N][1]]
    BY <1>3, <1>4 DEF StacksFit
  <2>2. j <= Len(stacks[v])
    <3>1. stacks[v] \in Seq(Values)
      BY DEF Typed
    <3>2. DOMAIN stacks[v] = 1..Len(stacks[v])
      BY <3>1, LenProperties
    <3>3. QED
      BY <3>2
  <2>3. HomeOf(stacks[v][j]) \in Doms[calls[N][1]]
    BY <2>1, <2>2
  <2>4. Doms[c] = Doms[calls[N][1]] \cup {c}
    BY <1>1, <1>4, ChildFacts
  <2>5. QED
    BY <2>3, <2>4
<1>10. Ready(E, c)
  BY <1>1, <1>3, <1>4, <1>9 DEF Ready, Typed
<1>11. pairs \in Operandss
  BY DEF Typed
<1>12. QED
  BY <1>3, <1>4, <1>7, <1>8, <1>10, <1>11

\* The call on a child.
LEMMA ChildKeeps ==
    ASSUME phase = "rename", Prepared, Typed, calls # << >>, Walked, EnterChild
    PROVE  MInv'
<1>1. Sound(func) /\ PhisFit /\ IsTree(Live, Doms) /\ Live \subseteq Blocks(func)
  BY SoundFacts DEF Prepared, Live, Doms
<1>2. PICK c \in Last(calls)[2] :
         /\ Enter(c)
         /\ calls' = Append(Append(Front(calls), <<Last(calls)[1], Last(calls)[2] \ {c}>>),
                            <<c, dominators.tree[c]>>)
  BY DEF EnterChild
<1>3. func' = func /\ phis' = phis /\ dominators' = dominators /\ deleted' = deleted
  BY DEF EnterChild
<1> DEFINE E == Entered(Live, Doms, calls)
           N == Len(calls)
<1>4. /\ Ready(E, c) /\ OperandsFit(E, pairs) /\ pairs \in Operandss
      /\ CallsFit(Live, Doms, calls') /\ Entered(Live, Doms, calls') = E \cup {c}
      /\ Called(calls') = Called(calls) \cup {c}
      /\ N \in Nat \ {0} /\ DOMAIN calls = 1..N
      /\ Len(calls') = N + 1 /\ calls'[N + 1][1] = c
      /\ \A k \in 1..N : calls'[k][1] = calls[k][1]
  BY <1>2, ChildReady
<1>5. /\ CallsFit(Live, Doms, calls) /\ StacksFit(calls, stacks)
      /\ \A b \in E \ Called(calls) : WaitDelete(b) \subseteq deleted
  BY DEF Walked, Cleaned
<1>6. Entering(E, c)
  BY <1>2, <1>4, EnterFits
<1> HIDE DEF E
<1>7. Prepared'
  BY <1>3, PreparedNext
<1>8. CASE phase' = "rename"
  <2>1. Typed' /\ Walked'
    BY <1>3, <1>4, <1>5, <1>6, <1>8, Descends DEF Typed, N
  <2>2. calls' # << >>
    BY <1>4
  <2>3. QED
    BY <1>7, <1>8, <2>1, <2>2 DEF MInv
<1>9. CASE phase' # "rename"
  <2>1. phase' \in {"aborted", "undefined"} /\ SomeUnset
    BY <1>6, <1>9 DEF Entering
  <2>2. Typed'
    BY <1>3, <1>6, TypedNext DEF Entering, Typed
  <2>3. SomeUnset'
    BY <1>3, <2>1, SameSets
  <2>4. QED
    BY <1>7, <2>1, <2>2, <2>3 DEF MInv
<1>10. QED
  BY <1>8, <1>9

\* What the end of a call takes from the stack of v.
LEMMA LeavePops ==
    ASSUME Prepared, Typed, calls # << >>, Walked, Leave, NEW v \in Allocas,
           NEW N, N = Len(calls), NEW b, b = Last(calls)[1]
    PROVE  /\ Pops(b, v) \in Nat
           /\ Len(stacks[v]) = Pushed(calls, v)[N]
           /\ Pushed(calls, v)[N] = Pushed(calls, v)[N - 1] + Pops(b, v)
           /\ \A k \in 0..(N - 1) : /\ Pushed(calls', v)[k] = Pushed(calls, v)[k]
                                    /\ Pushed(calls', v)[k] \in Nat
           /\ N > 1 => Pushed(calls', v)[N - 1] >= Pops(Entry, v)
           /\ stacks'[v] \in Seq(Values)
           /\ Len(stacks'[v]) = Pushed(calls', v)[N - 1]
           /\ DOMAIN stacks'[v] = 1..Pushed(calls', v)[N - 1]
           /\ \A j \in DOMAIN stacks'[v] : j \in DOMAIN stacks[v] /\ stacks'[v][j] = stacks[v][j]
<1> DEFINE E == Entered(Live, Doms, calls)
<1>1. Sound(func) /\ PhisFit /\ IsTree(Live, Doms) /\ Live \subseteq Blocks(func)
  BY SoundFacts DEF Prepared, Live, Doms
<1>2. /\ func' = func /\ phis' = phis /\ dominators' = dominators
      /\ known' = known /\ replacement' = replacement /\ pairs' = pairs
      /\ stacks' = [w \in DOMAIN stacks |-> SubSeq(stacks[w], 1, Len(stacks[w]) - Pops(b, w))]
      /\ deleted' = deleted \cup WaitDelete(b) \cup (IF N = 1 THEN Allocas ELSE {})
      /\ calls' = Front(calls) /\ Last(calls)[2] = {}
      /\ phase' = IF N = 1 THEN "done" ELSE phase
  BY DEF Leave
<1>3. /\ CallsFit(Live, Doms, calls) /\ StacksFit(calls, stacks)
      /\ ValuesFit(E, stacks, known, replacement) /\ OperandsFit(E, pairs)
      /\ TopsFit(stacks, known)
      /\ \A c \in E \ Called(calls) : WaitDelete(c) \subseteq deleted
  BY DEF Walked, Cleaned
<1>4. /\ N \in Nat \ {0} /\ DOMAIN calls = 1..N /\ Len(calls') = N - 1
      /\ DOMAIN calls' = 1..(N - 1) /\ \A k \in 1..(N - 1) : calls'[k] = calls[k]
      /\ Last(calls) = calls[N]
  <2>1. calls \in Seq(Live \X SUBSET Live)
    BY <1>3 DEF CallsFit
  <2>2. QED
    BY <1>2, <2>1, FrontIs
<1>5. /\ CallsFit(Live, Doms, calls') /\ Entered(Live, Doms, calls') = E
      /\ Called(calls) \subseteq Called(calls') \cup {b} /\ b \in Live
  BY <1>1, <1>2, <1>3, CallsReturn
<1> HIDE DEF E
<1>6. /\ Pops(b, v) \in Nat
      /\ Len(stacks[v]) = Pushed(calls, v)[N]
      /\ Pushed(calls, v)[N] = Pushed(calls, v)[N - 1] + Pops(b, v)
      /\ \A k \in 0..(N - 1) : /\ Pushed(calls', v)[k] = Pushed(calls, v)[k]
                               /\ Pushed(calls', v)[k] \in Nat
      /\ N > 1 => Pushed(calls', v)[N - 1] >= Pops(Entry, v)
  <2> DEFINE P == Pushed(calls, v)
             Q == Pushed(calls', v)
  <2>1. /\ Len(calls) \in Nat /\ Counts(P, calls, v)
        /\ \A n \in 1..Len(calls) : Pops(calls[n][1], v) \in Nat
    BY <1>1, <1>3, CallCounts
  <2>2. /\ Len(calls') \in Nat /\ Counts(Q, calls', v)
        /\ \A n \in 1..Len(calls') : Pops(calls'[n][1], v) \in Nat
    BY <1>1, <1>5, CallCounts
  <2>3. Len(stacks[v]) = P[N]
    BY <1>3 DEF StacksFit
  <2> HIDE DEF P, Q
  <2>4. Pops(b, v) \in Nat
    BY <1>4, <2>1
  <2>5. P[N] = P[N - 1] + Pops(b, v)
    <3>1. N \in 1..Len(calls)
      BY <1>4
    <3>2. P[N] = P[N - 1] + Pops(calls[N][1], v)
      BY <2>1, <3>1, Zenon DEF Counts
    <3>3. QED
      BY <1>4, <3>2
  <2>6. \A k \in 0..(N - 1) : Q[k] = P[k]
    <3> DEFINE m == Len(calls')
    <3>1. m \in Nat /\ m <= Len(calls) /\ m <= Len(calls')
      BY <1>4, <2>2
    <3>2. \A k \in 1..m : calls'[k][1] = calls[k][1]
      BY <1>4
    <3>3. m = N - 1
      BY <1>4
    <3> HIDE DEF m
    <3>4. \A k \in 0..m : Q[k] = P[k]
      BY <2>1, <2>2, <3>1, <3>2, SameCounts, SMTT(30)
    <3>5. QED
      BY <3>3, <3>4
  <2>7. \A k \in 0..(N - 1) : Q[k] \in Nat
    BY <1>4, <2>2 DEF Counts
  <2>8. N > 1 => Q[N - 1] >= Pops(Entry, v)
    <3> SUFFICES ASSUME N > 1
                 PROVE  Q[N - 1] >= Pops(Entry, v)
      OBVIOUS
    <3>1. \A k \in 1..Len(calls') : Q[k] >= Pops(calls'[1][1], v)
      BY <2>2, FirstCounts
    <3>2. N - 1 \in 1..Len(calls')
      BY <1>4
    <3>3. calls' # << >>
      BY <1>4
    <3>4. calls'[1][1] = Entry
      BY <1>5, <3>3 DEF CallsFit
    <3>5. QED
      BY <3>1, <3>2, <3>4
  <2>9. QED
    BY <2>3, <2>4, <2>5, <2>6, <2>7, <2>8 DEF P, Q
<1>7. /\ stacks'[v] \in Seq(Values)
      /\ Len(stacks'[v]) = Pushed(calls', v)[N - 1]
      /\ DOMAIN stacks'[v] = 1..Pushed(calls', v)[N - 1]
      /\ \A j \in DOMAIN stacks'[v] : j \in DOMAIN stacks[v] /\ stacks'[v][j] = stacks[v][j]
  <2>1. stacks[v] \in Seq(Values) /\ DOMAIN stacks = Allocas
    BY DEF Typed
  <2>2. stacks'[v] = SubSeq(stacks[v], 1, Len(stacks[v]) - Pops(b, v))
    BY <1>2, <2>1
  <2>3. /\ Pops(b, v) \in Nat /\ Len(stacks[v]) = Pushed(calls', v)[N - 1] + Pops(b, v)
        /\ Pushed(calls', v)[N - 1] \in Nat
    <3>1. N - 1 \in 0..(N - 1)
      BY <1>4
    <3>2. QED
      BY <1>6, <3>1
  <2> DEFINE m == Len(stacks[v]) - Pops(b, v)
  <2>4. m \in 0..Len(stacks[v]) /\ m = Pushed(calls', v)[N - 1]
    BY <2>3
  <2>5. DOMAIN stacks[v] = 1..Len(stacks[v]) /\ Len(stacks[v]) \in Nat
    BY <2>1, LenProperties
  <2>6. \A j \in 1..m : j \in DOMAIN stacks[v]
    BY <2>4, <2>5
  <2>7. stacks'[v] = SubSeq(stacks[v], 1, m)
    BY <2>2
  <2> HIDE DEF m
  <2>8. /\ SubSeq(stacks[v], 1, m) \in Seq(Values) /\ Len(SubSeq(stacks[v], 1, m)) = m
        /\ DOMAIN SubSeq(stacks[v], 1, m) = 1..m
        /\ \A k \in 1..m : SubSeq(stacks[v], 1, m)[k] = stacks[v][k]
    BY <2>1, <2>4, PrefixIs
  <2>9. QED
    BY <2>4, <2>6, <2>7, <2>8
<1>8. QED
  BY <1>6, <1>7

\* The end of a call.
LEMMA LeaveKeeps ==
    ASSUME phase = "rename", Prepared, Typed, calls # << >>, Walked, Leave
    PROVE  MInv'
<1> DEFINE b == Last(calls)[1]
           N == Len(calls)
           E == Entered(Live, Doms, calls)
<1>1. Sound(func) /\ PhisFit /\ IsTree(Live, Doms) /\ Live \subseteq Blocks(func)
  BY SoundFacts DEF Prepared, Live, Doms
<1>2. /\ func' = func /\ phis' = phis /\ dominators' = dominators
      /\ known' = known /\ replacement' = replacement /\ pairs' = pairs
      /\ stacks' = [v \in DOMAIN stacks |-> SubSeq(stacks[v], 1, Len(stacks[v]) - Pops(b, v))]
      /\ deleted' = deleted \cup WaitDelete(b) \cup (IF N = 1 THEN Allocas ELSE {})
      /\ calls' = Front(calls) /\ Last(calls)[2] = {}
      /\ phase' = IF N = 1 THEN "done" ELSE phase
  BY DEF Leave
<1>3. /\ CallsFit(Live, Doms, calls) /\ StacksFit(calls, stacks)
      /\ ValuesFit(E, stacks, known, replacement) /\ OperandsFit(E, pairs)
      /\ TopsFit(stacks, known)
      /\ \A c \in E \ Called(calls) : WaitDelete(c) \subseteq deleted
  BY DEF Walked, Cleaned
<1>4. /\ N \in Nat \ {0} /\ DOMAIN calls = 1..N /\ Len(calls') = N - 1
      /\ DOMAIN calls' = 1..(N - 1) /\ \A k \in 1..(N - 1) : calls'[k] = calls[k]
      /\ Last(calls) = calls[N]
  <2>1. calls \in Seq(Live \X SUBSET Live)
    BY <1>3 DEF CallsFit
  <2>2. QED
    BY <1>2, <2>1, FrontIs
<1>5. /\ CallsFit(Live, Doms, calls') /\ Entered(Live, Doms, calls') = E
      /\ Called(calls) \subseteq Called(calls') \cup {b} /\ b \in Live
  BY <1>1, <1>2, <1>3, CallsReturn
<1>6. Prepared'
  BY <1>2, PreparedNext
<1> HIDE DEF b, N, E
<1>7. ASSUME NEW v \in Allocas
      PROVE  /\ Pops(b, v) \in Nat
             /\ Len(stacks[v]) = Pushed(calls, v)[N]
             /\ Pushed(calls, v)[N] = Pushed(calls, v)[N - 1] + Pops(b, v)
             /\ \A k \in 0..(N - 1) : /\ Pushed(calls', v)[k] = Pushed(calls, v)[k]
                                      /\ Pushed(calls', v)[k] \in Nat
             /\ N > 1 => Pushed(calls', v)[N - 1] >= Pops(Entry, v)
  BY LeavePops DEF N, b
<1>8. ASSUME NEW v \in Allocas
      PROVE  /\ stacks'[v] \in Seq(Values)
             /\ Len(stacks'[v]) = Pushed(calls', v)[N - 1]
             /\ DOMAIN stacks'[v] = 1..Pushed(calls', v)[N - 1]
             /\ \A j \in DOMAIN stacks'[v] : j \in DOMAIN stacks[v] /\ stacks'[v][j] = stacks[v][j]
  BY LeavePops DEF N, b
<1>9. StacksFit(calls', stacks')
  <2> SUFFICES ASSUME NEW v \in Allocas
               PROVE  /\ Len(stacks'[v]) = Pushed(calls', v)[Len(calls')]
                      /\ \A n \in DOMAIN calls' : \A j \in DOMAIN stacks'[v] :
                            j <= Pushed(calls', v)[n]
                               => HomeOf(stacks'[v][j]) \in Doms[calls'[n][1]]
    BY DEF StacksFit
  <2>1. Len(stacks'[v]) = Pushed(calls', v)[Len(calls')]
    BY <1>4, <1>8
  <2>2. ASSUME NEW n \in DOMAIN calls', NEW j \in DOMAIN stacks'[v], j <= Pushed(calls', v)[n]
        PROVE  HomeOf(stacks'[v][j]) \in Doms[calls'[n][1]]
    <3>1. n \in DOMAIN calls /\ n \in 0..(N - 1) /\ calls'[n] = calls[n]
      BY <1>4
    <3>2. j <= Pushed(calls, v)[n]
      BY <1>7, <2>2, <3>1
    <3>3. j \in DOMAIN stacks[v] /\ stacks'[v][j] = stacks[v][j]
      BY <1>8
    <3>4. HomeOf(stacks[v][j]) \in Doms[calls[n][1]]
      BY <1>3, <3>1, <3>2, <3>3 DEF StacksFit
    <3>5. QED
      BY <3>1, <3>3, <3>4
  <2>3. QED
    BY <2>1, <2>2
<1>10. ValuesFit(E, stacks', known', replacement') /\ OperandsFit(E, pairs')
  <2>1. \A v \in Allocas : \A j \in DOMAIN stacks'[v] : Final(E, replacement, stacks'[v][j])
    BY <1>3, <1>8 DEF ValuesFit
  <2>2. ValuesFit(E, stacks', known, replacement)
    BY <1>3, <2>1 DEF ValuesFit
  <2>3. QED
    BY <1>2, <1>3, <2>2
<1>11. calls' # << >> => TopsFit(stacks', known')
  <2> SUFFICES ASSUME calls' # << >>, NEW v \in known, Entry \in StoringBlocks(v)
               PROVE  stacks'[v] # << >>
    BY <1>2 DEF TopsFit
  <2>1. v \in Allocas
    BY DEF Typed
  <2>2. N > 1
    <3>1. N # 1
      <4> SUFFICES ASSUME N = 1
                   PROVE  FALSE
        OBVIOUS
      <4>1. calls' \in Seq(Live \X SUBSET Live)
        BY <1>5 DEF CallsFit
      <4>2. Len(calls') = 0
        BY <1>4
      <4>3. QED
        BY <4>1, <4>2, EmptySeq
    <3>2. QED
      BY <1>4, <3>1
  <2>3. Pops(Entry, v) >= 1 /\ Pops(Entry, v) \in Nat
    <3>1. Entry \in Blocks(func)
      BY <1>1, SoundFacts
    <3>2. /\ Pops(Entry, v) = StoresTo(Entry, v, Len(func.code[Entry])) + PhisOf(Entry, v)
          /\ StoresTo(Entry, v, Len(func.code[Entry])) >= 1
      BY <1>1, <2>1, <3>1, StoresCount
    <3>3. \A k \in Nat : StoresTo(Entry, v, k) \in Nat
      BY <1>1, <3>1, StoresCount, Zenon
    <3>4. StoresTo(Entry, v, Len(func.code[Entry])) \in Nat
      <4>1. Len(func.code[Entry]) \in Nat
        BY <1>1, <3>1, SoundFacts
      <4>2. QED
        BY <3>3, <4>1
    <3>5. PhisOf(Entry, v) \in Nat
      BY <1>1, <3>1, PhisCount
    <3>6. QED
      BY <3>2, <3>4, <3>5
  <2>4. Len(stacks'[v]) >= 1 /\ Len(stacks'[v]) \in Nat
    <3>1. N - 1 \in 0..(N - 1)
      BY <1>4
    <3>2. Pushed(calls', v)[N - 1] >= Pops(Entry, v) /\ Pushed(calls', v)[N - 1] \in Nat
      BY <1>7, <2>1, <2>2, <3>1
    <3>3. Len(stacks'[v]) = Pushed(calls', v)[N - 1]
      BY <1>8, <2>1
    <3>4. QED
      BY <2>3, <3>2, <3>3
  <2>5. QED
    BY <2>4
<1>12. WaitDelete(b) \subseteq PlacesOf(func)
  <2>1. DOMAIN replacement \subseteq PlacesOf(func)
    BY DEF Typed, Replacements, LocalLoads
  <2>2. \A k \in DOMAIN func.code[b] : <<b, k>> \in PlacesOf(func)
    BY <1>1, <1>5, PlaceIs
  <2>3. QED
    BY <2>1, <2>2 DEF WaitDelete
<1>13. Typed'
  <2>1. stacks' \in [Allocas -> Seq(Values)]
    <3>1. DOMAIN stacks = Allocas
      BY DEF Typed
    <3>2. stacks' = [v \in Allocas |-> stacks'[v]]
      BY <1>2, <3>1
    <3>3. QED
      BY <1>8, <3>2
  <2>2. deleted' \in SUBSET PlacesOf(func)
    BY <1>2, <1>12 DEF Typed, Allocas
  <2>3. QED
    BY <1>2, <2>1, <2>2, TypedNext DEF Typed
<1>14. Walked'
  <2>1. ASSUME NEW c \in E \ Called(calls')
        PROVE  WaitDelete(c)' \subseteq deleted'
    <3>1. WaitDelete(c)' = WaitDelete(c)
      BY <1>2, Zenon DEF WaitDelete, IsLocalAccess, InstrAt
    <3>2. c = b \/ c \notin Called(calls)
      BY <1>5, <2>1
    <3>3. WaitDelete(c) \subseteq deleted \cup WaitDelete(b)
      BY <1>3, <2>1, <3>2
    <3>4. QED
      BY <1>2, <3>1, <3>3
  <2>2. QED
    BY <1>2, <1>5, <1>9, <1>10, <1>11, <2>1, WalkedNext
<1>15. CASE N = 1
  <2>1. phase' = "done" /\ Allocas' \subseteq deleted'
    BY <1>2, <1>15, SameSets
  <2>2. calls' = << >>
    <3>1. calls' \in Seq(Live \X SUBSET Live)
      BY <1>5 DEF CallsFit
    <3>2. Len(calls') = 0
      BY <1>4, <1>15
    <3>3. QED
      BY <3>1, <3>2, EmptySeq
  <2>3. QED
    BY <1>6, <1>13, <1>14, <2>1, <2>2 DEF MInv
<1>16. CASE N # 1
  <2>1. phase' = "rename"
    BY <1>2, <1>16
  <2>2. calls' # << >>
    BY <1>4, <1>16
  <2>3. QED
    BY <1>6, <1>13, <1>14, <2>1, <2>2 DEF MInv
<1>17. QED
  BY <1>15, <1>16

-----------------------------------------------------------------------------
(* The steps that place the phis.                                          *)

\* A finite set in some order.
LEMMA SetToSeqIs ==
    ASSUME NEW S, IsFiniteSet(S)
    PROVE  /\ Cardinality(S) \in Nat
           /\ \A k \in 1..Cardinality(S) : SetToSeq(S)[k] \in S
<1>1. Cardinality(S) \in Nat /\ ExistsBijection(1..Cardinality(S), S)
  BY FS_CardinalityType
<1>2. PICK f : f \in Bijection(1..Cardinality(S), S)
  BY <1>1 DEF ExistsBijection
<1>3. f \in [1..Cardinality(S) -> S] /\ IsInjective(f)
  BY <1>2 DEF Bijection, Injection
<1>4. SetToSeq(S) \in [1..Cardinality(S) -> S]
  BY <1>3 DEF SetToSeq
<1>5. QED
  BY <1>1, <1>4

\* The blocks of a finite set, each with v.
LEMMA WorkIs ==
    ASSUME WellFormed(func), NEW S \in SUBSET Blocks(func), NEW v \in Allocas
    PROVE  [k \in 1..Cardinality(S) |-> <<SetToSeq(S)[k], v>>] \in Seq(Blocks(func) \X Allocas)
<1>1. IsFiniteSet(S)
  <2>1. Blocks(func) = 1..Len(func.code) /\ Len(func.code) \in Nat
    BY BlocksFacts
  <2>2. IsFiniteSet(Blocks(func))
    BY <2>1, FS_Interval
  <2>3. QED
    BY <2>2, FS_Subset
<1>2. Cardinality(S) \in Nat /\ \A k \in 1..Cardinality(S) : SetToSeq(S)[k] \in S
  BY <1>1, SetToSeqIs
<1> DEFINE n == Cardinality(S)
           s == [k \in 1..n |-> <<SetToSeq(S)[k], v>>]
<1>3. n \in Nat /\ \A k \in 1..n : <<SetToSeq(S)[k], v>> \in Blocks(func) \X Allocas
  BY <1>2
<1> HIDE DEF n
<1>4. s \in [1..n -> Blocks(func) \X Allocas]
  BY <1>3
<1>5. s \in Seq(Blocks(func) \X Allocas)
  BY <1>3, <1>4, SeqDef
<1>6. QED
  BY <1>5 DEF n

\* The phis of the next variable.
LEMMA TakeKeeps ==
    ASSUME phase = "place", Prepared, Placing, TakeVariable
    PROVE  MInv'
<1>1. WellFormed(func)
  BY SoundFacts DEF Prepared
<1> DEFINE v == CHOOSE x \in vars_left : TRUE
<1>2. v \in vars_left
  BY DEF TakeVariable
<1>3. /\ work_list' = [k \in 1..Cardinality(StoringBlocks(v)) |->
                          <<SetToSeq(StoringBlocks(v))[k], v>>]
      /\ vars_left' = vars_left \ {v} /\ worked' = 0
      /\ UNCHANGED <<func, phase, dominators, phis, pairs, stacks, known, calls, replacement,
                     deleted>>
  BY DEF TakeVariable
<1> HIDE DEF v
<1>4. v \in Allocas /\ StoringBlocks(v) \in SUBSET Blocks(func)
  BY <1>2 DEF Placing, StoringBlocks
<1>5. work_list' \in Seq(Blocks(func) \X Allocas)
  BY <1>1, <1>3, <1>4, WorkIs
<1>6. Prepared'
  BY <1>3, PreparedNext
<1>7. Allocas' = Allocas /\ PhiPlaces' = PhiPlaces /\ Blocks(func)' = Blocks(func)
  BY <1>3, SameSets
<1>8. worked' \in 0..Len(work_list')
  <2>1. Len(work_list') \in Nat
    BY <1>5, LenProperties
  <2>2. worked' = 0
    BY <1>3
  <2>3. QED
    BY <2>1, <2>2
<1>9. vars_left' \in SUBSET Allocas
  BY <1>3 DEF Placing
<1>10. Placing'
  BY <1>3, <1>5, <1>7, <1>8, <1>9 DEF Placing
<1>11. QED
  BY <1>3, <1>6, <1>10 DEF MInv

\* One block of the work list.
LEMMA PlaceKeeps ==
    ASSUME phase = "place", Prepared, Placing, PlacePhis
    PROVE  MInv'
<1> DEFINE b == work_list[worked + 1][1]
           v == work_list[worked + 1][2]
           new == {y \in dominators.frontier[b] : ~Contains(phis[y], v)}
           more == [k \in 1..Cardinality(new) |-> <<SetToSeq(new)[k], v>>]
<1>1. /\ worked < Len(work_list)
      /\ phis' = [y \in Blocks(func) |-> IF y \in new THEN <<v>> \o phis[y] ELSE phis[y]]
      /\ pairs' = [p \in DOMAIN pairs \cup {PhiOf(y, v) : y \in new} |-> << >>]
      /\ work_list' = work_list \o more
      /\ worked' = worked + 1
      /\ UNCHANGED <<func, phase, dominators, vars_left, stacks, known, calls, replacement,
                     deleted>>
  BY Zenon DEF PlacePhis
<1>2. WellFormed(func) /\ PhisFit
  BY SoundFacts DEF Prepared
<1>3. /\ work_list \in Seq(Blocks(func) \X Allocas) /\ worked \in 0..Len(work_list)
      /\ Len(work_list) \in Nat
  BY LenProperties DEF Placing
<1>4. b \in Blocks(func) /\ v \in Allocas
  <2>1. worked + 1 \in 1..Len(work_list)
    <3>1. worked < Len(work_list)
      BY <1>1, Zenon
    <3>2. worked \in 0..Len(work_list) /\ Len(work_list) \in Nat
      BY <1>3
    <3>3. QED
      BY <3>1, <3>2
  <2>2. work_list[worked + 1] \in Blocks(func) \X Allocas
    BY <1>3, <2>1, ElementOfSeq
  <2>3. QED
    BY <2>2
<1> HIDE DEF b, v
<1>5. new \in SUBSET Blocks(func)
  BY <1>4 DEF Prepared
<1>6. \A y \in new : ~Contains(phis[y], v)
  OBVIOUS
<1> HIDE DEF new
<1>7. more \in Seq(Blocks(func) \X Allocas)
  BY <1>2, <1>4, <1>5, WorkIs
<1> HIDE DEF more
<1>8. work_list' \in Seq(Blocks(func) \X Allocas) /\ worked' \in 0..Len(work_list')
  <2>1. /\ work_list \o more \in Seq(Blocks(func) \X Allocas)
        /\ Len(work_list \o more) = Len(work_list) + Len(more) /\ Len(more) \in Nat
    BY <1>3, <1>7, ConcatProperties, LenProperties
  <2>2. QED
    BY <1>1, <1>3, <2>1
<1>9. ASSUME NEW y \in new
      PROVE  /\ phis'[y] \in Seq(Allocas) /\ NoRepeats(phis'[y])
             /\ ToSet(phis'[y]) = ToSet(phis[y]) \cup {v}
  <2> DEFINE s == phis[y]
             t == <<v>> \o s
  <2>1. s \in Seq(Allocas) /\ NoRepeats(s) /\ y \in Blocks(func)
    BY <1>2, <1>5 DEF PhisFit
  <2>2. ~Contains(s, v)
    BY <1>6
  <2>3. phis'[y] = t
    BY <1>1, <2>1
  <2> HIDE DEF s
  <2>4. Len(s) \in Nat /\ DOMAIN s = 1..Len(s)
    BY <2>1, LenProperties
  <2>5. <<v>> \in Seq(Allocas) /\ Len(<<v>>) = 1 /\ <<v>>[1] = v
    BY <1>4
  <2>6. /\ t \in Seq(Allocas) /\ Len(t) = 1 + Len(s)
        /\ \A k \in 1..Len(t) : t[k] = IF k <= 1 THEN <<v>>[k] ELSE s[k - 1]
    BY <2>1, <2>5, ConcatProperties
  <2> HIDE DEF t
  <2>7. DOMAIN t = 1..(Len(s) + 1)
    BY <2>4, <2>6, LenProperties
  <2>8. t[1] = v /\ \A k \in 2..(Len(s) + 1) : t[k] = s[k - 1] /\ k - 1 \in DOMAIN s
    BY <2>4, <2>5, <2>6
  <2>9. \A k \in DOMAIN s : s[k] # v
    BY <2>2, <2>4 DEF Contains
  <2>10. NoRepeats(t)
    <3> SUFFICES ASSUME NEW j \in DOMAIN t, NEW k \in DOMAIN t, t[j] = t[k]
                 PROVE  j = k
      BY DEF NoRepeats
    <3>1. (j = 1 \/ j \in 2..(Len(s) + 1)) /\ (k = 1 \/ k \in 2..(Len(s) + 1))
      BY <2>4, <2>7
    <3>2. CASE j \in 2..(Len(s) + 1) /\ k \in 2..(Len(s) + 1)
      <4>1. s[j - 1] = s[k - 1] /\ j - 1 \in DOMAIN s /\ k - 1 \in DOMAIN s
        BY <2>8, <3>2
      <4>2. j - 1 = k - 1
        BY <2>1, <4>1 DEF NoRepeats
      <4>3. QED
        BY <2>4, <3>2, <4>2
    <3>3. QED
      BY <2>8, <2>9, <3>1, <3>2
  <2>11. ToSet(t) = ToSet(s) \cup {v}
    <3>1. \A x \in ToSet(t) : x \in ToSet(s) \/ x = v
      <4> SUFFICES ASSUME NEW k \in DOMAIN t
                   PROVE  t[k] = v \/ \E m \in DOMAIN s : s[m] = t[k]
        BY DEF ToSet
      <4>1. k = 1 \/ k \in 2..(Len(s) + 1)
        BY <2>4, <2>7
      <4>2. QED
        BY <2>8, <4>1
    <3>2. v \in ToSet(t)
      <4>1. 1 \in DOMAIN t
        BY <2>4, <2>7
      <4>2. QED
        BY <2>8, <4>1 DEF ToSet
    <3>3. \A k \in DOMAIN s : s[k] \in ToSet(t)
      <4> SUFFICES ASSUME NEW k \in DOMAIN s
                   PROVE  s[k] \in ToSet(t)
        OBVIOUS
      <4>1. k + 1 \in 2..(Len(s) + 1) /\ (k + 1) - 1 = k /\ k + 1 \in DOMAIN t
        BY <2>4, <2>7
      <4>2. t[k + 1] = s[k]
        BY <2>8, <4>1
      <4>3. QED
        BY <4>1, <4>2 DEF ToSet
    <3>4. \A x \in ToSet(s) : x \in ToSet(t)
      BY <3>3 DEF ToSet
    <3>5. QED
      BY <3>1, <3>2, <3>4
  <2>12. QED
    BY <2>3, <2>6, <2>10, <2>11 DEF s
<1>10. \A y \in Blocks(func) : y \notin new => phis'[y] = phis[y]
  BY <1>1
<1>11. Allocas' = Allocas /\ Blocks(func)' = Blocks(func) /\ Live' = Live /\ Doms' = Doms
  <2>1. Allocas' = Allocas
    BY <1>1 DEF Allocas, PlacesOf, InstrAt
  <2>2. QED
    BY <1>1, <2>1 DEF Live, Doms
<1>12. PhisFit'
  <2>1. \A y \in Blocks(func) : phis'[y] \in Seq(Allocas) /\ NoRepeats(phis'[y])
    BY <1>2, <1>9, <1>10 DEF PhisFit
  <2>2. phis' = [y \in Blocks(func) |-> phis'[y]]
    BY <1>1
  <2>3. QED
    BY <1>11, <2>1, <2>2 DEF PhisFit
<1>13. Prepared'
  BY <1>1, <1>11, <1>12 DEF Prepared
<1>14. PhiPlaces' = PhiPlaces \cup {PhiOf(y, v) : y \in new}
  <2>1. PhiPlaces' = UNION {{PhiOf(y, x) : x \in ToSet(phis'[y])} : y \in Blocks(func)}
    BY <1>1 DEF PhiPlaces
  <2>2. \A y \in Blocks(func) : ToSet(phis'[y]) = ToSet(phis[y]) \cup (IF y \in new THEN {v} ELSE {})
    BY <1>9, <1>10
  <2> HIDE DEF new
  <2>3. \A q \in PhiPlaces' : q \in PhiPlaces \/ \E y \in new : q = PhiOf(y, v)
    <3> SUFFICES ASSUME NEW y \in Blocks(func), NEW x \in ToSet(phis'[y])
                 PROVE  PhiOf(y, x) \in PhiPlaces \/ \E z \in new : PhiOf(y, x) = PhiOf(z, v)
      BY <2>1
    <3>1. x \in ToSet(phis[y]) \/ (y \in new /\ x = v)
      BY <2>2
    <3>2. QED
      BY <3>1 DEF PhiPlaces
  <2>4. \A q \in PhiPlaces : q \in PhiPlaces'
    <3> SUFFICES ASSUME NEW y \in Blocks(func), NEW x \in ToSet(phis[y])
                 PROVE  PhiOf(y, x) \in PhiPlaces'
      BY DEF PhiPlaces
    <3>1. x \in ToSet(phis'[y])
      BY <2>2
    <3>2. QED
      BY <2>1, <3>1
  <2>5. \A y \in new : PhiOf(y, v) \in PhiPlaces'
    <3> SUFFICES ASSUME NEW y \in new
                 PROVE  PhiOf(y, v) \in PhiPlaces'
      OBVIOUS
    <3>1. y \in Blocks(func) /\ v \in ToSet(phis'[y])
      BY <1>5, <2>2
    <3>2. QED
      BY <2>1, <3>1
  <2>6. QED
    BY <2>3, <2>4, <2>5
<1>15. pairs' = [q \in PhiPlaces' |-> << >>]
  <2>1. DOMAIN pairs = PhiPlaces
    BY DEF Placing
  <2>2. QED
    BY <1>1, <1>14, <2>1
<1>16. Placing'
  BY <1>1, <1>8, <1>11, <1>15 DEF Placing
<1>17. QED
  BY <1>1, <1>13, <1>16 DEF MInv

-----------------------------------------------------------------------------
(* The pass on a function of the visitor's.                                *)

\* A block has no dead predecessor: a block with two or more is asked by
\* HasDeadPredecessor, the only one of another block is the live one.
LEMMA LivePredecessors ==
    ASSUME NEW f, Consistent(f), Entry \in Blocks(f), ~HasDeadPredecessor(f),
           NEW b \in Reachable(f)
    PROVE  Pre(f, b) \subseteq Reachable(f)
<1>1. WellFormed(f) /\ HasEntry(f)
  BY DEF Consistent, HasEntry
<1>2. Reachable(f) \subseteq Blocks(f)
  BY <1>1, ReachableFacts
<1>3. f.pre[b] \in Seq(Nat)
  <2>1. f.pre \in Seq(Seq(Nat)) /\ Len(f.pre) = Len(f.code)
    BY <1>1 DEF WellFormed, FunctionRecords
  <2>2. b \in 1..Len(f.pre)
    BY <1>1, <1>2, <2>1, BlocksFacts
  <2>3. QED
    BY <2>1, <2>2, ElementOfSeq
<1>4. Len(f.pre[b]) \in Nat /\ DOMAIN f.pre[b] = 1..Len(f.pre[b])
  BY <1>3, LenProperties
<1>5. CASE Len(f.pre[b]) >= 2
  BY <1>5 DEF HasDeadPredecessor
<1>6. CASE Len(f.pre[b]) = 0
  <2>1. DOMAIN f.pre[b] = {}
    BY <1>4, <1>6
  <2>2. QED
    BY <2>1 DEF Pre, ToSet
<1>7. CASE Len(f.pre[b]) = 1
  <2>1. DOMAIN f.pre[b] = {1}
    BY <1>4, <1>7
  <2>2. Pre(f, b) = {f.pre[b][1]}
    BY <2>1 DEF Pre, ToSet
  <2>3. b # Entry
    <3>1. f.pre[Entry] = << >>
      BY DEF Consistent, NoWayBack
    <3>2. Len(f.pre[Entry]) = 0
      BY <3>1
    <3>3. Len(f.pre[Entry]) # 1
      BY <3>2
    <3>4. QED
      BY <1>7, <3>3, Zenon
  <2>4. PICK p \in Reachable(f) : b \in Succ(f, p)
    BY <1>1, <2>3, EnteredFromLive
  <2>5. p \in Pre(f, b)
    BY <1>2, <2>4, PredecessorsAre
  <2>6. QED
    BY <2>2, <2>4, <2>5
<1>8. \A n \in Nat : n = 0 \/ n = 1 \/ n >= 2
  OBVIOUS
<1>9. QED
  BY <1>4, <1>5, <1>6, <1>7, <1>8, Zenon

\* A finished function of the visitor's is sound, if the dominator pass gets
\* through it.
LEMMA FinishedIsSound ==
    ASSUME IInv, FInv, Accesses(func), Finished, ~HasDeadPredecessor(func)
    PROVE  Sound(func)
<1>1. Consistent(func) /\ WellFormed(func) /\ Entry \in Blocks(func)
  BY FinishedHasEntry
<1>2. \E c : Certified(func, c)
  BY <1>1 DEF Certified, FInv, FlowInv
<1>3. StorageFits(func)
  <2>1. StorageDominatesUses /\ DOMAIN DominatorSets(func) = Reachable(func)
    BY FInvStorage, DominatorSetsFacts
  <2>2. QED
    BY <2>1 DEF StorageDominatesUses, StorageFits
<1>4. \A b \in Reachable(func) : Pre(func, b) \subseteq Reachable(func)
  BY <1>1, LivePredecessors
<1>5. QED
  BY <1>2, <1>3, <1>4 DEF Sound

\* Run, on a finished function.
LEMMA TransformKeeps ==
    ASSUME IInv, FInv, Accesses(func), InitPass, Finished, Run
    PROVE  MInv'
<1>1. Sound(func)
  BY FinishedIsSound DEF Run
<1> DEFINE doms == DominatorSets(func)
<1>2. /\ func' = func /\ phase' = "place"
      /\ dominators' =
             [frontier |-> [b \in Blocks(func) |->
                  IF b \in DOMAIN doms THEN FrontierOf(func, doms, b)
                  ELSE DeadJoins(func, DOMAIN doms, b)],
              tree |-> [b \in Blocks(func) |->
                  IF b \in DOMAIN doms THEN ChildrenOf(doms, b) ELSE {}]]
      /\ vars_left' = {v \in Allocas : StoringBlocks(v) # {}}
      /\ phis' = [b \in Blocks(func) |-> << >>]
      /\ stacks' = [v \in Allocas |-> << >>]
      /\ UNCHANGED <<work_list, worked, pairs, known, calls, replacement, deleted>>
  BY DEF Run
<1>3. DOMAIN doms = Live /\ Live \subseteq Blocks(func) /\ doms = Doms
  BY <1>1, SoundFacts, DominatorSetsFacts DEF Live, Doms
<1>4. Allocas' = Allocas /\ Live' = Live /\ Doms' = Doms /\ Blocks(func)' = Blocks(func)
  <2>1. Allocas' = Allocas
    BY <1>2 DEF Allocas, PlacesOf, InstrAt
  <2>2. QED
    BY <1>2, <2>1 DEF Live, Doms
<1> HIDE DEF doms
<1>5. dominators'.frontier \in [Blocks(func) -> SUBSET Blocks(func)]
  <2>1. \A b \in Blocks(func) : /\ FrontierOf(func, doms, b) \subseteq Blocks(func)
                                /\ DeadJoins(func, DOMAIN doms, b) \subseteq Blocks(func)
    BY <1>3 DEF FrontierOf, DeadJoins
  <2>2. dominators'.frontier = [b \in Blocks(func) |->
             IF b \in DOMAIN doms THEN FrontierOf(func, doms, b)
             ELSE DeadJoins(func, DOMAIN doms, b)]
    BY <1>2
  <2>3. QED
    BY <2>1, <2>2
<1>6. \A b \in Live : dominators'.tree[b] = ChildrenOf(Doms, b)
  <2>1. dominators'.tree = [b \in Blocks(func) |->
             IF b \in DOMAIN doms THEN ChildrenOf(doms, b) ELSE {}]
    BY <1>2
  <2>2. QED
    BY <1>3, <2>1
<1>7. PhisFit' /\ PhiPlaces' = {}
  <2>1. \A b \in Blocks(func) : phis'[b] = << >>
    BY <1>2
  <2>2. PhisFit'
    <3>1. phis' \in [Blocks(func) -> Seq(Allocas)]
      BY <1>2
    <3>2. \A b \in Blocks(func) : NoRepeats(phis'[b])
      BY <2>1 DEF NoRepeats
    <3>3. QED
      BY <1>4, <3>1, <3>2 DEF PhisFit
  <2>3. \A b \in Blocks(func) : ToSet(phis'[b]) = {}
    BY <2>1 DEF ToSet
  <2>4. PhiPlaces' = {}
    BY <1>2, <2>3 DEF PhiPlaces
  <2>5. QED
    BY <2>2, <2>4
<1>8. Prepared'
  BY <1>1, <1>2, <1>4, <1>5, <1>6, <1>7 DEF Prepared
<1>9. Placing'
  <2>1. /\ work_list' = << >> /\ worked' = 0 /\ pairs' = << >>
        /\ known' = {} /\ calls' = << >> /\ replacement' = << >> /\ deleted' = {}
    BY <1>2 DEF InitPass
  <2>2. pairs' = [q \in PhiPlaces' |-> << >>]
    BY <1>7, <2>1
  <2>3. vars_left' \in SUBSET Allocas
    BY <1>2
  <2>4. work_list' \in Seq(Blocks(func) \X Allocas) /\ worked' \in 0..Len(work_list')
    BY <2>1
  <2>5. QED
    BY <1>2, <1>4, <2>1, <2>2, <2>3, <2>4 DEF Placing
<1>10. QED
  BY <1>2, <1>8, <1>9 DEF MInv

\* The steps of the pass.
LEMMA TransformStepKeeps ==
    ASSUME MInv, Step
    PROVE  MInv'
<1>1. CASE TakeVariable
  <2>1. phase = "place"
    BY <1>1 DEF TakeVariable
  <2>2. QED
    BY <1>1, <2>1, TakeKeeps DEF MInv, InitPass
<1>2. CASE PlacePhis
  <2>1. phase = "place"
    BY <1>2, Zenon DEF PlacePhis
  <2>2. QED
    BY <1>2, <2>1, PlaceKeeps DEF MInv, InitPass
<1>3. CASE StartRename
  <2>1. phase = "place"
    BY <1>3 DEF StartRename
  <2>2. QED
    BY <1>3, <2>1, StartKeeps DEF MInv, InitPass
<1>4. CASE EnterChild
  <2>1. phase = "rename"
    BY <1>4 DEF EnterChild
  <2>2. QED
    BY <1>4, <2>1, ChildKeeps DEF MInv, InitPass
<1>5. CASE Leave
  <2>1. phase = "rename"
    BY <1>5 DEF Leave
  <2>2. QED
    BY <1>5, <2>1, LeaveKeeps DEF MInv, InitPass
<1>6. QED
  BY <1>1, <1>2, <1>3, <1>4, <1>5 DEF Step

\* A step that leaves everything.
LEMMA RestKeeps ==
    ASSUME MInv, UNCHANGED <<func, passvars>>
    PROVE  MInv'
<1>1. /\ func' = func /\ phase' = phase /\ dominators' = dominators /\ vars_left' = vars_left
      /\ work_list' = work_list /\ worked' = worked /\ phis' = phis /\ pairs' = pairs
      /\ stacks' = stacks /\ known' = known /\ calls' = calls
      /\ replacement' = replacement /\ deleted' = deleted
  BY DEF passvars
<1>2. InitPass => InitPass'
  BY <1>1 DEF InitPass
<1>3. Prepared => Prepared'
  BY <1>1, PreparedNext
<1>4. /\ Allocas' = Allocas /\ PhiPlaces' = PhiPlaces /\ (SomeUnset' <=> SomeUnset)
      /\ Replacements' = Replacements /\ Operandss' = Operandss
      /\ Live' = Live /\ Doms' = Doms
      /\ Values' = Values
  BY <1>1, SameSets
<1>5. Placing => Placing'
  BY <1>1, <1>4 DEF Placing
<1>6. Typed => Typed'
  BY <1>1, <1>4 DEF Typed
<1>7. Walked => Walked'
  <2> SUFFICES ASSUME Walked
               PROVE  Walked'
    OBVIOUS
  <2>1. \A b : WaitDelete(b)' = WaitDelete(b)
    BY <1>1 DEF WaitDelete, IsLocalAccess, InstrAt
  <2>2. \A b \in Entered(Live, Doms, calls) \ Called(calls) : WaitDelete(b)' \subseteq deleted'
    BY <1>1, <2>1 DEF Walked, Cleaned
  <2>3. QED
    BY <1>1, <2>2, WalkedNext DEF Walked
<1>8. QED
  BY <1>1, <1>2, <1>3, <1>4, <1>5, <1>6, <1>7 DEF MInv

\* The visitor, the pass, and what the pass takes from the visitor.
BuiltInv == IInv /\ FInv /\ Accesses(func) /\ MInv

\* While the visitor is at work the pass has not begun.
LEMMA BuildKeeps ==
    ASSUME BuiltInv, Build
    PROVE  BuiltInv'
<1>1. IInv' /\ FInv' /\ Accesses(func')
  BY NextIInv, NextFInv, NextAccesses DEF BuiltInv, Build
<1>2. InitPass
  BY DEF BuiltInv, MInv, Build
<1>3. InitPass'
  BY <1>2 DEF InitPass, Build, passvars
<1>4. QED
  BY <1>1, <1>3 DEF BuiltInv, MInv

\* While the pass is at work the visitor's invariants stay.
LEMMA BuilderRests ==
    ASSUME BuiltInv, UNCHANGED <<func, buildvars>>
    PROVE  IInv' /\ FInv' /\ Accesses(func')
<1>1. UNCHANGED vars
  BY DEF vars, buildvars
<1>2. IInv' /\ FInv'
  BY <1>1, StutterIInv, StutterFInv DEF BuiltInv
<1>3. QED
  BY <1>2 DEF BuiltInv

\* It holds at the start.
LEMMA InitBuiltInv == BuiltInit => BuiltInv
<1>1. BuiltInit => IInv /\ FInv
  BY InitIInv, InitFInv DEF BuiltInit
<1>2. BuiltInit => Accesses(func)
  BY EmptyAccesses DEF BuiltInit, Init
<1>3. QED
  BY <1>1, <1>2 DEF BuiltInit, BuiltInv, MInv

\* Every step of the visitor and of the pass keeps it.
LEMMA NextBuiltInv == BuiltInv /\ [BuiltNext]_builtvars => BuiltInv'
<1> SUFFICES ASSUME BuiltInv, [BuiltNext]_builtvars
             PROVE  BuiltInv'
  OBVIOUS
<1>1. CASE Build
  BY <1>1, BuildKeeps
<1>2. CASE Transform
  <2>1. InitPass
    BY <1>2 DEF Transform, Run, BuiltInv, MInv
  <2>2. MInv'
    BY <1>2, <2>1, TransformKeeps DEF Transform, BuiltInv
  <2>3. UNCHANGED <<func, buildvars>>
    BY <1>2 DEF Transform, Run
  <2>4. QED
    BY <2>2, <2>3, BuilderRests DEF BuiltInv
<1>3. CASE TransformStep
  <2>1. MInv'
    BY <1>3, TransformStepKeeps DEF TransformStep, BuiltInv
  <2>2. UNCHANGED <<func, buildvars>>
    BY <1>3, Zenon DEF TransformStep, Step, TakeVariable, PlacePhis, StartRename, EnterChild, Leave
  <2>3. QED
    BY <2>1, <2>2, BuilderRests DEF BuiltInv
<1>4. CASE UNCHANGED builtvars
  <2>1. UNCHANGED <<func, buildvars>> /\ UNCHANGED <<func, passvars>>
    BY <1>4 DEF builtvars
  <2>2. QED
    BY <2>1, BuilderRests, RestKeeps DEF BuiltInv
<1>5. QED
  BY <1>1, <1>2, <1>3, <1>4 DEF BuiltNext

\* What the pass keeps true on every program of the visitor.
THEOREM BuiltInvariant == BuiltSpec => []BuiltInv
BY InitBuiltInv, NextBuiltInv, PTL DEF BuiltSpec

-----------------------------------------------------------------------------
(* The properties.                                                         *)

\* When the walk is over it has entered every reachable block.
LEMMA AllEntered == Entered(Live, Doms, << >>) = Live /\ Called(<< >>) = {}
BY DEF Entered, ToCome, Called

\* The types, from Typed and Prepared.
LEMMA InvTypes == MInv => Mem2RegTypeOK
<1> SUFFICES ASSUME MInv, phase # "idle"
             PROVE  Mem2RegTypeOK
  BY DEF Mem2RegTypeOK
<1>1. /\ phase \in {"place", "rename", "done", "aborted", "undefined"}
      /\ Prepared
      /\ (phase = "place" /\ Placing) \/ Typed
  BY DEF MInv, InitPass
<1>2. PhisFit
  BY <1>1 DEF Prepared
<1>3. Typed
  <2>1. CASE phase = "place" /\ Placing
    <3>1. \A S : << >> \in Seq(S)
      OBVIOUS
    <3>2. replacement \in [{} -> Values]
      BY <2>1 DEF Placing
    <3>3. QED
      BY <2>1, <3>1, <3>2 DEF Placing, Typed, Operandss, Replacements
  <2>2. QED
    BY <1>1, <2>1
<1>4. \A b \in Blocks(func) : ToSet(phis[b]) \subseteq Allocas
  <2> SUFFICES ASSUME NEW b \in Blocks(func)
               PROVE  ToSet(phis[b]) \subseteq Allocas
    OBVIOUS
  <2>1. phis[b] \in Seq(Allocas)
    BY <1>2 DEF PhisFit
  <2>2. QED
    BY <2>1, ElementOfSeq DEF ToSet
<1>5. DOMAIN stacks = Allocas /\ DOMAIN pairs = PhiPlaces
  BY <1>3 DEF Typed, Operandss
<1>6. ASSUME NEW p \in DOMAIN pairs, NEW k \in DOMAIN pairs[p]
      PROVE  pairs[p][k][1] \in Values /\ pairs[p][k][2] \in Blocks(func)
  <2>1. pairs[p] \in Seq(Values \X Blocks(func))
    BY <1>3, <1>5 DEF Typed, Operandss
  <2>2. pairs[p][k] \in Values \X Blocks(func)
    BY <2>1, ElementOfSeq
  <2>3. QED
    BY <2>2
<1>7. ASSUME NEW v \in DOMAIN stacks
      PROVE  ToSet(stacks[v]) \subseteq Values
  <2>1. stacks[v] \in Seq(Values)
    BY <1>3, <1>5 DEF Typed
  <2>2. QED
    BY <2>1, ElementOfSeq DEF ToSet
<1>8. /\ \A l \in DOMAIN replacement : InstrAt(l).op = "load"
      /\ \A l \in DOMAIN replacement : replacement[l] \in Values
  BY <1>3 DEF Typed, Replacements, LocalLoads, IsLocalAccess
<1>10. DOMAIN pairs = UNION {{PhiOf(b, v) : v \in ToSet(phis[b])} : b \in Blocks(func)}
  BY <1>5 DEF PhiPlaces
<1>11. known \subseteq DOMAIN stacks /\ deleted \subseteq PlacesOf(func)
  BY <1>3, <1>5 DEF Typed
<1>12. Values \subseteq PlacesOf(func) \cup DOMAIN pairs
  BY <1>5 DEF Values
<1>13. QED
  BY <1>1, <1>4, <1>5, <1>6, <1>7, <1>8, <1>10, <1>11, <1>12 DEF Mem2RegTypeOK

\* When the walk is over every use of a load is behind the definition of its
\* value, and every phi has an operand per predecessor.
LEMMA InvValidSSA == MInv => ValidSSA
<1> SUFFICES ASSUME MInv, phase = "done"
             PROVE  ValidSSA
  BY DEF ValidSSA
<1>1. Prepared /\ Typed /\ calls = << >> /\ Walked
  BY DEF MInv, InitPass
<1>2. ValuesFit(Live, stacks, known, replacement) /\ OperandsFit(Live, pairs)
  BY <1>1, AllEntered DEF Walked
<1>3. /\ Sound(func) /\ DOMAIN Doms = Live /\ Live \subseteq Blocks(func)
      /\ Consistent(func)
  BY <1>1, SoundFacts, DominatorSetsFacts DEF Prepared, Live, Doms
<1>4. ASSUME NEW l \in DOMAIN replacement
      PROVE  /\ HomeOf(replacement[l]) \in Doms[l[1]]
             /\ replacement[l] \notin deleted \cap DOMAIN replacement
  BY <1>2 DEF ValuesFit, Final
<1>5. ASSUME NEW b \in Live, NEW v \in ToSet(phis[b])
      PROVE  LET ops == pairs[PhiOf(b, v)]
             IN  /\ \A k \in DOMAIN ops :
                       /\ ops[k][2] \in Pre(func, b)
                       /\ HomeOf(ops[k][1]) \in Doms[ops[k][2]]
                 /\ \A j, k \in DOMAIN ops : ops[j][2] = ops[k][2] => j = k
                 /\ Initialised =>
                       \A p \in Pre(func, b) : v[1] \in Doms[p] =>
                           \E k \in DOMAIN ops : ops[k][2] = p
  <2> DEFINE q == PhiOf(b, v)
  <2>1. q \in PhiPlaces /\ q[1] = b /\ q[2] = v[1]
    BY <1>3 DEF PhiPlaces, PhiOf
  <2>2. \A p \in Live : p \in Pre(func, b) <=> b \in Succ(func, p)
    BY <1>3, PredecessorsAre
  <2>3. Pre(func, b) \subseteq Live
    BY <1>3 DEF Sound, Live
  <2> HIDE DEF q
  <2>4. /\ \A k \in DOMAIN pairs[q] : /\ pairs[q][k][2] \in Live
                                      /\ b \in Succ(func, pairs[q][k][2])
                                      /\ HomeOf(pairs[q][k][1]) \in Doms[pairs[q][k][2]]
        /\ \A j, k \in DOMAIN pairs[q] : pairs[q][j][2] = pairs[q][k][2] => j = k
        /\ Initialised => \A p \in Live : b \in Succ(func, p) /\ v[1] \in Doms[p] =>
              \E k \in DOMAIN pairs[q] : pairs[q][k][2] = p
    BY <1>2, <2>1 DEF OperandsFit
  <2>5. \A k \in DOMAIN pairs[q] : /\ pairs[q][k][2] \in Pre(func, b)
                                   /\ HomeOf(pairs[q][k][1]) \in Doms[pairs[q][k][2]]
    BY <2>2, <2>4
  <2>6. Initialised => \A p \in Pre(func, b) : v[1] \in Doms[p] =>
              \E k \in DOMAIN pairs[q] : pairs[q][k][2] = p
    BY <2>2, <2>3, <2>4
  <2>7. QED
    BY <2>4, <2>5, <2>6 DEF q
<1>6. QED
  BY <1>3, <1>4, <1>5 DEF ValidSSA, Doms

\* When the walk is over wait_delete has held every load and store of a local.
LEMMA InvAccessesGone == MInv => AccessesGone
<1> SUFFICES ASSUME MInv, phase = "done", Initialised,
                    NEW b \in Live, NEW k \in DOMAIN func.code[b],
                    \/ func.code[b][k].op = "alloca"
                    \/ IsLocalAccess(func.code[b][k], "load")
                    \/ IsLocalAccess(func.code[b][k], "store")
             PROVE  <<b, k>> \in deleted
  BY DEF AccessesGone, Live
<1>1. Prepared /\ Typed /\ calls = << >> /\ Walked /\ Allocas \subseteq deleted
  BY DEF MInv, InitPass
<1>2. ValuesFit(Live, stacks, known, replacement) /\ WaitDelete(b) \subseteq deleted
  BY <1>1, AllEntered DEF Walked, Cleaned
<1>3. /\ <<b, k>> \in PlacesOf(func) /\ InstrAt(<<b, k>>) = func.code[b][k]
  BY <1>1, SoundFacts, PlaceIs DEF Prepared, Live, InstrAt
<1>4. CASE func.code[b][k].op = "alloca"
  BY <1>1, <1>3, <1>4 DEF Allocas
<1>5. CASE IsLocalAccess(func.code[b][k], "load")
  <2>1. <<b, k>> \in LocalLoads
    BY <1>3, <1>5 DEF LocalLoads
  <2>2. <<b, k>> \in DOMAIN replacement
    BY <1>2, <2>1 DEF ValuesFit
  <2>3. QED
    BY <1>2, <2>2 DEF WaitDelete
<1>6. CASE IsLocalAccess(func.code[b][k], "store")
  BY <1>2, <1>6 DEF WaitDelete
<1>7. QED
  BY <1>4, <1>5, <1>6

\* The values of the pass are of their types.
THEOREM Mem2RegTypes == BuiltSpec => []Mem2RegTypeOK
<1>1. BuiltInv => Mem2RegTypeOK
  BY InvTypes DEF BuiltInv
<1>2. QED
  BY <1>1, BuiltInvariant, PTL

\* re_name's assertion holds, and back() is called on no empty vector, in every
\* program whose entry block stores to all its variables.
THEOREM RenamingNeverFails == BuiltSpec => []NeverFails
<1>1. BuiltInv => NeverFails
  BY DEF BuiltInv, MInv, InitPass, NeverFails, SomeUnset
<1>2. QED
  BY <1>1, BuiltInvariant, PTL

\* The pops of step 7 are the pushes of steps 3 and 5, whatever the program.
THEOREM StacksStayBalanced == BuiltSpec => []StacksBalanced
<1>1. BuiltInv => StacksBalanced
  <2> SUFFICES ASSUME BuiltInv, phase \in {"rename", "done"}
               PROVE  StacksBalanced
    BY DEF StacksBalanced
  <2>1. Typed /\ StacksFit(calls, stacks)
    BY DEF BuiltInv, MInv, InitPass, Walked
  <2>2. QED
    BY <2>1 DEF StacksBalanced, StacksFit, Typed
<1>2. QED
  BY <1>1, BuiltInvariant, PTL

\* The result is in SSA form.
THEOREM ResultIsSSA == BuiltSpec => []ValidSSA
<1>1. BuiltInv => ValidSSA
  BY InvValidSSA DEF BuiltInv
<1>2. QED
  BY <1>1, BuiltInvariant, PTL

\* Nothing is left that refers to an alloca that is gone.
THEOREM NoAccessLeft == BuiltSpec => []AccessesGone
<1>1. BuiltInv => AccessesGone
  BY InvAccessesGone DEF BuiltInv
<1>2. QED
  BY <1>1, BuiltInvariant, PTL
=============================================================================
